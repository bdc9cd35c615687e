----------------------------- MODULE TokenCounter -----------------------------
(***************************************************************************)
(* internal/tokens: a vocabulary that is loaded once, by the first caller, *)
(* while all others wait in sync.Once, and an estimate in its place when   *)
(* the load has failed.  A load may go over the network and has no         *)
(* timeout.                                                                *)
(***************************************************************************)

\* once is "new", "loading" while some caller runs the function given to Do, and
\* "done"; err tells how the load ended.
Counters == [once : {"new", "loading", "done"}, err : BOOLEAN]

\* New
NewCounter == [once |-> "new", err |-> FALSE]

\* Variant: a caller that finds no vocabulary loads it, even if a load has failed.
NoVocabulary(counter) == counter.once = "new" \/ (counter.once = "done" /\ counter.err)

\* once.Do: the first caller runs the load, which ends in one of two ways.
FirstCall(counter) == counter.once = "new"

StartLoad(counter) == [counter EXCEPT !.once = "loading"]

EndLoad(counter, failed) == [once |-> "done", err |-> failed]

\* Variant: callers go on only with a vocabulary.
LoadedWell(counter) == counter.once = "done" /\ ~counter.err

\* ensure returns to everyone when the load has ended.
Ensured(counter) == counter.once = "done"

\* Variant: without a vocabulary there is no count.
CountOrNothing(counter) == IF counter.err THEN "nothing" ELSE "exact"

\* CountString: the method of the count; the number itself is left out.
CountString(counter) == IF counter.err THEN "estimate" ELSE "exact"

==============================================================================
