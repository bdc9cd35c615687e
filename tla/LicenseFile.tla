----------------------------- MODULE LicenseFile -----------------------------
(***************************************************************************)
(* The license file of internal/license.  os.WriteFile truncates the file  *)
(* and then writes it in place, so another process can meet it empty or    *)
(* half written, and two activations can write over each other.            *)
(***************************************************************************)
EXTENDS Naturals

CONSTANTS
  Keys,       \* license keys that validateKey accepts
  KeySize,    \* the size of each
  OtherKey    \* a key nobody activates: two records written over each other can show it

ASSUME KeyAssumption == KeySize \in [Keys -> Nat] /\ OtherKey \notin Keys

\* A file is absent, empty, a record of a key, or bytes that do not parse.
Absent == [kind |-> "absent"]
Empty == [kind |-> "empty"]
Torn == [kind |-> "torn"]
Holding(key) == [kind |-> "record", key |-> key]

Files == {Absent, Empty, Torn} \cup {Holding(key) : key \in Keys \cup {OtherKey}}

\* Load: whether it returns a record.
Loads(file) == file.kind = "record"

\* Variant: the file is opened without O_TRUNC.
OpenInPlace(file) == IF file = Absent THEN Empty ELSE file

\* os.WriteFile opens the file with O_CREATE and O_TRUNC,
Truncate(file) == Empty

\* and writes it from the start; bytes of a longer record stay behind a shorter one.
\* What there can be afterwards:
WriteOver(file, key) ==
  IF file \in {Holding(k) : k \in Keys}
    THEN {IF KeySize[file.key] > KeySize[key] THEN Torn ELSE Holding(key)}
    ELSE IF file = Empty THEN {Holding(key)} ELSE {Torn, Holding(key)}

\* The write is cut short by the end of the process or by a full disk.
WriteShort(file) == IF Loads(file) THEN {Torn, Holding(OtherKey)} ELSE {Torn}

\* os.Remove
Remove(file) == Absent

==============================================================================
