---------------------------- MODULE AtomicConfig ----------------------------
(***************************************************************************)
(* What the configuration storage promises, whatever happens to the power  *)
(* and whichever filesystem call is refused: one stored configuration (the *)
(* one the next boot loads), that a save replaces in one step or not at    *)
(* all and that a factory reset removes.  ConfigStore implements it.       *)
(***************************************************************************)

CONSTANTS
  Configs,  \* valid configurations
  Absent    \* no configuration: the device is, or becomes, a new one

VARIABLES
  stored,   \* what a boot would load now
  request,  \* the operation in progress
  damaged,  \* the file that should hold the configuration is unreadable
  flaky     \* can a read of an intact file fail?

vars == <<stored, request, damaged, flaky>>

None    == [op |-> "none", value |-> Absent]
Save(c) == [op |-> "save", value |-> c]
Erase   == [op |-> "erase", value |-> Absent]

Init ==
  /\ stored \in Configs \union {Absent}
  /\ request = None
  /\ damaged \in BOOLEAN
  /\ flaky \in BOOLEAN

\* A save or an erase may repair a damaged file; nothing damages one.
NothingDamaged == damaged' => damaged

Begin(r) ==
  /\ request = None /\ request' = r
  /\ UNCHANGED <<stored, damaged, flaky>>

\* The save, or the erase, takes effect and is acknowledged.
Done ==
  /\ request # None /\ request' = None
  /\ stored' = request.value
  /\ NothingDamaged
  /\ UNCHANGED flaky

\* An erase may take effect before it is acknowledged, and then still fail.
EraseTakesEffect ==
  /\ request = Erase /\ stored' = Absent
  /\ NothingDamaged
  /\ UNCHANGED <<request, flaky>>

\* The operation is refused, or the power fails: the store is as it was.
\* With no request, this is a damaged file put right.
Abandoned ==
  /\ request' \in {request, None}
  /\ NothingDamaged
  /\ UNCHANGED <<stored, flaky>>

\* Over a damaged file a save has nothing to fall back on.
LoseDamaged ==
  /\ request.op = "save" /\ damaged
  /\ stored' = Absent
  /\ NothingDamaged
  /\ UNCHANGED <<request, flaky>>

\* A boot that cannot read an intact configuration reverts to an older one,
\* never to none.
Revert ==
  /\ flaky /\ request = None
  /\ stored \in Configs /\ stored' \in Configs
  /\ NothingDamaged
  /\ UNCHANGED <<request, flaky>>

Next ==
  \/ \E c \in Configs : Begin(Save(c))
  \/ Begin(Erase)
  \/ Done \/ EraseTakesEffect \/ Abandoned \/ LoseDamaged \/ Revert

Spec == Init /\ [][Next]_vars
=============================================================================
