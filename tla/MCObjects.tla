------------------------------ MODULE MCObjects ------------------------------
(***************************************************************************)
(* The two stages an object's sections and relocations go through, each    *)
(* driven over its own family of links: the split into atoms, and the plan *)
(* and application of the fixups.  `job` picks the stage; the state of the *)
(* other rests.                                                            *)
(***************************************************************************)
EXTENDS MCAtomize, MCFixups

VARIABLE job

ocvars == <<avars, vars, job>>

ObjectsInit ==
  \/ job = "atomize" /\ AtomizeInit /\ Start([table |-> <<>>])
  \/ job = "fix" /\ Init /\ AtomizeStart(Link(<<>>))

ObjectsNext ==
  \/ job = "atomize" /\ AtomizeNext /\ UNCHANGED <<vars, job>>
  \/ job = "fix" /\ Next /\ UNCHANGED <<avars, job>>

ObjectsSpec == ObjectsInit /\ [][ObjectsNext]_ocvars
=============================================================================
