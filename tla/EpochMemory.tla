----------------------------- MODULE EpochMemory -----------------------------
(***************************************************************************)
(* What project memory promises, without saying how it is kept: a map from  *)
(* authority and key to the last payload written there, a budget of keys    *)
(* per authority, retirement of every older epoch of one scope, and a saved *)
(* copy of the map that a restart brings back.                              *)
(***************************************************************************)
EXTENDS Integers, FiniteSets

CONSTANTS Authorities, Keys, Contents, Absent, Budget, SaveBudget, Older(_, _)

VARIABLES mem, saved

Empty == [a \in Authorities |-> [k \in Keys |-> Absent]]

KeysOf(m, a) == {k \in Keys : m[a][k] # Absent}

Init == mem = Empty /\ saved = Empty

HasRoom(m, a, k) == k \in KeysOf(m, a) \/ Cardinality(KeysOf(m, a)) < Budget

(* What a call makes of the map m.  The last payload written under exactly     *)
(* this authority and key wins, unless the key is new and there is no room;     *)
(* every authority older than the new one in its scope is emptied, no other.     *)
Written(m, a, k, c) == IF HasRoom(m, a, k) THEN [m EXCEPT ![a][k] = c] ELSE m

Retired(m, new) ==
  [a \in Authorities |-> IF Older(a, new) THEN [k \in Keys |-> Absent] ELSE m[a]]

Put(a, k, c) ==
  /\ HasRoom(mem, a, k)
  /\ mem' = Written(mem, a, k, c)
  /\ UNCHANGED saved

RetireBefore(new) ==
  /\ mem' = Retired(mem, new)
  /\ UNCHANGED saved

Save ==
  /\ Cardinality({a \in Authorities : KeysOf(mem, a) # {}}) <= SaveBudget
  /\ saved' = mem
  /\ UNCHANGED mem

Restart == mem' = saved /\ UNCHANGED saved

Next ==
  \/ Save
  \/ Restart
  \/ \E a \in Authorities : RetireBefore(a)
  \/ \E a \in Authorities, k \in Keys, c \in Contents : Put(a, k, c)

Spec == Init /\ [][Next]_<<mem, saved>>
=============================================================================
