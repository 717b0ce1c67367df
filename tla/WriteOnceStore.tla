--------------------------- MODULE WriteOnceStore ---------------------------
(***************************************************************************)
(* What a content-addressed store promises its callers.  The name of an    *)
(* object is the digest of its bytes, so a name is either free, holds      *)
(* exactly its bytes ("whole"), or was spoilt from outside ("foreign").    *)
(* Callers only ever fill free names; they are told "ok" only for a name   *)
(* that is whole at that moment, and "conflict" only for one that is not.  *)
(***************************************************************************)
CONSTANTS Callers, Names

VARIABLES object,   \* object[n]: what a reader of name n finds
          answer    \* answer[c]: the verdict on the name of c's last call

vars == <<object, answer>>

Objects == {"absent", "whole", "foreign"}
Answers == [name : Names, verdict : {"ok", "conflict"}]
NoAnswer == [name |-> "none", verdict |-> "none"]

Init == /\ object = [n \in Names |-> "absent"]
        /\ answer = [c \in Callers |-> NoAnswer]

Tell(c, n, verdict) ==
    answer' = [answer EXCEPT ![c] = [name |-> n, verdict |-> verdict]]

\* The bytes become visible under a free name, all at once.
Put(c, n) == /\ object[n] = "absent"
             /\ object' = [object EXCEPT ![n] = "whole"]
             /\ Tell(c, n, "ok")

Confirm(c, n) == /\ object[n] = "whole"
                 /\ Tell(c, n, "ok")
                 /\ UNCHANGED object

Refuse(c, n) == /\ object[n] # "whole"
                /\ Tell(c, n, "conflict")
                /\ UNCHANGED object

\* A caller begins another call, gives up, or dies.
Withdraw(c) == /\ answer' = [answer EXCEPT ![c] = NoAnswer]
               /\ UNCHANGED object

\* From outside: names are emptied or overwritten.
Disturb == /\ object' \in [Names -> Objects]
           /\ \A n \in Names : object'[n] = "whole" => object[n] = "whole"
           /\ \/ UNCHANGED answer
              \/ answer' = [c \in Callers |-> NoAnswer]

Next == \/ \E c \in Callers, n \in Names :
              Put(c, n) \/ Confirm(c, n) \/ Refuse(c, n)
        \/ \E c \in Callers : Withdraw(c)
        \/ Disturb

Spec == Init /\ [][Next]_vars
=============================================================================
