----------------------------- MODULE HandleTable -----------------------------
(***************************************************************************)
(* What the handle manager promises.  Handles are opened one after the     *)
(* other; each gets the next id, the ids being reused after IdSpace of     *)
(* them whether or not they are still in use.  An id stands for the oldest *)
(* handle that is open under it, and closing the id closes that one.       *)
(***************************************************************************)
EXTENDS Naturals

CONSTANTS IdSpace,      \* the number of handle ids
          Types         \* the types of objects a handle can name

VARIABLES open,         \* the open handles: when opened, the id, the object's type and name
          opened        \* how many were ever opened

tableVars == <<open, opened>>

\* The handles an id can stand for, and the one it does stand for.
Under(id) == {h \in open : h.id = id}
StandsFor(id) == CHOOSE h \in Under(id) : \A other \in Under(id) : h.serial <= other.serial

Init == open = {} /\ opened = 0

Open == /\ \E h \in open' \ open :
              /\ h.serial = opened /\ h.id = (opened + 1) % IdSpace /\ h.type \in Types
              /\ open' = open \cup {h}
        /\ opened' = opened + 1

Close == /\ \E id \in 0 .. IdSpace - 1 :
               /\ Under(id) # {}
               /\ open' = open \ {StandsFor(id)}
         /\ UNCHANGED opened

Next == Open \/ Close

Spec == Init /\ [][Next]_tableVars
=============================================================================
