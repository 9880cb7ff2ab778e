-------------------------------- MODULE MCIpc --------------------------------
(***************************************************************************)
(* Ipc with four handle ids, games that use a service or two, and          *)
(* requests with every combination of a few handles and descriptors.       *)
(***************************************************************************)
EXTENDS Ipc

MCGames == {{"apm"}, {"appletOE"}, {"nvdrv", "unknown"}, {"vi:u"}}

\* A pointer and a buffer with something in every field; the first is above 4 GB.
Far == [low |-> 256, high |-> 7 + 16 * 5, size |-> 3]
Big == [low |-> 9, high |-> 7 + 16 * 2, size |-> 4, sizeHigh |-> 11, flags |-> 3]

MCShapes ==
    [pid : BOOLEAN, copied : {<< >>, <<CURRENT_PROCESS, 7>>}, moved : {<<9>>},
     X : {<< >>, <<StaticBuffer, Far>>}, A : {<< >>, <<Big>>}, B : {<< >>}, W : {<< >>},
     C : {<< >>}, single : {FALSE}]
    \cup [pid : {TRUE}, copied : {<< >>}, moved : {<< >>}, X : {<< >>}, A : {<< >>},
          B : {<<Big, Buffer>>}, W : {<<Big>>}, C : {<<StaticBuffer>>, <<StaticBuffer, StaticBuffer>>},
          single : {FALSE}]
    \cup [pid : {FALSE}, copied : {<<CURRENT_THREAD>>}, moved : {<< >>}, X : {<<Far>>},
          A : {<< >>}, B : {<<Buffer>>}, W : {<< >>}, C : {<<StaticBuffer>>, <<Far>>}, single : {TRUE}]

MCPayloads == [shape : MCShapes, args : {<< >>, <<61, 62, 63, 64, 65>>}]
=============================================================================
