---------------------------- MODULE MCEcsTypes ----------------------------
(* A small instance of EcsTypes: bytes of three bits. *)
EXTENDS EcsTypes

MCOrder == <<"DontSaveEntity", "DeletedEntity", "A", "B", "C">>

MCShapes == [size : {0, 1, 2, 4, 6}, alignment : {1, 2, 4}, shared : BOOLEAN]

\* A type is a whole number of its alignments large.
MCTypeShapes == {t \in MCShapes : t.size % t.alignment = 0}
=============================================================================
