------------------------------ MODULE StorageMC ------------------------------
(***************************************************************************)
(* Instances for TLC of what a running engine keeps: package objects in    *)
(* memory, and streams of a replay.  A behaviour is about one of the two.  *)
(*                                                                         *)
(* Objects: programs of every mode, with and without initial values and a  *)
(* level singleton.  Streams: values of one and two slots and of none, an  *)
(* array of streams, data; the next identifier is free or out of reach.    *)
(* Keys are whole, questions and frames also between and beyond them.      *)
(***************************************************************************)
EXTENDS PackageState, Streams

Object(value, link, shape) == [value |-> value, link |-> link, shape |-> shape]
Program(mode, level, variables, initial, entities) ==
  [mode |-> mode, level |-> level, variables |-> variables, initial |-> initial, entities |-> entities]

Nothing == Object(0, "nil", "nil")
\* A Cell and a Node that point at each other or at nothing, and two Nodes.
Zero == [a |-> Nothing, m |-> Nothing, n |-> Nothing]
Ring == [a |-> Object(2, "nil", "nil"), m |-> Nothing, n |-> Object(0, "a", "n")]
Half == [a |-> Nothing, m |-> Nothing, n |-> Object(0, "nil", "a")]
Pair == [a |-> Nothing, m |-> Object(0, "nil", "n"), n |-> Object(2, "nil", "m")]

Own == <<"preprocess", "none">>
MCPrograms ==
  {Program("play", TRUE, <<"n">>, Ring, Own), Program("play", FALSE, <<"m", "n">>, Pair, Own),
   Program("watch", TRUE, <<"a", "n">>, Half, Own), Program("watch", FALSE, <<"a", "n">>, Zero, Own),
   Program("tutorial", FALSE, <<"a", "n">>, Half, <<"preprocess">>),
   Program("tutorial", FALSE, <<"n">>, Ring, <<"none">>),
   Program("preview", TRUE, <<"n">>, Ring, <<"preprocess", "preprocess">>)}
MCObjects == {"a", "m", "n", "mark"}
MCNodes == {"m", "n"}

---------------------------------------------------------------------------
Stream(name, value, kind, slots, length) ==
  [name |-> name, value |-> value, kind |-> kind, slots |-> slots, length |-> length]
MCDeclarations ==
  {<<Stream("notes", "State", "stream", 2, 1)>>,
   <<Stream("notes", "State", "stream", 1, 1)>>,
   <<Stream("summary", "Point", "data", 2, 1), Stream("notes", "State", "stream", 1, 1)>>,
   <<Stream("empty", "Nothing", "stream", 0, 1), Stream("notes", "State", "stream", 1, 2)>>}
MCTimes == {0, 1, 2, 4}
MCCalls == {<<2, 2, 1>>, <<3, 2, 1>>, <<4, 2, 1>>}

---------------------------------------------------------------------------
NoStreams ==
  /\ play = <<>> /\ watch = <<>> /\ phase = "idle" /\ streams = <<>> /\ written = <<>>
  /\ iterator = NoIterator /\ seen = <<>>
NoObjects == PackageInit /\ source = Program("play", FALSE, <<"m", "n">>, Pair, Own)

StorageInit ==
  \/ PackageInit /\ NoStreams
  \/ StreamInit /\ NoObjects

StorageNext ==
  \/ phase = "idle" /\ PackageNext /\ UNCHANGED streamVars
  \/ StreamNext /\ UNCHANGED packageVars

StorageSpec == StorageInit /\ [][StorageNext]_<<packageVars, streamVars>>

\* No action reads the answer to the last statement: states that differ in
\* it alone have the same successors, and every step is checked.
Unanswered == <<source, memory, waiting, streamVars>>
=============================================================================
