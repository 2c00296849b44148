---------------------------- MODULE MCSerializers ----------------------------
(***************************************************************************)
(* The two serialisers for TLC, and the iterators with which they and every*)
(* other user of the bindings walk over rows: a call of the core engine,   *)
(* the Django bridge, whose lists take a way of their own to the engine's  *)
(* values, an iterator over a list or a tuple, or one over a dict.         *)
(***************************************************************************)
EXTENDS MCCoreEngine, MCRustSerializer, SequenceIteration, DictIteration

VARIABLE system   \* which of them runs

AnInput == CHOOSE i \in Inputs : i.rows = <<>>
AnIterator ==
  /\ size = 0 /\ tuple /\ freeThreaded /\ nightly /\ overflowChecks

SerializersInit ==
  /\ system \in {"engine", "bridge", "sequence", "dict"}
  /\ EngineInit /\ (system # "engine" => input = AnInput)
  /\ MixinInit
  /\ SequenceInit /\ (system # "sequence" => AnIterator)
  /\ DictInit /\ (system # "dict" => slots = <<>>)

SerializersNext ==
  \/ system = "engine" /\ EngineNext
       /\ UNCHANGED <<system, mixinVars, sequenceVars, dictVars>>
  \/ system = "bridge" /\ MixinNext
       /\ UNCHANGED <<system, engineVars, sequenceVars, dictVars>>
  \/ system = "sequence" /\ SequenceNext
       /\ UNCHANGED <<system, engineVars, mixinVars, dictVars>>
  \/ system = "dict" /\ DictNext
       /\ UNCHANGED <<system, engineVars, mixinVars, sequenceVars>>

SerializersSpec ==
  SerializersInit
    /\ [][SerializersNext]_<<system, engineVars, mixinVars, sequenceVars, dictVars>>
===============================================================================
