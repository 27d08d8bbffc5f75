------------------------------ MODULE MCJsonDoc ------------------------------
(***************************************************************************)
(* Instances of JsonArray, JsonObject, the memory of documents and         *)
(* JsonFile for TLC.  A behaviour is of one of them.                       *)
(***************************************************************************)
EXTENDS JsonArray, JsonObject, JsonPoolAlc, JsonDynAlc, JsonDocPool, JsonFile, TLC

CONSTANT Parts   \* which of them

VARIABLE part

mcvars == <<part, arrayVars, objectVars, poolVars, dynVars, docVars, fileVars>>

ArrayOff == Created(1) /\ itAt = "off" /\ it = NoArrIter /\ strayed = FALSE

ObjectOff == obj = [next |-> [x \in Keys \cup Vals |-> x], ptr |-> "none", len |-> 0]
  /\ str = [k \in Keys |-> "none"] /\ body = [v \in Vals |-> v]
  /\ oitAt = "off" /\ oit = NoObjIter

FileOff == disk = 0 /\ changed = FALSE /\ fat = "idle" /\ ours = FALSE
  /\ open = FALSE /\ fpos = 0 /\ begun = 0 /\ fileSize = 0 /\ short = 0 /\ bufSize = 0
  /\ chunkNow = 0 /\ written = NoText

MCInit ==
  /\ part \in Parts
  /\ IF part = "array" THEN ArrayInit ELSE ArrayOff
  /\ IF part = "object" THEN ObjectInit ELSE ObjectOff
  /\ IF part = "file" THEN FileInit ELSE FileOff
  /\ PoolInit /\ DynInit /\ DocInit

MCNext ==
  /\ \/ /\ part = "array" /\ ArrayNext
        /\ UNCHANGED <<objectVars, poolVars, dynVars, docVars, fileVars>>
     \/ /\ part = "object" /\ ObjectNext
        /\ UNCHANGED <<arrayVars, poolVars, dynVars, docVars, fileVars>>
     \/ /\ part = "pool" /\ PoolNext
        /\ UNCHANGED <<arrayVars, objectVars, dynVars, docVars, fileVars>>
     \/ /\ part = "dyn" /\ DynNext
        /\ UNCHANGED <<arrayVars, objectVars, poolVars, docVars, fileVars>>
     \/ /\ part = "doc" /\ DocNext
        /\ UNCHANGED <<arrayVars, objectVars, poolVars, dynVars, fileVars>>
     \/ /\ part = "file" /\ FileNext
        /\ UNCHANGED <<arrayVars, objectVars, poolVars, dynVars, docVars>>
  /\ UNCHANGED part

MCSpec == MCInit /\ [][MCNext]_mcvars

\* Keys, values and strings are only compared.
Symmetry == Permutations(Keys) \cup Permutations(Vals) \cup Permutations(Names)

\* The next of a key or a value outside of the object is written before it is
\* read: states that differ in it only are one.
InObject == LinkedKeys \cup {obj.next[k] : k \in LinkedKeys}
View == <<part, arrayVars, [obj EXCEPT !.next = [x \in InObject |-> obj.next[x]]],
          str, body, oitAt, oit, poolVars, dynVars, docVars, fileVars>>

=============================================================================
