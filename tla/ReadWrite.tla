------------------------------ MODULE ReadWrite ------------------------------
(***************************************************************************)
(* How an entity writes and reads (entity/createEntityReadWriteStrategies, *)
(* utils/adaptiveReadWrite): by operation, whether changes are told in a   *)
(* batch and whether subviews are used, from a matrix of measurements and  *)
(* what the application says.  EntityStore takes the batch of updateOne    *)
(* and updateMany; setOne and setMany are resolved and not used.           *)
(***************************************************************************)
EXTENDS Naturals, FiniteSets

Operations == {"readOne", "readMany", "updateOne", "updateMany", "setOne", "setMany"}
Unset == "undefined"    \* a field of readWrite or of cache that is not given

(* resolveMatrix: the file is a matrix of the expected shape, so that what
   is given for one that is not is never used.  By profile, the operations
   that are batched and those that use subviews.                           *)
Matrix ==
    [offOff |-> [batch |-> {"setMany"}, subview |-> {"updateOne", "setOne"}],
     offOn  |-> [batch |-> Operations, subview |-> {"readOne", "readMany"}],
     onOff  |-> [batch |-> {"readMany", "updateOne", "setOne", "setMany"},
                 subview |-> {"readMany", "updateOne", "updateMany"}],
     onOn   |-> [batch |-> {}, subview |-> Operations \ {"updateMany"}]]

(* resolveAdaptiveReadWriteProfileKey *)
ProfileKey(cacheEnabled, lruEnabled) ==
    CASE ~cacheEnabled /\ ~lruEnabled -> "offOff"
      [] ~cacheEnabled /\ lruEnabled  -> "offOn"
      [] cacheEnabled /\ ~lruEnabled  -> "onOff"
      [] cacheEnabled /\ lruEnabled   -> "onOn"

(* resolveAdaptiveReadWriteConfig, for a profile and an operation. *)
Recommended(profile, operation) ==
    [batch |-> operation \in Matrix[profile].batch, subview |-> operation \in Matrix[profile].subview]

(* createEntityReadWriteStrategies: a field that is given holds for every
   operation.  cache is "none", or the number of entries it keeps.         *)
EntityStrategies(readWrite, cache) ==
    LET profile == ProfileKey(cache # "none", cache \notin {"none", Unset, "0"})
        recommended(operation) == Recommended(profile, operation)
    IN [operation \in Operations |->
           [batch   |-> IF readWrite.batch = Unset THEN recommended(operation).batch ELSE readWrite.batch = "true",
            subview |-> IF readWrite.subview = Unset THEN recommended(operation).subview ELSE readWrite.subview = "true"]]

(* The configurations an application can give, as far as it matters. *)
Choices == {Unset, "true", "false"}
Configurations == [readWrite : [batch : Choices, subview : Choices], cache : {"none", Unset, "0", "100"}]
StrategiesOf(c) == EntityStrategies(c.readWrite, c.cache)
=============================================================================
