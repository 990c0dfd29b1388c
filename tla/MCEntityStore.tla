--------------------------- MODULE MCEntityStore ---------------------------
(* Instances of EntityStore: two entities of two contents shared by two
   units, and the symmetry of keys and contents.  The application asks for
   batches, so that writes of one and of many are told in batches.         *)
EXTENDS EntityStore, TLC

Choice == INSTANCE ReadWrite

Batching == Choice!EntityStrategies([batch |-> "true", subview |-> Choice!Unset], "none")
UpdateOneBatch  == Batching.updateOne.batch
UpdateManyBatch == Batching.updateMany.batch

(* What the application says holds for every operation and for no other
   field; what it leaves open is the same whatever it says of the rest.    *)
ASSUME ChoicesAreHonoured ==
    \A c \in Choice!Configurations : \A operation \in Choice!Operations, field \in {"batch", "subview"} :
        LET chosen == Choice!StrategiesOf(c)[operation][field]
            silent == Choice!StrategiesOf([c EXCEPT !.readWrite = [f \in {"batch", "subview"} |-> Choice!Unset]])
        IN IF c.readWrite[field] = Choice!Unset THEN chosen = silent[operation][field]
           ELSE chosen <=> c.readWrite[field] = "true"

Symmetry == Permutations(Ids) \cup Permutations(Keys) \cup Permutations(Values)
=============================================================================
