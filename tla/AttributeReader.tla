-------------------------- MODULE AttributeReader --------------------------
(***************************************************************************)
(* AttributeReader of the OPC UA client: the values of a set of attributes *)
(* are read in batches, and a result is known by its place in a response.  *)
(* A value is represented by its attribute and its age.                    *)
(***************************************************************************)
EXTENDS Integers, Sequences, SequencesExt, FiniteSets

CONSTANTS Attributes,   \* attributes of nodes
          MaxBatch,     \* maxBatchSize; 0 is no limit
          MaxAge,       \* bound on the changes of values
          MaxBad,       \* bound on the attributes that are not read well at a time
          Unread        \* no result

ASSUME AttributeReaderAssumption ==
  /\ MaxBatch \in Nat /\ MaxAge \in Nat /\ MaxBad \in Nat
  /\ Unread \notin [of : Attributes, age : Nat]

VARIABLES
  age,      \* how often the server has changed each value
  good,     \* whether the server reads an attribute with status Good
  asked,    \* AttributeReader::attributes, in the order of insertion
  result,   \* resultMap: [of, age] or Unread
  pos,      \* attributes read so far by read(); -1 when it does not run
  outcome,  \* how the last read() ended: "none", "running", "returned", "threw"
  since,    \* history: the age of each value when read() began
  steady    \* history: attributes that were good ever since

readerVars == <<age, good, asked, result, pos, outcome, since, steady>>

AttributeReaderInit ==
  /\ age = [a \in Attributes |-> 0] /\ good = [a \in Attributes |-> TRUE]
  /\ asked = <<>> /\ result = [a \in Attributes |-> Unread]
  /\ pos = -1 /\ outcome = "none" /\ since = age /\ steady = {}

ValueChanges(a) ==
  /\ \/ /\ SumFunction(age) < MaxAge
        /\ age' = [age EXCEPT ![a] = @ + 1] /\ UNCHANGED good
     \/ /\ good' = [good EXCEPT ![a] = ~@] /\ UNCHANGED age
        /\ Cardinality({b \in Attributes : ~good'[b]}) <= MaxBad
  /\ steady' = {b \in steady : good'[b]}
  /\ UNCHANGED <<asked, result, pos, outcome, since>>

AddAttribute(a) ==
  /\ pos = -1
  /\ asked' = IF Contains(asked, a) THEN asked ELSE Append(asked, a)
  /\ UNCHANGED <<age, good, result, pos, outcome, since, steady>>

ClearAttributes ==
  /\ pos = -1 /\ asked' = <<>> /\ UNCHANGED <<age, good, result, pos, outcome, since, steady>>

ClearResults ==
  /\ pos = -1 /\ result' = [a \in Attributes |-> Unread]
  /\ UNCHANGED <<age, good, asked, pos, outcome, since, steady>>

StartRead ==
  /\ pos = -1 /\ asked # <<>>
  /\ pos' = 0 /\ outcome' = "running"
  /\ since' = age /\ steady' = {a \in Attributes : good[a]}
  /\ UNCHANGED <<age, good, asked, result>>

ToRead ==
  LET left == Len(asked) - pos
  IN  IF MaxBatch = 0 \/ left < MaxBatch THEN left ELSE MaxBatch

\* The place in asked of the i-th result of the batch: batchStartIterator.
At(i) == pos + i

\* The results of the batch that are stored for a.
StoredFor(a) == {i \in 1..ToRead : At(i) \in DOMAIN asked /\ asked[At(i)] = a /\ good[asked[pos + i]]}

\* addBatchToResultMap(): a result that is not Good leaves what was there.
AddBatch ==
  [a \in Attributes |->
     IF StoredFor(a) = {} THEN result[a]
     ELSE LET i == CHOOSE i \in StoredFor(a) : TRUE
          IN  [of |-> asked[pos + i], age |-> age[asked[pos + i]]]]

\* The loop of read() goes on behind a batch.
Advance ==
  IF pos + ToRead = Len(asked) THEN pos' = -1 /\ outcome' = "returned"
  ELSE pos' = pos + ToRead /\ UNCHANGED outcome

\* readBatch() and its place in read().
ReadBatch ==
  /\ pos >= 0
  /\ result' = AddBatch /\ Advance
  /\ UNCHANGED <<age, good, asked, since, steady>>

\* The request fails: read() throws and keeps the batches before.
ReadFails ==
  /\ pos >= 0
  /\ pos' = -1 /\ outcome' = "threw"
  /\ UNCHANGED <<age, good, asked, result, since, steady>>

AttributeReaderNext ==
  \/ \E a \in Attributes : ValueChanges(a) \/ AddAttribute(a)
  \/ ClearAttributes \/ ClearResults
  \/ StartRead \/ ReadBatch \/ ReadFails

-----------------------------------------------------------------------------
(* Properties *)

\* The results of a batch are stored under the attributes they were read for,
\* in every batch (readBatch, addBatchToResultMap).
ValueIsOfItsAttribute ==
  \A a \in Attributes : result[a] # Unread => result[a].of = a

\* When read() returns, every attribute that was good meanwhile has a value
\* that is not older than the call, in whichever batch it was (read, readBatch).
\* An attribute that was not keeps the value of an earlier read().
ReadIsFresh ==
  [][outcome = "running" /\ outcome' = "returned" =>
       \A a \in ToSet(asked) \cap steady :
         result'[a] # Unread /\ result'[a].age >= since[a]]_readerVars
=============================================================================
