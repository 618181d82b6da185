-------------------------- MODULE Delivery_proofs ---------------------------
(***************************************************************************)
(* Proofs about Delivery, for any kinds of payload, emitters, capacities   *)
(* and bounds: nothing that was batched is lost but by a crash or a full   *)
(* disk, nothing settled is sent again, and replays do not overtake.       *)
(***************************************************************************)
EXTENDS Delivery, FiniteSetTheorems, TLAPS

-----------------------------------------------------------------------------
(* Kinds, numbers and items *)

(* Events are a kind, and what has a number within a kind's bound is an     *)
(* item.                                                                    *)
LEMMA NumberFacts ==
    /\ Events \in Kinds /\ Snapshots \subseteq Kinds /\ Events \notin Snapshots
    /\ BatchMax \in Nat \ {0} /\ ChannelCap \in Nat \ {0}
    /\ \A n \in Numbers : n \in Nat /\ n > 0
    /\ \A k \in Kinds : MaxItems[k] \in Nat
    /\ \A k \in Kinds : \A n \in 1..MaxItems[k] : n \in Numbers
    /\ \A k \in Kinds : \A n \in Numbers : n <= MaxItems[k] => <<k, n>> \in Items
BY DeliveryConstants DEF Kinds, Numbers, Items

(* A payload's items are its numbers, each with the kind. *)
LEMMA CarriesSubset ==
    ASSUME NEW k \in Kinds, NEW body \in SUBSET Numbers, NEW S
    PROVE  Carries(k, body) \subseteq S <=> \A n \in body : <<k, n>> \in S
BY DEF Carries

(* Which items a payload carries. *)
LEMMA CarriesMember ==
    ASSUME NEW k \in Kinds, NEW body \in SUBSET Numbers, NEW l \in Kinds,
           NEW n \in Numbers
    PROVE  <<l, n>> \in Carries(k, body) <=> l = k /\ n \in body
BY DEF Carries

-----------------------------------------------------------------------------
(* Numbers, and what is known to be delivered *)

(* What a process holds and what it spooled are numbers given out so far, a *)
(* batch that is not being sent has room, and the names of spool files are  *)
(* not ahead of the clock.                                                  *)
Counted ==
    /\ IsFiniteSet(channel) /\ IsFiniteSet(payload[Events])
    /\ pc[Events] = "idle" => Cardinality(payload[Events]) < BatchMax
    /\ \A k \in Kinds : made[k] <= MaxItems[k] /\ \A n \in payload[k] : n <= made[k]
    /\ \A n \in channel : n <= made[Events]
    /\ \A e \in spool : e.at <= adds /\ \A n \in e.body : n <= made[e.kind]
    /\ todo \cap skipped = {}

(* Between the server's answer and what a goroutine does about it, the      *)
(* payload is with the server; a sender that returned holds nothing.        *)
Delivered ==
    /\ \A k \in Kinds : pc[k] = "sent" => \A n \in payload[k] : <<k, n>> \in received
    /\ \A k \in Kinds : pc[k] = "stopped" => payload[k] = {}
    /\ flusher = "posted" =>
         \A e \in todo : Current(e) => \A n \in e.body : <<e.kind, n>> \in received

(* The inductive invariant behind TypeOK: what the agent knows to be        *)
(* delivered is delivered, and what is delivered are items.                 *)
Accounted == TypeOK /\ Counted /\ Delivered

(* A spool entry's fields. *)
LEMMA EntryFields ==
    ASSUME TypeOK, NEW e \in spool
    PROVE  e.kind \in Kinds /\ e.at \in Nat /\ e.body \in SUBSET Numbers
           /\ \A n \in e.body : n \in Numbers /\ n \in Nat
BY NumberFacts DEF TypeOK, Entries

(* Two goroutines never stand for the same entry: the order of the listing  *)
(* is strict.                                                               *)
LEMMA CurrentIsOne ==
    ASSUME TypeOK, NEW e \in todo, NEW f \in todo, Current(e), Current(f)
    PROVE  e = f
<1>1. e \in spool /\ f \in spool
  BY DEF TypeOK
<1>2. Rank[e.kind] \in Nat /\ Rank[f.kind] \in Nat /\ e.at \in Nat /\ f.at \in Nat
  BY <1>1, EntryFields, DeliveryConstants
<1>3. ASSUME e # f PROVE FALSE
  <2>1. Before(e, f) /\ Before(f, e)
    BY <1>3 DEF Current
  <2> QED
    BY <1>2, <2>1 DEF Before
<1> QED
  BY <1>3

(* Emitters, and the choice to stop, leave payloads, spool and server       *)
(* alone.                                                                   *)
LEMMA AccountedQuiet ==
    ASSUME Accounted, UNCHANGED <<channel, payload, pc, flusher, todo, spool, received,
                                  history, adds, faults, crashes>>,
           emitter' \in [Emitters -> {"idle", "offering", "stopped"}],
           stopping' \in BOOLEAN, stops' \in 0..MaxCrashes
    PROVE  Accounted'
BY DEF Accounted, TypeOK, Counted, Delivered, Current, history

(* One more item of a kind: the numbers given out so far stay within those  *)
(* of their kinds.                                                          *)
LEMMA MadeGrows ==
    ASSUME TypeOK, Counted, NEW l \in Kinds, made[l] < MaxItems[l],
           made' = [made EXCEPT ![l] = made[l] + 1]
    PROVE  /\ made[l] + 1 \in Numbers /\ made'[l] = made[l] + 1
           /\ made' \in [Kinds -> {0} \cup Numbers]
           /\ \A k \in Kinds : /\ made[k] \in Nat /\ made'[k] \in Nat
                               /\ made[k] <= made'[k] /\ made'[k] <= MaxItems[k]
           /\ \A k \in Kinds : \A n \in payload[k] : n <= made'[k]
           /\ \A n \in channel : n <= made'[Events]
           /\ \A e \in spool : \A n \in e.body : n <= made'[e.kind]
<1> DEFINE m == made[l] + 1
<1>1. \A k \in Kinds : made[k] \in Nat
  <2>1. \A k \in Kinds : made[k] \in {0} \cup Numbers
    BY DEF TypeOK
  <2> QED
    BY <2>1, NumberFacts
<1>2. m \in 1..MaxItems[l] /\ m \in Numbers /\ m \in Nat
  BY <1>1, NumberFacts
<1> HIDE DEF m
<1>3. made' = [made EXCEPT ![l] = m]
  BY DEF m
<1>4. \A k \in Kinds : made'[k] = IF k = l THEN m ELSE made[k]
  BY <1>3 DEF TypeOK
<1>5. made' \in [Kinds -> {0} \cup Numbers]
  BY <1>2, <1>3 DEF TypeOK
<1>6. m = made[l] + 1
  BY DEF m
<1>7. \A k \in Kinds : made[k] <= made'[k] /\ made'[k] <= MaxItems[k] /\ made'[k] \in Nat
  BY <1>1, <1>2, <1>4, <1>6, NumberFacts DEF Counted
<1>8. ASSUME NEW k \in Kinds, NEW n \in Numbers, n <= made[k] PROVE n <= made'[k]
  BY <1>1, <1>7, <1>8, NumberFacts
<1>9. \A k \in Kinds : \A n \in payload[k] : n <= made'[k]
  BY <1>8 DEF TypeOK, Counted
<1>10. \A n \in channel : n <= made'[Events]
  BY <1>8, NumberFacts DEF TypeOK, Counted
<1>11. \A e \in spool : \A n \in e.body : n <= made'[e.kind]
  BY <1>8, EntryFields DEF Counted
<1> QED
  BY <1>1, <1>2, <1>4, <1>5, <1>6, <1>7, <1>9, <1>10, <1>11

(* A channel that has room takes one more event. *)
LEMMA AccountedEmits ==
    ASSUME Accounted, NEW g \in Emitters, Emits(g)
    PROVE  Accounted'
<1> USE DEF Accounted
<1> DEFINE e == made[Events] + 1
<1>1. /\ channel' = channel \cup {e}
      /\ made' = [made EXCEPT ![Events] = e] /\ made[Events] < MaxItems[Events]
      /\ emitter' \in [Emitters -> {"idle", "offering", "stopped"}]
  BY DEF Emits, TypeOK
<1>2. UNCHANGED <<payload, pc, flusher, todo, stopping, spool, received, batched,
                  settled, lost, skipped, adds, counts>>
  BY DEF Emits
<1>3. /\ e \in Numbers /\ made'[Events] = e
      /\ made' \in [Kinds -> {0} \cup Numbers]
      /\ \A k \in Kinds : made'[k] <= MaxItems[k]
      /\ \A k \in Kinds : \A n \in payload[k] : n <= made'[k]
      /\ \A n \in channel : n <= made'[Events]
      /\ \A f \in spool : \A n \in f.body : n <= made'[f.kind]
  BY <1>1, MadeGrows, NumberFacts
<1> HIDE DEF e
<1>4. IsFiniteSet(channel') /\ Cardinality(channel') <= ChannelCap
  <2>1. Cardinality(channel) \in Nat /\ Cardinality(channel) < ChannelCap
        /\ IsFiniteSet(channel)
    BY FS_CardinalityType DEF Counted, Emits
  <2>2. IsFiniteSet(channel') /\ Cardinality(channel') \in {Cardinality(channel),
                                                            Cardinality(channel) + 1}
    BY <1>1, <2>1, FS_AddElement
  <2> QED
    BY <2>1, <2>2, NumberFacts
<1>5. TypeOK'
  BY <1>1, <1>2, <1>3, <1>4 DEF TypeOK, counts
<1>6. \A n \in channel' : n <= made'[Events]
  BY <1>1, <1>3, NumberFacts
<1>7. Counted'
  BY <1>2, <1>3, <1>4, <1>6 DEF Counted
<1>8. Delivered'
  BY <1>2 DEF Delivered, Current
<1> QED
  BY <1>5, <1>7, <1>8

(* The batch takes the oldest event of the channel, and is sent when full. *)
LEMMA AccountedBatchTakes ==
    ASSUME Accounted, BatchTakes
    PROVE  Accounted'
<1> USE DEF Accounted
<1>1. PICK e \in channel :
          /\ channel' = channel \ {e}
          /\ batched' = batched \cup {e}
          /\ payload' = [payload EXCEPT ![Events] = payload[Events] \cup {e}]
  BY DEF BatchTakes
<1>2. UNCHANGED <<emitter, flusher, todo, stopping, spool, received, made, settled,
                  lost, skipped, adds, counts>> /\ pc[Events] = "idle"
  BY DEF BatchTakes
<1>3. e \in Numbers /\ e <= made[Events]
  BY DEF TypeOK, Counted
<1>4. /\ \A k \in Kinds : payload'[k] = IF k = Events THEN payload[k] \cup {e}
                                                      ELSE payload[k]
      /\ payload' \in [Kinds -> SUBSET Numbers]
  BY <1>1, <1>3 DEF TypeOK
<1>5. /\ IsFiniteSet(channel') /\ Cardinality(channel') <= ChannelCap
      /\ channel' \subseteq Numbers
  <2>1. /\ IsFiniteSet(channel \ {e})
        /\ Cardinality(channel \ {e}) = Cardinality(channel) - 1
    BY FS_RemoveElement DEF Counted
  <2>2. Cardinality(channel) \in Nat
    BY FS_CardinalityType DEF Counted
  <2> QED
    BY <1>1, <2>1, <2>2, NumberFacts DEF TypeOK
<1>6. /\ IsFiniteSet(payload'[Events])
      /\ Cardinality(payload'[Events]) \in Nat
      /\ Cardinality(payload'[Events]) <= BatchMax
  <2>1. payload'[Events] = payload[Events] \cup {e} /\ IsFiniteSet(payload[Events])
    BY <1>4, NumberFacts DEF Counted
  <2>2. /\ Cardinality(payload[Events]) \in Nat
        /\ Cardinality(payload[Events]) < BatchMax
    BY <1>2, <2>1, FS_CardinalityType DEF Counted
  <2>3. /\ IsFiniteSet(payload'[Events])
        /\ Cardinality(payload'[Events]) \in {Cardinality(payload[Events]),
                                              Cardinality(payload[Events]) + 1}
    BY <2>1, FS_AddElement
  <2> QED
    BY <2>2, <2>3, NumberFacts
<1>7. /\ pc' \in [Kinds -> {"idle", "sending", "sent", "failed", "stopped"}]
      /\ \A k \in Kinds \ {Events} : pc'[k] = pc[k]
      /\ pc'[Events] \in {"idle", "sending", "failed"}
      /\ pc'[Events] = "idle" => ~(Cardinality(payload'[Events]) >= BatchMax)
  BY NumberFacts DEF BatchTakes, Begun, TypeOK
<1>8. TypeOK'
  BY <1>1, <1>2, <1>3, <1>4, <1>5, <1>6, <1>7 DEF TypeOK, counts
<1>9. Counted'
  <2>1. \A k \in Kinds : \A n \in payload'[k] : n <= made[k]
    BY <1>3, <1>4 DEF Counted
  <2>2. pc'[Events] = "idle" => Cardinality(payload'[Events]) < BatchMax
    BY <1>6, <1>7, NumberFacts
  <2> QED
    BY <1>1, <1>2, <1>5, <1>6, <2>1, <2>2 DEF Counted
<1>10. Delivered'
  BY <1>2, <1>4, <1>7, NumberFacts DEF Delivered, Current
<1> QED
  BY <1>8, <1>9, <1>10

(* A batch, or a snapshot just collected, begins to be sent; what it holds  *)
(* is as before or the new snapshot.                                        *)
LEMMA AccountedBatchFlushes ==
    ASSUME Accounted, BatchFlushes
    PROVE  Accounted'
<1>1. UNCHANGED <<emitter, channel, payload, flusher, todo, stopping, spool, received,
                  history, adds, counts>>
  BY DEF BatchFlushes
<1>2. /\ pc' \in [Kinds -> {"idle", "sending", "sent", "failed", "stopped"}]
      /\ \A k \in Kinds \ {Events} : pc'[k] = pc[k]
      /\ pc'[Events] \in {"sending", "failed"}
  BY NumberFacts DEF BatchFlushes, Begun, Accounted, TypeOK
<1> QED
  BY <1>1, <1>2 DEF Accounted, TypeOK, Counted, Delivered, Current, history, counts

(* A scan's snapshot is one more of its kind. *)
LEMMA AccountedCollects ==
    ASSUME Accounted, NEW l \in Snapshots, Collects(l)
    PROVE  Accounted'
<1> USE DEF Accounted
<1> DEFINE m == made[l] + 1
<1>1. /\ payload' = [payload EXCEPT ![l] = {m}]
      /\ made' = [made EXCEPT ![l] = m] /\ made[l] < MaxItems[l]
      /\ l \in Kinds /\ l # Events
  BY NumberFacts DEF Collects
<1>2. UNCHANGED <<emitter, channel, flusher, todo, stopping, spool, received, batched,
                  settled, lost, skipped, adds, counts>>
  BY DEF Collects
<1>3. /\ m \in Numbers /\ made'[l] = m
      /\ made' \in [Kinds -> {0} \cup Numbers]
      /\ \A k \in Kinds : made'[k] <= MaxItems[k]
      /\ \A k \in Kinds : \A n \in payload[k] : n <= made'[k]
      /\ \A n \in channel : n <= made'[Events]
      /\ \A f \in spool : \A n \in f.body : n <= made'[f.kind]
  BY <1>1, MadeGrows
<1> HIDE DEF m
<1>4. /\ \A k \in Kinds : payload'[k] = IF k = l THEN {m} ELSE payload[k]
      /\ payload' \in [Kinds -> SUBSET Numbers]
      /\ payload'[Events] = payload[Events]
  BY <1>1, <1>3, NumberFacts DEF TypeOK
<1>5. /\ pc' \in [Kinds -> {"idle", "sending", "sent", "failed", "stopped"}]
      /\ \A k \in Kinds \ {l} : pc'[k] = pc[k]
      /\ pc'[l] \in {"sending", "failed"}
  BY <1>1 DEF Collects, Begun, TypeOK
<1>6. TypeOK'
  BY <1>2, <1>3, <1>4, <1>5 DEF TypeOK, counts
<1>7. Counted'
  <2>1. m <= m /\ \A k \in Kinds : \A n \in payload'[k] : n <= made'[k]
    BY <1>3, <1>4, NumberFacts
  <2>2. pc'[Events] = pc[Events]
    BY <1>1, <1>5, NumberFacts
  <2> QED
    BY <1>2, <1>3, <1>4, <2>1, <2>2 DEF Counted
<1>8. Delivered'
  BY <1>2, <1>4, <1>5 DEF Delivered, Current
<1> QED
  BY <1>6, <1>7, <1>8

(* The count of faults stays within its bound. *)
LEMMA FaultType ==
    ASSUME TypeOK, Fault \/ NoFault
    PROVE  faults' \in 0..MaxFaults
BY DeliveryConstants DEF TypeOK, Fault, NoFault

(* Numbers that were given out stand for items. *)
LEMMA CarriedAreItems ==
    ASSUME TypeOK, Counted, NEW k \in Kinds, NEW body \in SUBSET Numbers,
           \A n \in body : n <= made[k]
    PROVE  Carries(k, body) \subseteq Items
<1>1. ASSUME NEW n \in body PROVE <<k, n>> \in Items
  <2>1. made[k] \in {0} \cup Numbers
    BY DEF TypeOK
  <2>2. n \in Numbers /\ n \in Nat /\ n <= made[k] /\ made[k] <= MaxItems[k]
        /\ made[k] \in Nat
    BY <1>1, <2>1, NumberFacts DEF Counted
  <2>3. n <= MaxItems[k]
    BY <2>2, NumberFacts
  <2> QED
    BY <2>2, <2>3, NumberFacts
<1> QED
  BY <1>1, CarriesSubset

(* A request leaves the server with what it had and at most the payload,    *)
(* all of it if the answer was a success.                                   *)
LEMMA AnswersDo ==
    ASSUME TypeOK, Counted, NEW k \in Kinds, NEW body \in SUBSET Numbers,
           \A n \in body : n <= made[k],
           NEW ok \in BOOLEAN, NEW taken \in BOOLEAN, Answers(k, body, ok, taken)
    PROVE  /\ received \subseteq received' /\ received' \subseteq Items
           /\ received' \subseteq received \cup Carries(k, body)
           /\ ok => \A n \in body : <<k, n>> \in received'
           /\ faults' \in 0..MaxFaults
<1>1. Carries(k, body) \subseteq Items
  BY CarriedAreItems
<1>2. received \subseteq received' /\ received' \subseteq Items
      /\ received' \subseteq received \cup Carries(k, body)
  BY <1>1 DEF Answers, TypeOK
<1>3. ASSUME ok PROVE \A n \in body : <<k, n>> \in received'
  <2>1. Carries(k, body) \subseteq received'
    BY <1>3 DEF Answers
  <2> QED
    BY <2>1, CarriesSubset
<1>4. faults' \in 0..MaxFaults
  BY FaultType DEF Answers
<1> QED
  BY <1>2, <1>3, <1>4

(* A send ends with a success only if the server has the payload. *)
LEMMA AccountedSends ==
    ASSUME Accounted, NEW l \in Kinds, Sends(l)
    PROVE  Accounted'
<1> USE DEF Accounted
<1>1. payload[l] \in SUBSET Numbers /\ \A n \in payload[l] : n <= made[l]
  BY DEF TypeOK, Counted
<1>2. PICK ok \in BOOLEAN, taken \in BOOLEAN :
          /\ Answers(l, payload[l], ok, taken)
          /\ pc' = [pc EXCEPT ![l] = IF ok THEN "sent" ELSE "failed"]
  BY DEF Sends
<1>3. /\ received \subseteq received' /\ received' \subseteq Items
      /\ ok => \A n \in payload[l] : <<l, n>> \in received'
      /\ faults' \in 0..MaxFaults
  BY <1>1, <1>2, AnswersDo
<1>4. UNCHANGED <<emitter, channel, payload, flusher, todo, stopping, spool, history,
                  adds, crashes, stops>>
  BY DEF Sends
<1>5. /\ pc' \in [Kinds -> {"idle", "sending", "sent", "failed", "stopped"}]
      /\ \A k \in Kinds \ {l} : pc'[k] = pc[k]
      /\ pc'[l] = IF ok THEN "sent" ELSE "failed"
  BY <1>2 DEF TypeOK
<1>6. TypeOK'
  BY <1>3, <1>4, <1>5 DEF TypeOK, history
<1>7. Counted'
  BY <1>4, <1>5, NumberFacts DEF Counted, history
<1>8. Delivered'
  BY <1>3, <1>4, <1>5 DEF Delivered, Current
<1> QED
  BY <1>6, <1>7, <1>8

(* A goroutine whose payload is dealt with holds nothing and is idle. *)
LEMMA Emptied ==
    ASSUME Accounted, NEW l \in Kinds, payload' = [payload EXCEPT ![l] = {}],
           pc' = [pc EXCEPT ![l] = "idle"]
    PROVE  /\ payload' \in [Kinds -> SUBSET Numbers]
           /\ pc' \in [Kinds -> {"idle", "sending", "sent", "failed", "stopped"}]
           /\ \A k \in Kinds : payload'[k] = IF k = l THEN {} ELSE payload[k]
           /\ \A k \in Kinds : pc'[k] = IF k = l THEN "idle" ELSE pc[k]
           /\ IsFiniteSet(payload'[Events]) /\ Cardinality(payload'[Events]) <= BatchMax
           /\ pc'[Events] = "idle" => Cardinality(payload'[Events]) < BatchMax
<1>1. /\ payload' \in [Kinds -> SUBSET Numbers]
      /\ pc' \in [Kinds -> {"idle", "sending", "sent", "failed", "stopped"}]
      /\ \A k \in Kinds : payload'[k] = IF k = l THEN {} ELSE payload[k]
      /\ \A k \in Kinds : pc'[k] = IF k = l THEN "idle" ELSE pc[k]
  BY DEF Accounted, TypeOK
<1>2. CASE l = Events
  <2>1. payload'[Events] = {}
    BY <1>1, <1>2, NumberFacts
  <2> QED
    BY <1>1, <2>1, FS_EmptySet, NumberFacts
<1>3. CASE l # Events
  BY <1>1, <1>3, NumberFacts DEF Accounted, TypeOK, Counted
<1> QED
  BY <1>2, <1>3

(* What a send settled is with the server, and nothing is held any more. *)
LEMMA AccountedSucceeded ==
    ASSUME Accounted, NEW l \in Kinds, SendSucceeded(l)
    PROVE  Accounted'
<1> USE DEF Accounted
<1>1. /\ payload' = [payload EXCEPT ![l] = {}] /\ pc' = [pc EXCEPT ![l] = "idle"]
      /\ settled' = settled \cup Carries(l, payload[l]) /\ pc[l] = "sent"
  BY DEF SendSucceeded
<1>2. UNCHANGED <<emitter, channel, flusher, todo, stopping, spool, received, made,
                  batched, lost, skipped, adds, counts>>
  BY DEF SendSucceeded
<1>3. payload[l] \in SUBSET Numbers /\ \A n \in payload[l] : <<l, n>> \in received
  BY <1>1 DEF TypeOK, Delivered
<1>4. settled' \subseteq received
  BY <1>1, <1>3, CarriesSubset DEF TypeOK
<1>5. TypeOK'
  BY <1>1, <1>2, <1>4, Emptied DEF TypeOK, counts
<1>6. Counted'
  BY <1>1, <1>2, Emptied DEF Counted
<1>7. Delivered'
  BY <1>1, <1>2, Emptied DEF Delivered, Current
<1> QED
  BY <1>5, <1>6, <1>7

(* A payload that could not be sent is in a file of its own, named after    *)
(* all others, or lost.                                                     *)
LEMMA AccountedFailed ==
    ASSUME Accounted, NEW l \in Kinds, SendFailed(l)
    PROVE  Accounted'
<1> USE DEF Accounted
<1> DEFINE new == [kind |-> l, at |-> adds + 1, body |-> payload[l]]
<1>1. payload' = [payload EXCEPT ![l] = {}] /\ pc' = [pc EXCEPT ![l] = "idle"]
  BY DEF SendFailed
<1>2. UNCHANGED <<emitter, channel, flusher, todo, stopping, received, made, batched,
                  settled, skipped, crashes, stops>>
  BY DEF SendFailed
<1>3. payload[l] \in SUBSET Numbers /\ (\A n \in payload[l] : n <= made[l]) /\ adds \in Nat
  BY DEF TypeOK, Counted
<1>4. new \in Entries /\ new.kind = l /\ new.at = adds + 1 /\ new.body = payload[l]
  BY <1>3 DEF Entries
<1>5. Carries(l, payload[l]) \subseteq Items
  BY <1>3, CarriedAreItems
<1>6. \/ adds' = adds + 1 /\ spool' = spool \cup {new} /\ lost' = lost /\ NoFault
      \/ adds' = adds /\ spool' = spool /\ lost' = lost \cup Carries(l, payload[l]) /\ Fault
  BY DEF SendFailed, Files
<1> HIDE DEF new
<1>7. /\ adds' \in Nat /\ adds <= adds' /\ spool' \subseteq Entries /\ lost' \subseteq Items
      /\ spool \subseteq spool' /\ spool' \subseteq spool \cup {new}
      /\ new \in spool' \ spool => adds' = adds + 1
      /\ faults' \in 0..MaxFaults
  BY <1>3, <1>4, <1>5, <1>6, FaultType DEF TypeOK
<1>8. TypeOK'
  BY <1>1, <1>2, <1>7, Emptied DEF TypeOK
<1>9. ASSUME NEW e \in spool' PROVE e.at <= adds' /\ \A n \in e.body : n <= made[e.kind]
  <2>1. CASE e \in spool
    BY <1>3, <1>7, <2>1, EntryFields DEF Counted
  <2>2. CASE e \notin spool
    <3>1. e = new /\ adds' = adds + 1
      BY <1>7, <1>9, <2>2
    <3> QED
      BY <1>3, <1>4, <3>1
  <2> QED
    BY <2>1, <2>2
<1>10. Counted'
  BY <1>1, <1>2, <1>9, Emptied DEF Counted
<1>11. Delivered'
  BY <1>1, <1>2, Emptied DEF Delivered, Current
<1> QED
  BY <1>8, <1>10, <1>11

(* A sender returns only with nothing in its hands. *)
LEMMA AccountedSenderStops ==
    ASSUME Accounted, NEW l \in Kinds, SenderStops(l)
    PROVE  Accounted'
<1>1. UNCHANGED <<emitter, channel, payload, flusher, todo, stopping, spool, received,
                  history, adds, counts>> /\ payload[l] = {}
  BY DEF SenderStops
<1>2. /\ pc' \in [Kinds -> {"idle", "sending", "sent", "failed", "stopped"}]
      /\ \A k \in Kinds : pc'[k] = IF k = l THEN "stopped" ELSE pc[k]
  BY DEF SenderStops, Accounted, TypeOK
<1> QED
  BY <1>1, <1>2, NumberFacts DEF Accounted, TypeOK, Counted, Delivered, Current, history,
     counts

(* A pass lists the spool, passes entries over, ends and begins: the spool, *)
(* the server and the senders stay as they are.                             *)
LEMMA AccountedPass ==
    ASSUME Accounted, FlushLists \/ FlushSkips \/ FlushPosts \/ FlushEnds \/ FlusherStops
    PROVE  Accounted'
<1> USE DEF Accounted
<1>1. UNCHANGED <<emitter, channel, payload, pc, stopping, spool, received, made,
                  batched, settled, lost, adds, crashes, stops>>
  BY DEF FlushLists, FlushSkips, FlushPosts, FlushEnds, FlusherStops, history, counts
<1>2. todo' \subseteq spool /\ skipped' \subseteq spool /\ todo' \cap skipped' = {}
      /\ flusher' \in {"idle", "next", "posting", "stopped"}
  BY DEF FlushLists, FlushSkips, FlushPosts, FlushEnds, FlusherStops, AfterFailure,
     TypeOK, Counted, history
<1>3. faults' \in 0..MaxFaults
  BY FaultType DEF FlushLists, FlushSkips, FlushPosts, FlushEnds, FlusherStops, counts,
     TypeOK
<1>4. TypeOK'
  BY <1>1, <1>2, <1>3 DEF TypeOK
<1>5. Counted'
  BY <1>1, <1>2 DEF Counted
<1>6. Delivered'
  BY <1>1, <1>2 DEF Delivered
<1> QED
  BY <1>4, <1>5, <1>6

(* A replayed entry counts as posted only if the server has it. *)
LEMMA AccountedAnswered ==
    ASSUME Accounted, FlushAnswered
    PROVE  Accounted'
<1> USE DEF Accounted
<1>1. PICK e \in todo, ok \in BOOLEAN, taken \in BOOLEAN :
          /\ Current(e)
          /\ Answers(e.kind, e.body, ok, taken)
          /\ IF ok THEN flusher' = "posted" /\ UNCHANGED todo
             ELSE flusher' = "next" /\ todo' = AfterFailure(e)
  BY DEF FlushAnswered
<1>2. e \in spool /\ e.kind \in Kinds /\ e.body \in SUBSET Numbers
      /\ \A n \in e.body : n <= made[e.kind]
  BY EntryFields DEF TypeOK, Counted
<1>3. /\ received \subseteq received' /\ received' \subseteq Items
      /\ ok => \A n \in e.body : <<e.kind, n>> \in received'
      /\ faults' \in 0..MaxFaults
  BY <1>1, <1>2, AnswersDo
<1>4. UNCHANGED <<emitter, channel, payload, pc, stopping, spool, history, adds,
                  crashes, stops>>
  BY DEF FlushAnswered
<1>5. todo' \subseteq todo /\ flusher' \in {"posted", "next"}
  BY <1>1 DEF AfterFailure
<1>6. TypeOK'
  BY <1>3, <1>4, <1>5 DEF TypeOK, history
<1>7. Counted'
  BY <1>4, <1>5 DEF Counted, history
<1>8. ASSUME flusher' = "posted", NEW f \in todo', Current(f)'
      PROVE  \A n \in f.body : <<f.kind, n>> \in received'
  <2>1. ok /\ todo' = todo
    BY <1>1, <1>8
  <2>2. f \in todo /\ Current(f)
    BY <1>8, <2>1 DEF Current
  <2>3. f = e
    BY <1>1, <2>2, CurrentIsOne
  <2> QED
    BY <1>3, <2>1, <2>3
<1>9. Delivered'
  BY <1>3, <1>4, <1>8 DEF Delivered
<1> QED
  BY <1>6, <1>7, <1>9

(* A file is removed once its payload is with the server. *)
LEMMA AccountedRemoves ==
    ASSUME Accounted, FlushRemoves
    PROVE  Accounted'
<1> USE DEF Accounted
<1>1. PICK e \in todo :
          /\ Current(e) /\ todo' = todo \ {e}
          /\ \/ NoFault /\ spool' = Removed(e)
                /\ settled' = settled \cup Carries(e.kind, e.body)
             \/ Fault /\ UNCHANGED <<spool, settled>>
  BY DEF FlushRemoves
<1>2. UNCHANGED <<emitter, channel, payload, pc, stopping, received, made, batched,
                  lost, skipped, adds, crashes, stops>> /\ flusher' = "next"
      /\ flusher = "posted"
  BY DEF FlushRemoves
<1>3. e \in spool /\ e.kind \in Kinds /\ e.body \in SUBSET Numbers /\ e \notin skipped
  BY EntryFields DEF TypeOK, Counted
<1>4. Carries(e.kind, e.body) \subseteq received
  BY <1>1, <1>2, <1>3, CarriesSubset DEF Delivered
<1>5. /\ spool' \subseteq spool /\ todo' \subseteq spool' /\ skipped' \subseteq spool'
      /\ settled' \subseteq received' /\ todo' \cap skipped' = {}
  BY <1>1, <1>2, <1>3, <1>4 DEF TypeOK, Counted, Removed
<1>6. faults' \in 0..MaxFaults
  BY <1>1, FaultType
<1>7. TypeOK'
  BY <1>2, <1>5, <1>6 DEF TypeOK
<1>8. Counted'
  BY <1>2, <1>5 DEF Counted
<1>9. Delivered'
  BY <1>2 DEF Delivered
<1> QED
  BY <1>7, <1>8, <1>9

(* A new process holds nothing; what it finds in the spool are still items. *)
LEMMA AccountedFresh ==
    ASSUME Accounted, Restart \/ Crash
    PROVE  Accounted'
<1> USE DEF Accounted
<1>1. FreshMemory
  BY DEF Restart, Crash
<1>2. /\ channel' = {} /\ todo' = {} /\ skipped' = {} /\ flusher' = "idle"
      /\ stopping' = FALSE
      /\ UNCHANGED <<spool, received, made, batched, settled, adds, faults, stops>>
      /\ emitter' \in [Emitters -> {"idle", "offering", "stopped"}]
      /\ payload' \in [Kinds -> SUBSET Numbers]
      /\ \A k \in Kinds : payload'[k] = {} /\ pc'[k] = "idle"
      /\ pc' \in [Kinds -> {"idle", "sending", "sent", "failed", "stopped"}]
  BY <1>1 DEF FreshMemory
<1>3. /\ IsFiniteSet(channel') /\ Cardinality(channel') <= ChannelCap
      /\ IsFiniteSet(payload'[Events]) /\ Cardinality(payload'[Events]) < BatchMax
      /\ Cardinality(payload'[Events]) <= BatchMax
  BY <1>2, FS_EmptySet, NumberFacts
<1>4. HeldInMemory \subseteq Items
  <2>1. ASSUME NEW k \in Kinds PROVE Carries(k, payload[k]) \subseteq Items
    BY CarriedAreItems DEF TypeOK, Counted
  <2> QED
    BY <2>1 DEF HeldInMemory
<1>5. lost' \subseteq Items /\ crashes' \in 0..MaxCrashes
  BY <1>4, DeliveryConstants DEF Restart, Crash, TypeOK
<1>6. TypeOK'
  BY <1>2, <1>3, <1>5 DEF TypeOK
<1>7. Counted'
  BY <1>2, <1>3 DEF Counted
<1>8. Delivered'
  BY <1>2 DEF Delivered
<1> QED
  BY <1>6, <1>7, <1>8

(* Every step keeps Accounted, and so does one that changes nothing. *)
LEMMA AccountedStep == Accounted /\ [Next]_vars => Accounted'
<1> SUFFICES ASSUME Accounted, [Next]_vars PROVE Accounted'
  OBVIOUS
<1>1. CASE UNCHANGED vars
  BY <1>1, AccountedQuiet DEF vars, memory, counts, Accounted, TypeOK
<1>2. ASSUME NEW g \in Emitters, Emitting(g) PROVE Accounted'
  <2>1. CASE Detects(g) \/ AbandonsEvent(g) \/ EmitterStops(g)
    <3>1. emitter' \in [Emitters -> {"idle", "offering", "stopped"}]
      BY <2>1 DEF Detects, AbandonsEvent, EmitterStops, Accounted, TypeOK
    <3> QED
      BY <2>1, <3>1, AccountedQuiet DEF Detects, AbandonsEvent, EmitterStops, counts,
         Accounted, TypeOK
  <2> QED
    BY <1>2, <2>1, AccountedEmits DEF Emitting
<1>3. CASE Batching
  BY <1>3, AccountedBatchTakes, AccountedBatchFlushes DEF Batching
<1>4. ASSUME NEW k \in Kinds, Sending(k) PROVE Accounted'
  BY <1>4, AccountedSends, AccountedSucceeded, AccountedFailed, AccountedSenderStops
     DEF Sending
<1>5. CASE Flushing
  BY <1>5, AccountedPass, AccountedAnswered, AccountedRemoves DEF Flushing
<1>6. CASE Stop
  <2>1. stops' \in 0..MaxCrashes
    BY <1>6, DeliveryConstants DEF Stop, Accounted, TypeOK
  <2> QED
    BY <1>6, <2>1, AccountedQuiet DEF Stop, Accounted, TypeOK
<1> QED
  BY <1>1, <1>2, <1>3, <1>4, <1>5, <1>6, AccountedCollects, AccountedFresh DEF Next

(* Accounted holds in every state. *)
LEMMA AccountedInvariant == Spec => []Accounted
<1>1. ASSUME Init PROVE Accounted
  <2>1. /\ IsFiniteSet(channel) /\ Cardinality(channel) <= ChannelCap
        /\ IsFiniteSet(payload[Events]) /\ Cardinality(payload[Events]) < BatchMax
        /\ Cardinality(payload[Events]) <= BatchMax
    BY <1>1, FS_EmptySet, NumberFacts DEF Init
  <2>2. /\ made \in [Kinds -> {0} \cup Numbers]
        /\ \A k \in Kinds : made[k] <= MaxItems[k]
    BY <1>1, NumberFacts DEF Init
  <2>3. /\ emitter \in [Emitters -> {"idle", "offering", "stopped"}]
        /\ payload \in [Kinds -> SUBSET Numbers]
        /\ \A k \in Kinds : payload[k] = {} /\ pc[k] = "idle"
        /\ pc \in [Kinds -> {"idle", "sending", "sent", "failed", "stopped"}]
    BY <1>1 DEF Init
  <2>4. faults \in 0..MaxFaults /\ crashes \in 0..MaxCrashes /\ stops \in 0..MaxCrashes
    BY <1>1, DeliveryConstants DEF Init
  <2> QED
    BY <1>1, <2>1, <2>2, <2>3, <2>4 DEF Init, Accounted, TypeOK, Counted, Delivered
<1> QED
  BY <1>1, AccountedStep, PTL DEF Spec

(* Everything the model keeps has its type in every state; in particular    *)
(* the batch never outgrows BatchMax, and what the agent takes to be        *)
(* delivered is with the server.                                            *)
THEOREM TypeCorrect == Spec => []TypeOK
BY AccountedInvariant, PTL DEF Accounted

-----------------------------------------------------------------------------
(* Nothing that was batched is lost *)

(* Event by event: what batchEvents took is with the server, was lost in a  *)
(* crash or for want of a file, or is in the batch or in a file.            *)
Kept ==
    \A n \in batched :
        \/ <<Events, n>> \in received \cup lost
        \/ n \in payload[Events]
        \/ \E e \in spool : e.kind = Events /\ n \in e.body

(* BatchedIsKept says so of the sets of items. *)
LEMMA KeptIsBatchedIsKept == Accounted => (BatchedIsKept <=> Kept)
<1> SUFFICES ASSUME Accounted PROVE BatchedIsKept <=> Kept
  OBVIOUS
<1>1. ASSUME NEW n \in Numbers
      PROVE  /\ <<Events, n>> \in HeldInMemory <=> n \in payload[Events]
             /\ <<Events, n>> \in Spooled <=>
                    \E e \in spool : e.kind = Events /\ n \in e.body
  <2>1. \A k \in Kinds : <<Events, n>> \in Carries(k, payload[k])
                            <=> Events = k /\ n \in payload[k]
    BY CarriesMember, NumberFacts DEF Accounted, TypeOK
  <2>2. \A e \in spool : <<Events, n>> \in Carries(e.kind, e.body)
                            <=> Events = e.kind /\ n \in e.body
    BY CarriesMember, NumberFacts, EntryFields DEF Accounted
  <2> QED
    BY <2>1, <2>2, NumberFacts DEF HeldInMemory, Spooled
<1>2. batched \in SUBSET Numbers
  BY DEF Accounted, TypeOK
<1>3. BatchedIsKept <=> \A n \in batched :
          <<Events, n>> \in received \cup HeldInMemory \cup Spooled \cup lost
  <2> DEFINE S == received \cup HeldInMemory \cup Spooled \cup lost
  <2> HIDE DEF S
  <2>1. Carries(Events, batched) \subseteq S <=> \A n \in batched : <<Events, n>> \in S
    BY <1>2, CarriesSubset, NumberFacts
  <2> QED
    BY <2>1 DEF S, BatchedIsKept
<1> QED
  BY <1>1, <1>2, <1>3 DEF Kept

(* A step that gives nothing up keeps what was kept. *)
LEMMA KeptGrows ==
    ASSUME Kept, UNCHANGED batched, received \subseteq received', lost \subseteq lost',
           payload[Events] \subseteq payload'[Events], spool \subseteq spool'
    PROVE  Kept'
BY DEF Kept

(* The batch is given up only for the server's answer, a file or a loss. *)
LEMMA KeptSending == Accounted /\ Kept /\ (\E k \in Kinds : Sending(k)) => Kept'
<1> SUFFICES ASSUME Accounted, Kept, NEW l \in Kinds, Sending(l) PROVE Kept'
  OBVIOUS
<1>1. CASE Sends(l)
  <2>1. received \subseteq received'
    BY <1>1 DEF Sends, Answers
  <2>2. UNCHANGED <<batched, lost, payload, spool>>
    BY <1>1 DEF Sends, history
  <2> QED
    BY <2>1, <2>2, KeptGrows
<1>2. CASE SendSucceeded(l)
  <2>1. /\ \A k \in Kinds : payload'[k] = IF k = l THEN {} ELSE payload[k]
        /\ \A n \in payload[l] : <<l, n>> \in received
        /\ UNCHANGED <<batched, received, lost, spool>>
    BY <1>2, Emptied DEF SendSucceeded, Accounted, Delivered
  <2> QED
    BY <2>1, NumberFacts DEF Kept
<1>3. CASE SendFailed(l)
  <2> DEFINE new == [kind |-> l, at |-> adds + 1, body |-> payload[l]]
  <2>1. /\ \A k \in Kinds : payload'[k] = IF k = l THEN {} ELSE payload[k]
        /\ UNCHANGED <<batched, received>>
    BY <1>3, Emptied DEF SendFailed
  <2>2. \/ spool' = spool \cup {new} /\ lost' = lost
        \/ spool' = spool /\ lost' = lost \cup Carries(l, payload[l])
    BY <1>3 DEF SendFailed, Files
  <2>3. new.kind = l /\ new.body = payload[l]
    OBVIOUS
  <2> HIDE DEF new
  <2>4. ASSUME NEW n \in batched
        PROVE  \/ <<Events, n>> \in received \cup lost'
               \/ n \in payload'[Events]
               \/ \E e \in spool' : e.kind = Events /\ n \in e.body
    <3>1. CASE l = Events /\ n \in payload[l] /\ spool' = spool \cup {new}
      BY <2>3, <3>1
    <3>2. CASE l = Events /\ n \in payload[l] /\ lost' = lost \cup Carries(l, payload[l])
      <4>1. n \in Numbers /\ payload[l] \in SUBSET Numbers
        BY DEF Accounted, TypeOK
      <4>2. <<Events, n>> \in Carries(l, payload[l])
        BY <3>2, <4>1, CarriesMember
      <4> QED
        BY <3>2, <4>2
    <3>3. CASE ~(l = Events /\ n \in payload[l])
      BY <2>1, <2>2, <3>3, NumberFacts DEF Kept
    <3> QED
      BY <2>2, <3>1, <3>2, <3>3
  <2> QED
    BY <2>1, <2>4 DEF Kept
<1>4. CASE SenderStops(l)
  BY <1>4, KeptGrows DEF SenderStops, history
<1> QED
  BY <1>1, <1>2, <1>3, <1>4 DEF Sending

(* A file is given up only when its payload is with the server. *)
LEMMA KeptFlushing == Accounted /\ Kept /\ Flushing => Kept'
<1> SUFFICES ASSUME Accounted, Kept, Flushing PROVE Kept'
  OBVIOUS
<1>1. CASE FlushRemoves
  <2>1. PICK e \in todo : Current(e) /\ spool' \in {spool, Removed(e)}
    BY <1>1 DEF FlushRemoves
  <2>2. \A n \in e.body : <<e.kind, n>> \in received
    BY <1>1, <2>1 DEF FlushRemoves, Accounted, Delivered
  <2>3. spool \ {e} \subseteq spool'
    BY <2>1 DEF Removed
  <2>4. UNCHANGED <<batched, received, lost, payload>>
    BY <1>1 DEF FlushRemoves
  <2> QED
    BY <2>2, <2>3, <2>4 DEF Kept
<1>2. CASE FlushAnswered
  BY <1>2, KeptGrows DEF FlushAnswered, Answers, history
<1>3. CASE FlushLists \/ FlushSkips \/ FlushPosts \/ FlushEnds \/ FlusherStops
  BY <1>3, KeptGrows DEF FlushLists, FlushSkips, FlushPosts, FlushEnds, FlusherStops,
     history
<1> QED
  BY <1>1, <1>2, <1>3 DEF Flushing

(* A crash loses what memory held; a stop ends only when memory is empty of *)
(* payloads, whatever the order in which the goroutines returned.           *)
LEMMA KeptFresh == Accounted /\ Kept /\ (Restart \/ Crash) => Kept'
<1> SUFFICES ASSUME Accounted, Kept, Restart \/ Crash PROVE Kept'
  OBVIOUS
<1>1. UNCHANGED <<spool, received, batched>>
  BY DEF Restart, Crash, FreshMemory
<1>2. ASSUME NEW n \in payload[Events] PROVE <<Events, n>> \in lost'
  <2>1. CASE Restart
    BY <1>2, <2>1, NumberFacts DEF Restart, AllStopped, Accounted, Delivered
  <2>2. CASE Crash
    <3>1. payload[Events] \in SUBSET Numbers
      BY NumberFacts DEF Accounted, TypeOK
    <3>2. <<Events, n>> \in Carries(Events, payload[Events])
      BY <1>2, <3>1, CarriesMember, NumberFacts
    <3>3. <<Events, n>> \in HeldInMemory
      BY <3>2, NumberFacts DEF HeldInMemory
    <3> QED
      BY <2>2, <3>3 DEF Crash
  <2> QED
    BY <2>1, <2>2
<1>3. lost \subseteq lost'
  BY DEF Restart, Crash
<1> QED
  BY <1>1, <1>2, <1>3 DEF Kept

(* Every step keeps Kept. *)
LEMMA KeptStep == Accounted /\ Kept /\ [Next]_vars => Kept'
<1> SUFFICES ASSUME Accounted, Kept, [Next]_vars PROVE Kept'
  OBVIOUS
<1>1. CASE UNCHANGED vars \/ Stop \/ BatchFlushes \/ \E g \in Emitters : Emitting(g)
  <2>1. UNCHANGED <<batched, received, lost, payload, spool>>
    BY <1>1 DEF vars, memory, history, Stop, BatchFlushes, Emitting, Detects, Emits,
       AbandonsEvent, EmitterStops
  <2> QED
    BY <2>1, KeptGrows
<1>2. CASE BatchTakes
  <2>1. PICK e \in channel :
            /\ batched' = batched \cup {e}
            /\ payload' = [payload EXCEPT ![Events] = payload[Events] \cup {e}]
    BY <1>2 DEF BatchTakes
  <2>2. payload'[Events] = payload[Events] \cup {e}
    BY <2>1, NumberFacts DEF Accounted, TypeOK
  <2>3. UNCHANGED <<received, lost, spool>>
    BY <1>2 DEF BatchTakes
  <2> QED
    BY <2>1, <2>2, <2>3 DEF Kept
<1>3. ASSUME NEW k \in Snapshots, Collects(k) PROVE Kept'
  <2>1. payload'[Events] = payload[Events]
        /\ UNCHANGED <<batched, received, lost, spool>>
    BY <1>3, NumberFacts DEF Collects, Accounted, TypeOK
  <2> QED
    BY <2>1, KeptGrows
<1> QED
  BY <1>1, <1>2, <1>3, KeptSending, KeptFlushing, KeptFresh DEF Next, Batching

(* No event that batchEvents took is lost by an outage, a replay cut short  *)
(* or a stop of the service: it takes a crash or a full disk.               *)
THEOREM BatchedKept == Spec => []BatchedIsKept
<1>1. Init => Kept
  BY DEF Init, Kept
<1> QED
  BY <1>1, AccountedInvariant, KeptStep, KeptIsBatchedIsKept, PTL DEF Spec

-----------------------------------------------------------------------------
(* What is settled is gone *)

(* An item is in one place: in the channel, in a payload or in one file, or *)
(* settled.  New numbers are beyond all settled ones.                       *)
Once ==
    /\ \A k \in Kinds : \A n \in Numbers : <<k, n>> \in settled => n <= made[k]
    /\ \A k \in Kinds : \A n \in payload[k] : <<k, n>> \notin settled
    /\ \A n \in channel : n \notin payload[Events] /\ <<Events, n>> \notin settled
    /\ \A e \in spool : \A n \in e.body :
         /\ n \notin payload[e.kind]
         /\ <<e.kind, n>> \notin settled
         /\ e.kind = Events => n \notin channel
    /\ \A e, f \in spool : \A n \in e.body : e.kind = f.kind /\ n \in f.body => e = f

(* SettledIsGone says so of the sets of items. *)
LEMMA OnceIsSettledGone == Accounted /\ Once => SettledIsGone
<1> SUFFICES ASSUME Accounted, Once PROVE SettledIsGone
  OBVIOUS
<1>1. ASSUME NEW k \in Kinds, NEW i \in Carries(k, payload[k]) PROVE i \notin settled
  <2>1. PICK n \in payload[k] : i = <<k, n>>
    BY <1>1 DEF Carries
  <2> QED
    BY <2>1 DEF Once
<1>2. ASSUME NEW e \in spool, NEW i \in Carries(e.kind, e.body) PROVE i \notin settled
  <2>1. PICK n \in e.body : i = <<e.kind, n>>
    BY <1>2 DEF Carries
  <2> QED
    BY <2>1 DEF Once
<1> QED
  BY <1>1, <1>2 DEF SettledIsGone, HeldInMemory, Spooled

(* Most steps leave items where they are. *)
LEMMA OnceKept ==
    ASSUME Once, UNCHANGED <<made, settled, payload, channel>>, spool' \subseteq spool
    PROVE  Once'
BY DEF Once

(* A new event is beyond all others. *)
LEMMA OnceEmits ==
    ASSUME Accounted, Once, NEW g \in Emitters, Emits(g)
    PROVE  Once'
<1> USE DEF Accounted
<1> DEFINE m == made[Events] + 1
<1>1. /\ channel' = channel \cup {m}
      /\ made' = [made EXCEPT ![Events] = m] /\ made[Events] < MaxItems[Events]
      /\ UNCHANGED <<payload, spool, settled>>
  BY DEF Emits
<1>2. /\ m \in Numbers /\ made[Events] \in Nat
      /\ \A k \in Kinds : made[k] \in Nat /\ made'[k] \in Nat /\ made[k] <= made'[k]
  BY <1>1, MadeGrows, NumberFacts
<1>3. /\ \A n \in payload[Events] : n # m
      /\ \A e \in spool : \A n \in e.body : e.kind = Events => n # m
      /\ <<Events, m>> \notin settled
  <2>1. \A n \in Numbers : n <= made[Events] => n # m
    BY <1>2, NumberFacts
  <2>2. \A n \in payload[Events] : n \in Numbers /\ n <= made[Events]
    BY NumberFacts DEF TypeOK, Counted
  <2>3. \A e \in spool : \A n \in e.body :
            n \in Numbers /\ (e.kind = Events => n <= made[Events])
    BY EntryFields DEF Counted
  <2>4. <<Events, m>> \in settled => m <= made[Events]
    BY <1>2, NumberFacts DEF Once
  <2> QED
    BY <1>2, <2>1, <2>2, <2>3, <2>4
<1>4. \A k \in Kinds : \A n \in Numbers : <<k, n>> \in settled => n <= made'[k]
  <2> SUFFICES ASSUME NEW k \in Kinds, NEW n \in Numbers, <<k, n>> \in settled
               PROVE  n <= made'[k]
    OBVIOUS
  <2>1. n <= made[k]
    BY DEF Once
  <2> QED
    BY <1>2, <2>1, NumberFacts
<1> HIDE DEF m
<1> QED
  BY <1>1, <1>3, <1>4 DEF Once

(* The batch takes an event out of the channel. *)
LEMMA OnceBatchTakes ==
    ASSUME Accounted, Once, BatchTakes
    PROVE  Once'
<1>1. PICK e \in channel :
          /\ channel' = channel \ {e}
          /\ payload' = [payload EXCEPT ![Events] = payload[Events] \cup {e}]
  BY DEF BatchTakes
<1>2. UNCHANGED <<made, spool, settled>>
  BY DEF BatchTakes
<1>3. \A k \in Kinds : payload'[k] = IF k = Events THEN payload[k] \cup {e}
                                                   ELSE payload[k]
  BY <1>1 DEF Accounted, TypeOK
<1>4. \A f \in spool : f.kind \in Kinds
  BY EntryFields DEF Accounted
<1> QED
  BY <1>1, <1>2, <1>3, <1>4, NumberFacts DEF Once

(* A snapshot just collected is beyond all others of its kind. *)
LEMMA OnceCollects ==
    ASSUME Accounted, Once, NEW l \in Snapshots, Collects(l)
    PROVE  Once'
<1> USE DEF Accounted
<1> DEFINE m == made[l] + 1
<1>1. /\ payload' = [payload EXCEPT ![l] = {m}]
      /\ made' = [made EXCEPT ![l] = m] /\ made[l] < MaxItems[l]
      /\ l \in Kinds /\ l # Events
      /\ UNCHANGED <<channel, spool, settled>>
  BY NumberFacts DEF Collects
<1>2. /\ m \in Numbers /\ made[l] \in Nat
      /\ \A k \in Kinds : made[k] \in Nat /\ made'[k] \in Nat /\ made[k] <= made'[k]
  BY <1>1, MadeGrows
<1>3. /\ \A e \in spool : \A n \in e.body : e.kind = l => n # m
      /\ <<l, m>> \notin settled
  <2>1. \A n \in Numbers : n <= made[l] => n # m
    BY <1>2, NumberFacts
  <2>2. \A e \in spool : \A n \in e.body :
            n \in Numbers /\ (e.kind = l => n <= made[l])
    BY EntryFields DEF Counted
  <2>3. <<l, m>> \in settled => m <= made[l]
    BY <1>1, <1>2 DEF Once
  <2> QED
    BY <1>2, <2>1, <2>2, <2>3
<1>4. \A k \in Kinds : \A n \in Numbers : <<k, n>> \in settled => n <= made'[k]
  <2> SUFFICES ASSUME NEW k \in Kinds, NEW n \in Numbers, <<k, n>> \in settled
               PROVE  n <= made'[k]
    OBVIOUS
  <2>1. n <= made[k]
    BY DEF Once
  <2> QED
    BY <1>2, <2>1, NumberFacts
<1> HIDE DEF m
<1>5. \A k \in Kinds : payload'[k] = IF k = l THEN {m} ELSE payload[k]
  BY <1>1 DEF TypeOK
<1>6. \A e \in spool : e.kind \in Kinds
  BY EntryFields
<1> QED
  BY <1>1, <1>3, <1>4, <1>5, <1>6, NumberFacts DEF Once

(* A payload moves from a goroutine's hands to the settled items, or into a *)
(* file of its own.                                                         *)
LEMMA OnceSending ==
    ASSUME Accounted, Once, NEW l \in Kinds, Sending(l)
    PROVE  Once'
<1> USE DEF Accounted
<1>1. CASE Sends(l) \/ SenderStops(l)
  BY <1>1, OnceKept DEF Sends, SenderStops, history
<1>2. CASE SendSucceeded(l)
  <2>1. /\ \A k \in Kinds : payload'[k] = IF k = l THEN {} ELSE payload[k]
        /\ settled' = settled \cup Carries(l, payload[l])
        /\ UNCHANGED <<made, channel, spool>>
        /\ payload[l] \in SUBSET Numbers
    BY <1>2, Emptied DEF SendSucceeded, TypeOK
  <2>2. ASSUME NEW k \in Kinds, NEW n \in Numbers
        PROVE  <<k, n>> \in settled' <=> <<k, n>> \in settled \/ (k = l /\ n \in payload[l])
    BY <2>1, CarriesMember
  <2>3. \A k \in Kinds : \A n \in payload[k] : n \in Numbers /\ n <= made[k]
    BY DEF TypeOK, Counted
  <2>4. \A n \in channel : n \in Numbers
    BY DEF TypeOK
  <2>5. \A e \in spool : e.kind \in Kinds /\ \A n \in e.body : n \in Numbers
    BY EntryFields
  <2>6. \A k \in Kinds : \A n \in Numbers : <<k, n>> \in settled' => n <= made[k]
    BY <2>2, <2>3 DEF Once
  <2>7. \A k \in Kinds : \A n \in payload'[k] : <<k, n>> \notin settled'
    <3> SUFFICES ASSUME NEW k \in Kinds, NEW n \in payload'[k]
                 PROVE  <<k, n>> \notin settled'
      OBVIOUS
    <3>1. k # l /\ n \in payload[k]
      BY <2>1
    <3> QED
      BY <2>2, <2>3, <3>1 DEF Once
  <2>8. \A n \in channel : n \notin payload'[Events] /\ <<Events, n>> \notin settled'
    BY <2>1, <2>2, <2>4, NumberFacts DEF Once
  <2>9. \A e \in spool : \A n \in e.body :
            n \notin payload'[e.kind] /\ <<e.kind, n>> \notin settled'
    <3> SUFFICES ASSUME NEW e \in spool, NEW n \in e.body
                 PROVE  n \notin payload'[e.kind] /\ <<e.kind, n>> \notin settled'
      OBVIOUS
    <3>1. e.kind \in Kinds /\ n \in Numbers
      BY <2>5
    <3>2. n \notin payload[e.kind] /\ <<e.kind, n>> \notin settled
      BY DEF Once
    <3>3. <<e.kind, n>> \notin settled'
      BY <2>2, <3>1, <3>2
    <3> QED
      BY <2>1, <3>1, <3>2, <3>3
  <2> QED
    BY <2>1, <2>6, <2>7, <2>8, <2>9 DEF Once
<1>3. CASE SendFailed(l)
  <2> DEFINE new == [kind |-> l, at |-> adds + 1, body |-> payload[l]]
  <2>1. /\ \A k \in Kinds : payload'[k] = IF k = l THEN {} ELSE payload[k]
        /\ UNCHANGED <<made, settled, channel>>
    BY <1>3, Emptied DEF SendFailed
  <2>2. spool' \subseteq spool \cup {new}
    BY <1>3 DEF SendFailed, Files
  <2>3. new.kind = l /\ new.body = payload[l]
    OBVIOUS
  <2> HIDE DEF new
  <2>4. \A e \in spool : e.kind \in Kinds
    BY EntryFields
  <2>5. \A k \in Kinds : \A n \in payload'[k] : n \in payload[k]
    BY <2>1
  <2>6. ASSUME NEW e \in spool', NEW n \in e.body
        PROVE  /\ n \notin payload'[e.kind] /\ <<e.kind, n>> \notin settled
               /\ e.kind = Events => n \notin channel
    <3>1. CASE e = new
      BY <2>1, <2>3, <2>6, <3>1 DEF Once
    <3>2. CASE e \in spool
      BY <2>4, <2>5, <2>6, <3>2 DEF Once
    <3> QED
      BY <2>2, <3>1, <3>2
  <2>7. ASSUME NEW e \in spool', NEW f \in spool', NEW n \in e.body,
               e.kind = f.kind, n \in f.body
        PROVE  e = f
    <3>1. CASE e \in spool /\ f \in spool
      BY <2>7, <3>1 DEF Once
    <3>2. CASE e = new /\ f \in spool
      BY <2>3, <2>7, <3>2 DEF Once
    <3>3. CASE e \in spool /\ f = new
      BY <2>3, <2>7, <3>3 DEF Once
    <3> QED
      BY <2>2, <3>1, <3>2, <3>3
  <2> QED
    BY <2>1, <2>5, <2>6, <2>7, NumberFacts DEF Once
<1> QED
  BY <1>1, <1>2, <1>3 DEF Sending

(* A file that is removed takes its items along. *)
LEMMA OnceRemoves ==
    ASSUME Accounted, Once, FlushRemoves
    PROVE  Once'
<1> USE DEF Accounted
<1>1. PICK e \in todo :
          \/ spool' = Removed(e) /\ settled' = settled \cup Carries(e.kind, e.body)
          \/ UNCHANGED <<spool, settled>>
  BY DEF FlushRemoves
<1>2. UNCHANGED <<made, payload, channel>>
  BY DEF FlushRemoves
<1>3. e \in spool /\ e.kind \in Kinds /\ e.body \in SUBSET Numbers
      /\ \A n \in e.body : n <= made[e.kind]
  BY EntryFields DEF TypeOK, Counted
<1>4. CASE UNCHANGED <<spool, settled>>
  BY <1>2, <1>4, OnceKept
<1>5. CASE spool' = Removed(e) /\ settled' = settled \cup Carries(e.kind, e.body)
  <2>1. ASSUME NEW k \in Kinds, NEW n \in Numbers
        PROVE  <<k, n>> \in settled' <=> <<k, n>> \in settled \/ (k = e.kind /\ n \in e.body)
    BY <1>3, <1>5, CarriesMember
  <2>2. \A k \in Kinds : \A n \in payload[k] : n \in Numbers
    BY DEF TypeOK
  <2>3. \A n \in channel : n \in Numbers
    BY DEF TypeOK
  <2>4. \A f \in spool : f.kind \in Kinds /\ \A n \in f.body : n \in Numbers
    BY EntryFields
  <2>5. \A k \in Kinds : \A n \in Numbers : <<k, n>> \in settled' => n <= made[k]
    BY <1>3, <2>1 DEF Once
  <2>6. \A k \in Kinds : \A n \in payload[k] : <<k, n>> \notin settled'
    <3> SUFFICES ASSUME NEW k \in Kinds, NEW n \in payload[k]
                 PROVE  <<k, n>> \notin settled'
      OBVIOUS
    <3>1. <<k, n>> \notin settled /\ ~(k = e.kind /\ n \in e.body)
      BY <1>3 DEF Once
    <3> QED
      BY <2>1, <2>2, <3>1
  <2>7. \A n \in channel : n \notin payload[Events] /\ <<Events, n>> \notin settled'
    BY <1>3, <2>1, <2>3, NumberFacts DEF Once
  <2>8. ASSUME NEW f \in spool', NEW n \in f.body PROVE <<f.kind, n>> \notin settled'
    <3>1. f \in spool /\ f # e
      BY <1>5, <2>8 DEF Removed
    <3>2. <<f.kind, n>> \notin settled /\ ~(f.kind = e.kind /\ n \in e.body)
      BY <1>3, <2>8, <3>1 DEF Once
    <3> QED
      BY <2>1, <2>4, <2>8, <3>1, <3>2
  <2>9. spool' \subseteq spool
    BY <1>5 DEF Removed
  <2> QED
    BY <1>2, <2>5, <2>6, <2>7, <2>8, <2>9 DEF Once
<1> QED
  BY <1>1, <1>4, <1>5

(* A new process has nothing in the channel and nothing in its hands. *)
LEMMA OnceFresh ==
    ASSUME Accounted, Once, Restart \/ Crash
    PROVE  Once'
<1>1. /\ UNCHANGED <<spool, made, settled>> /\ channel' = {}
      /\ \A k \in Kinds : payload'[k] = {}
  BY DEF Restart, Crash, FreshMemory
<1>2. \A e \in spool : e.kind \in Kinds
  BY EntryFields DEF Accounted
<1> QED
  BY <1>1, <1>2, NumberFacts DEF Once

(* Every step keeps Once. *)
LEMMA OnceStep == Accounted /\ Once /\ [Next]_vars => Once'
<1> SUFFICES ASSUME Accounted, Once, [Next]_vars PROVE Once'
  OBVIOUS
<1>1. CASE UNCHANGED vars \/ Stop \/ BatchFlushes
  BY <1>1, OnceKept DEF vars, memory, history, Stop, BatchFlushes
<1>2. ASSUME NEW g \in Emitters, Emitting(g) PROVE Once'
  <2>1. CASE Detects(g) \/ AbandonsEvent(g) \/ EmitterStops(g)
    BY <2>1, OnceKept DEF Detects, AbandonsEvent, EmitterStops, history
  <2> QED
    BY <1>2, <2>1, OnceEmits DEF Emitting
<1>3. CASE Flushing
  <2>1. CASE FlushAnswered \/ FlushLists \/ FlushSkips \/ FlushPosts \/ FlushEnds
             \/ FlusherStops
    BY <2>1, OnceKept DEF FlushAnswered, FlushLists, FlushSkips, FlushPosts, FlushEnds,
       FlusherStops, history
  <2> QED
    BY <1>3, <2>1, OnceRemoves DEF Flushing
<1> QED
  BY <1>1, <1>2, <1>3, OnceBatchTakes, OnceCollects, OnceSending, OnceFresh
     DEF Next, Batching

(* Once holds in every state. *)
LEMMA OnceInvariant == Spec => []Once
<1>1. Init => Once
  BY DEF Init, Once
<1> QED
  BY <1>1, AccountedInvariant, OnceStep, PTL DEF Spec

(* What the agent knows to be delivered is in no file and in no goroutine's *)
(* hands: it is not sent again.                                             *)
THEOREM SettledGone == Spec => []SettledIsGone
BY OnceInvariant, AccountedInvariant, OnceIsSettledGone, PTL

-----------------------------------------------------------------------------
(* Replays do not overtake *)

(* What a pass has dealt with but left in the spool is with the server, was *)
(* passed over, or was spooled after everything the pass has yet to do.     *)
InOrder ==
    \A e \in spool :
        \/ e \in todo \cup skipped
        \/ \A n \in e.body : <<e.kind, n>> \in received
        \/ \A f \in todo : f.at < e.at

(* A step that lists nothing and spools nothing, while the server only      *)
(* gains, keeps InOrder.                                                    *)
LEMMA InOrderKept ==
    ASSUME InOrder, received \subseteq received', spool' \subseteq spool,
           \/ todo' = {}
           \/ todo' \subseteq todo /\ skipped \subseteq skipped'
              /\ \A e \in todo \ todo' : e \in skipped'
    PROVE  InOrder'
BY DEF InOrder

(* A payload spooled during a pass is named after all that the pass has     *)
(* listed.                                                                  *)
LEMMA InOrderSending == Accounted /\ InOrder /\ (\E k \in Kinds : Sending(k)) => InOrder'
<1> SUFFICES ASSUME Accounted, InOrder, NEW l \in Kinds, Sending(l) PROVE InOrder'
  OBVIOUS
<1> USE DEF Accounted
<1>1. CASE Sends(l)
  <2>1. received \subseteq received'
    BY <1>1 DEF Sends, Answers
  <2> QED
    BY <1>1, <2>1, InOrderKept DEF Sends, history
<1>2. CASE SendSucceeded(l) \/ SenderStops(l)
  BY <1>2, InOrderKept DEF SendSucceeded, SenderStops, history
<1>3. CASE SendFailed(l)
  <2> DEFINE new == [kind |-> l, at |-> adds + 1, body |-> payload[l]]
  <2>1. UNCHANGED <<todo, skipped, received>> /\ spool' \subseteq spool \cup {new}
    BY <1>3 DEF SendFailed, Files
  <2>2. new.at = adds + 1 /\ adds \in Nat
    BY DEF TypeOK
  <2> HIDE DEF new
  <2>3. \A f \in todo : f.at \in Nat /\ f.at <= adds
    BY EntryFields DEF TypeOK, Counted
  <2>4. \A f \in todo : f.at < new.at
    BY <2>2, <2>3
  <2> QED
    BY <2>1, <2>4 DEF InOrder
<1> QED
  BY <1>1, <1>2, <1>3 DEF Sending

(* A pass deals with its entries in order, and ends at the first failure. *)
LEMMA InOrderFlushing == Accounted /\ InOrder /\ Flushing => InOrder'
<1> SUFFICES ASSUME Accounted, InOrder, Flushing PROVE InOrder'
  OBVIOUS
<1> USE DEF Accounted
<1>1. CASE FlushLists
  BY <1>1 DEF FlushLists, InOrder
<1>2. CASE FlushSkips \/ FlushPosts \/ FlushEnds \/ FlusherStops
  <2>1. /\ UNCHANGED <<received, spool>>
        /\ todo' \subseteq todo /\ skipped \subseteq skipped'
    BY <1>2 DEF FlushSkips, FlushPosts, FlushEnds, FlusherStops, AfterFailure, history
  <2>2. todo' = {} \/ \A e \in todo \ todo' : e \in skipped'
    BY <1>2 DEF FlushSkips, FlushPosts, FlushEnds, FlusherStops, AfterFailure, history
  <2> QED
    BY <2>1, <2>2, InOrderKept
<1>3. CASE FlushAnswered
  <2>1. received \subseteq received' /\ todo' \in {todo, {}}
    BY <1>3 DEF FlushAnswered, Answers, AfterFailure
  <2> QED
    BY <1>3, <2>1, InOrderKept DEF FlushAnswered, history
<1>4. CASE FlushRemoves
  <2>1. PICK e \in todo : Current(e) /\ todo' = todo \ {e} /\ spool' \subseteq spool
    BY <1>4 DEF FlushRemoves, Removed
  <2>2. \A n \in e.body : <<e.kind, n>> \in received
    BY <1>4, <2>1 DEF FlushRemoves, Delivered
  <2>3. UNCHANGED <<received, skipped>>
    BY <1>4 DEF FlushRemoves
  <2> QED
    BY <2>1, <2>2, <2>3 DEF InOrder
<1> QED
  BY <1>1, <1>2, <1>3, <1>4 DEF Flushing

(* Every step keeps InOrder. *)
LEMMA InOrderStep == Accounted /\ InOrder /\ [Next]_vars => InOrder'
<1> SUFFICES ASSUME Accounted, InOrder, [Next]_vars PROVE InOrder'
  OBVIOUS
<1>1. CASE \/ UNCHANGED vars \/ Stop \/ Batching
           \/ \E g \in Emitters : Emitting(g)
           \/ \E k \in Snapshots : Collects(k)
  <2>1. UNCHANGED <<received, spool, todo, skipped>>
    BY <1>1 DEF vars, memory, history, Stop, Batching, BatchTakes, BatchFlushes,
       Emitting, Detects, Emits, AbandonsEvent, EmitterStops, Collects
  <2> QED
    BY <2>1, InOrderKept
<1>2. CASE Restart \/ Crash
  BY <1>2, InOrderKept DEF Restart, Crash, FreshMemory
<1> QED
  BY <1>1, <1>2, InOrderSending, InOrderFlushing DEF Next

(* InOrder holds in every state. *)
LEMMA InOrderInvariant == Spec => []InOrder
<1>1. Init => InOrder
  BY DEF Init, InOrder
<1> QED
  BY <1>1, AccountedInvariant, InOrderStep, PTL DEF Spec

(* Only the request that carries a payload brings it to the server, and a   *)
(* replayed one is the oldest of its kind that is left: all older ones are  *)
(* there, or could not be read.                                             *)
LEMMA ReplaysStep ==
    ASSUME Accounted, Once, InOrder, [Next]_vars,
           NEW e \in spool, NEW f \in spool, e.kind = f.kind, e.at < f.at,
           Carries(f.kind, f.body) \subseteq received',
           ~(Carries(f.kind, f.body) \subseteq received),
           e \notin skipped
    PROVE  Carries(e.kind, e.body) \subseteq received'
<1> USE DEF Accounted
<1>1. /\ f.kind \in Kinds /\ f.body \in SUBSET Numbers /\ f.at \in Nat
      /\ e.kind \in Kinds /\ e.body \in SUBSET Numbers /\ e.at \in Nat
  BY EntryFields
<1>2. PICK n \in f.body : <<f.kind, n>> \in received' /\ <<f.kind, n>> \notin received
  BY <1>1, CarriesSubset
<1>3. ASSUME NEW l \in Kinds, Sends(l) PROVE FALSE
  <2>1. payload[l] \in SUBSET Numbers
    BY DEF TypeOK
  <2>2. received' \subseteq received \cup Carries(l, payload[l])
    BY <1>3 DEF Sends, Answers
  <2>3. f.kind = l /\ n \in payload[l]
    BY <1>1, <1>2, <2>1, <2>2, CarriesMember
  <2> QED
    BY <2>3 DEF Once
<1>4. CASE FlushAnswered
  <2>1. PICK c \in todo : /\ Current(c) /\ received \subseteq received'
                          /\ received' \subseteq received \cup Carries(c.kind, c.body)
    BY <1>4 DEF FlushAnswered, Answers
  <2>2. c \in spool /\ c.kind \in Kinds /\ c.body \in SUBSET Numbers
    BY EntryFields DEF TypeOK
  <2>3. f.kind = c.kind /\ n \in c.body
    BY <1>1, <1>2, <2>1, <2>2, CarriesMember
  <2>4. c = f
    BY <2>2, <2>3 DEF Once
  <2>5. e \notin todo
    <3>1. ASSUME e \in todo PROVE FALSE
      <4>1. e # f /\ Rank[f.kind] \in Nat
        BY <1>1, DeliveryConstants
      <4>2. Before(f, e)
        BY <2>1, <2>4, <3>1, <4>1 DEF Current
      <4> QED
        BY <1>1, <4>1, <4>2 DEF Before
    <3> QED
      BY <3>1
  <2>6. ~(f.at < e.at)
    BY <1>1
  <2>7. \A m \in e.body : <<e.kind, m>> \in received
    BY <2>1, <2>4, <2>5, <2>6 DEF InOrder
  <2> QED
    BY <1>1, <2>1, <2>7, CarriesSubset
<1>5. CASE received' = received
  BY <1>2, <1>5
<1>6. (\E l \in Kinds : Sends(l)) \/ FlushAnswered \/ received' = received
  BY DEF Next, vars, memory, history, Stop, Restart, Crash, FreshMemory, Batching,
     BatchTakes, BatchFlushes, Emitting, Detects, Emits, AbandonsEvent, EmitterStops,
     Collects, Sending, SendSucceeded, SendFailed, SenderStops, Flushing, FlushLists,
     FlushSkips, FlushPosts, FlushRemoves, FlushEnds, FlusherStops
<1> QED
  BY <1>3, <1>4, <1>5, <1>6

(* The spooled payloads of a kind reach the server in the order in which    *)
(* they were spooled, over passes cut short, crashes, and payloads spooled  *)
(* while a pass is under way.                                               *)
THEOREM ReplayOrder == Spec => ReplaysInOrder
<1>1. Accounted /\ Once /\ InOrder /\ [Next]_vars =>
        [\A e, f \in spool :
           /\ e.kind = f.kind
           /\ e.at < f.at
           /\ Carries(f.kind, f.body) \subseteq received'
           /\ ~(Carries(f.kind, f.body) \subseteq received)
           /\ e \notin skipped
           => Carries(e.kind, e.body) \subseteq received']_vars
  BY ReplaysStep
<1> QED
  BY <1>1, AccountedInvariant, OnceInvariant, InOrderInvariant, PTL
     DEF Spec, ReplaysInOrder
=============================================================================
