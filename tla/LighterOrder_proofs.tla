-------------------------- MODULE LighterOrder_proofs --------------------------
(***************************************************************************)
(* The safety of Lighter's transactions for any number of orders, faults   *)
(* and restarts.  LighterInv adds to the four properties what they rest    *)
(* on: a transaction is queued once and leaves the process once, what the  *)
(* exchange says of it comes after it was taken, and nothing of an earlier *)
(* session is submitted again.  NonceInv and CountInv bound the nonces and *)
(* the handlers of a fill; with LinkInv the handlers implement the plan of *)
(* ProtectionPlan.                                                         *)
(***************************************************************************)
EXTENDS LighterOrder, FiniteSetTheorems, TLAPS

Statuses == {"none", "CREATED", "SIGNED", "CONFIRMED", "REJECTED"} \cup Undecided

\* The types of what the invariant speaks of; nonces are not bounded here.
Types ==
  /\ caller \in [Txs -> {"new", "queued", "accepted", "saved", "waiting",
                         "postfill", "done", "failed"}]
  /\ plan \in [Txs -> {"none", "PENDING", "CLAIMED", "COMPLETED"}]
  /\ queue \in Seq(Txs) /\ step \in {"idle", "created", "signed", "sent"}
  /\ next \in Int /\ expect \in Int
  /\ journal \in [Txs -> [nonce : Int, status : Statuses]]
  /\ fate \in [Txs -> {"none", "taken", "nonce", "refused"}]
  /\ book \in [Txs -> {"none", "open", "filled"}]
  /\ events \in [Txs -> Int] /\ ladder \in [Txs -> Int]
  /\ wire \subseteq Txs /\ txEvents \subseteq Txs /\ placing \subseteq Txs
  /\ past \subseteq Txs /\ misread \subseteq Txs /\ safe \in BOOLEAN

Unsent(t) == t \notin wire /\ fate[t] = "none"

\* The queue holds the transactions placed and not yet answered, each once; only
\* the first of them can have left.
Queued ==
  /\ step # "idle" => queue # <<>>
  /\ \A i, j \in 1..Len(queue) : queue[i] = queue[j] => i = j
  /\ \A i \in 1..Len(queue) :
       /\ caller[queue[i]] = "queued"
       /\ i > 1 \/ step # "sent" => Unsent(queue[i])
  /\ \A t \in Txs : caller[t] = "new" => Unsent(t)

\* A transaction has one fate, and what is told of it was taken.
TakenOnce ==
  \A t \in Txs :
    /\ t \in wire => fate[t] = "none"
    /\ book[t] # "none" \/ events[t] > 0 \/ t \in txEvents => fate[t] = "taken"
    /\ t \in wire /\ journal[t].status = "REJECTED" => t \in misread

\* Nobody submits for an earlier session.
PastIsOver == \A t \in past : caller[t] \notin {"new", "queued"}

\* A plan that may still be claimed was never placed.
Unplaced ==
  \A t \in Txs :
    /\ caller[t] = "new" => plan[t] = "none"
    /\ plan[t] = "PENDING" \/ caller[t] = "new" => ladder[t] = 0 /\ t \notin placing
    /\ t \in placing => ladder[t] = 0

LighterInv ==
  /\ Types /\ Queued /\ TakenOnce /\ PastIsOver /\ Unplaced
  /\ WriteAhead /\ JournalTrue /\ SafeDecided /\ PlacedOnce

-----------------------------------------------------------------------------
(* The queue *)

\* The submission at work: placed, not answered, of this session.
LEMMA FirstQueued ==
  ASSUME LighterInv, queue # <<>>
  PROVE  /\ Current \in Txs /\ caller[Current] = "queued" /\ Current \notin past
         /\ step # "sent" => Unsent(Current)
<1>1. Len(queue) \in Nat /\ Len(queue) >= 1 /\ queue[1] = Current /\ Current \in Txs
  BY DEF LighterInv, Types, Current
<1>2. caller[Current] = "queued" /\ (step # "sent" => Unsent(Current))
  BY <1>1 DEF LighterInv, Queued
<1> QED
  BY <1>1, <1>2 DEF LighterInv, PastIsOver

\* Answered, it leaves a queue in which it does not occur.
LEMMA Dequeued ==
  ASSUME LighterInv, queue # <<>>, Dequeue, NEW c, c # "new",
         caller' = [caller EXCEPT ![Current] = c], UNCHANGED <<wire, fate>>
  PROVE  queue' \in Seq(Txs) /\ step' = "idle" /\ Queued'
<1> USE DEF LighterInv, Types
<1>1. /\ Current \in Txs /\ Current = queue[1] /\ Len(queue) \in Nat
      /\ Len(queue) >= 1
  BY DEF Current
<1>2. /\ queue' \in Seq(Txs) /\ Len(queue') = Len(queue) - 1 /\ step' = "idle"
      /\ \A i \in 1..Len(queue') : queue'[i] = queue[i + 1]
  BY <1>1 DEF Dequeue
<1>3. ASSUME NEW i \in 1..Len(queue')
      PROVE  /\ queue[i + 1] # Current /\ i + 1 \in 1..Len(queue)
             /\ caller[queue[i + 1]] = "queued" /\ Unsent(queue[i + 1])
             /\ queue[i + 1] \in Txs
  <2>1. i + 1 \in 1..Len(queue) /\ i + 1 > 1 /\ 1 \in 1..Len(queue)
    BY <1>1, <1>2
  <2> QED
    BY <1>1, <2>1 DEF Queued
<1>4. \A i, j \in 1..Len(queue') : queue'[i] = queue'[j] => i = j
  <2> SUFFICES ASSUME NEW i \in 1..Len(queue'), NEW j \in 1..Len(queue'),
                      queue'[i] = queue'[j]
               PROVE  i = j
    OBVIOUS
  <2>1. queue[i + 1] = queue[j + 1]
    BY <1>2
  <2>2. i + 1 = j + 1
    BY <1>3, <2>1 DEF Queued
  <2> QED
    BY <1>2, <2>2
<1>5. ASSUME NEW i \in 1..Len(queue')
      PROVE  /\ caller'[queue'[i]] = "queued"
             /\ queue'[i] \notin wire' /\ fate'[queue'[i]] = "none"
  BY <1>2, <1>3 DEF Unsent
<1>6. \A t \in Txs : caller'[t] = "new" => Unsent(t)'
  BY <1>1 DEF Queued, Unsent
<1> QED
  BY <1>2, <1>4, <1>5, <1>6 DEF Queued, Unsent

\* An error of the submission takes the plan away and writes no PENDING.
LEMMA ThrownUnplaced ==
  ASSUME LighterInv, queue # <<>>, Thrown(Current), UNCHANGED <<ladder, placing>>
  PROVE  Unplaced' /\ PlacedOnce' /\ plan' \in [Txs -> {"none", "PENDING", "CLAIMED",
                                                          "COMPLETED"}]
BY FirstQueued DEF LighterInv, Types, Unplaced, PlacedOnce, Thrown

\* What a journal row becomes without a step of the exchange.
LEMMA JournalWritten ==
  ASSUME LighterInv, NEW t \in Txs, NEW s \in Statuses,
         journal' = [journal EXCEPT ![t].status = s], UNCHANGED <<wire, fate>>,
         s \in {"none", "CREATED", "SIGNED"} => Unsent(t),
         s = "REJECTED" => (t \notin wire /\ fate[t] # "taken") \/ t \in misread',
         s = "CONFIRMED" => \E u \in Txs : /\ journal[u].nonce = journal[t].nonce
                                          /\ fate[u] = "taken",
         misread \subseteq misread'
  PROVE  /\ journal' \in [Txs -> [nonce : Int, status : Statuses]]
         /\ \A u \in Txs : u \in wire' /\ journal'[u].status = "REJECTED" => u \in misread'
         /\ WriteAhead' /\ JournalTrue'
<1> USE DEF LighterInv, Types
<1>1. /\ journal' \in [Txs -> [nonce : Int, status : Statuses]]
      /\ \A u \in Txs : /\ journal'[u].nonce = journal[u].nonce
                        /\ journal'[u].status = IF u = t THEN s ELSE journal[u].status
  OBVIOUS
<1>2. \A u \in Txs : u \in wire' /\ journal'[u].status = "REJECTED" => u \in misread'
  BY <1>1 DEF TakenOnce
<1>3. WriteAhead'
  BY <1>1 DEF WriteAhead, Unsent
<1>4. JournalTrue'
  BY <1>1 DEF JournalTrue
<1> QED
  BY <1>1, <1>2, <1>3, <1>4

-----------------------------------------------------------------------------
(* LighterNonceManager keeps the invariant *)

\* allocateNonce gives the first submission its nonce, or it fails.
LEMMA AllocateStep ==
  ASSUME LighterInv, Allocate PROVE LighterInv'
<1>1. /\ queue # <<>> /\ Current \in Txs /\ caller[Current] = "queued"
      /\ Unsent(Current) /\ Current \notin past
  BY FirstQueued DEF Allocate
<1>2. CASE Dequeue /\ Thrown(Current) /\ UNCHANGED <<next, journal>>
  <2>1. /\ caller' = [caller EXCEPT ![Current] = "failed"]
        /\ UNCHANGED <<wire, expect, fate, book, events, handlers, placing, ladder,
                       txEvents, safe, past, misread>>
    BY <1>2 DEF Allocate, Thrown, chain, fills
  <2>2. queue' \in Seq(Txs) /\ step' = "idle" /\ Queued'
    BY <1>1, <1>2, <2>1, Dequeued
  <2>3. Unplaced' /\ PlacedOnce' /\ Types'
    BY <1>1, <1>2, <2>1, <2>2, ThrownUnplaced DEF LighterInv, Types
  <2>4. TakenOnce' /\ PastIsOver' /\ WriteAhead' /\ JournalTrue' /\ SafeDecided'
    BY <1>1, <1>2, <2>1 DEF LighterInv, Types, TakenOnce, PastIsOver, WriteAhead,
       JournalTrue, SafeDecided
  <2> QED
    BY <2>2, <2>3, <2>4 DEF LighterInv
<1>3. CASE /\ next' = IF next = None THEN expect ELSE next
           /\ journal' = [journal EXCEPT ![Current] = [status |-> "CREATED", nonce |-> next']]
           /\ step' = "created" /\ UNCHANGED <<queue, caller, plan, row, faults>>
  <2>1. UNCHANGED <<queue, caller, plan, wire, expect, fate, book, events, handlers, placing,
                    ladder, txEvents, safe, past, misread>>
    BY <1>3 DEF Allocate, chain, fills
  <2>2. next' \in Int
    BY <1>3 DEF LighterInv, Types, None
  <2>3. /\ journal' \in [Txs -> [nonce : Int, status : Statuses]]
        /\ journal'[Current].status = "CREATED"
        /\ \A t \in Txs : t # Current => journal'[t] = journal[t]
    BY <1>1, <1>3, <2>2 DEF LighterInv, Types, Statuses
  <2>4. Types' /\ PastIsOver' /\ Unplaced' /\ PlacedOnce'
    BY <1>3, <2>1, <2>2, <2>3 DEF LighterInv, Types, PastIsOver, Unplaced, PlacedOnce
  <2>5. Queued'
    <3>1. Queued /\ step # "sent" /\ step' # "sent" /\ queue # <<>>
      BY <1>1, <1>3 DEF LighterInv, Allocate
    <3> QED
      BY <2>1, <3>1 DEF Queued, Unsent
  <2>6. TakenOnce' /\ WriteAhead' /\ SafeDecided'
    BY <1>1, <2>1, <2>3 DEF LighterInv, TakenOnce, WriteAhead, SafeDecided, Unsent,
       Undecided, Types
  <2>7. JournalTrue'
    BY <1>1, <2>1, <2>3 DEF LighterInv, JournalTrue, Unsent
  <2> QED
    BY <2>4, <2>5, <2>6, <2>7 DEF LighterInv
<1> QED
  BY <1>2, <1>3 DEF Allocate

\* The transaction is signed, or its row is REJECTED before it leaves.
LEMMA SignStep ==
  ASSUME LighterInv, Sign PROVE LighterInv'
<1>1. /\ queue # <<>> /\ Current \in Txs /\ caller[Current] = "queued"
      /\ Unsent(Current) /\ Current \notin past
  BY FirstQueued DEF Sign, LighterInv, Queued
<1>2. UNCHANGED <<wire, expect, fate, book, events, handlers, placing, ladder, txEvents,
                  safe, past, misread>>
  BY DEF Sign, chain, fills
<1>3. PICK s \in {"SIGNED", "REJECTED"} : journal' = [journal EXCEPT ![Current].status = s]
  BY DEF Sign
<1>4. s \in Statuses /\ s # "CONFIRMED" /\ s \notin Undecided
  BY DEF Statuses, Undecided
<1>5. Current \notin wire /\ fate[Current] # "taken"
  BY <1>1 DEF Unsent
<1>6. /\ journal' \in [Txs -> [nonce : Int, status : Statuses]]
      /\ \A u \in Txs : u \in wire' /\ journal'[u].status = "REJECTED" => u \in misread'
      /\ WriteAhead' /\ JournalTrue'
  BY <1>1, <1>2, <1>3, <1>4, <1>5, JournalWritten
<1>7. TakenOnce' /\ SafeDecided'
  BY <1>1, <1>2, <1>3, <1>4, <1>6 DEF LighterInv, Types, TakenOnce, SafeDecided
<1>8. CASE Dequeue /\ Thrown(Current) /\ UNCHANGED next
  <2>1. caller' = [caller EXCEPT ![Current] = "failed"]
    BY <1>8 DEF Thrown
  <2>2. queue' \in Seq(Txs) /\ step' = "idle" /\ Queued'
    BY <1>1, <1>2, <1>8, <2>1, Dequeued
  <2>3. Unplaced' /\ PlacedOnce' /\ Types'
    BY <1>1, <1>2, <1>6, <1>8, <2>1, <2>2, ThrownUnplaced DEF LighterInv, Types
  <2>4. PastIsOver'
    BY <1>1, <1>2, <2>1 DEF LighterInv, Types, PastIsOver
  <2> QED
    BY <1>6, <1>7, <2>2, <2>3, <2>4 DEF LighterInv
<1>9. CASE next' = next + 1 /\ step' = "signed" /\ UNCHANGED <<queue, caller, plan>>
  <2>1. Types' /\ PastIsOver' /\ Unplaced' /\ PlacedOnce'
    BY <1>2, <1>6, <1>9 DEF LighterInv, Types, PastIsOver, Unplaced, PlacedOnce
  <2>2. Queued'
    <3>1. Queued /\ step # "sent" /\ step' # "sent" /\ queue # <<>>
      BY <1>1, <1>9 DEF LighterInv, Sign
    <3> QED
      BY <1>2, <1>9, <3>1 DEF Queued, Unsent
  <2> QED
    BY <1>6, <1>7, <2>1, <2>2 DEF LighterInv
<1> QED
  BY <1>8, <1>9 DEF Sign

\* The row says SENT in the step in which the transaction leaves.
LEMMA SendStep ==
  ASSUME LighterInv, Send PROVE LighterInv'
<1>1. /\ queue # <<>> /\ Current \in Txs /\ caller[Current] = "queued"
      /\ Unsent(Current) /\ Current \notin past
  BY FirstQueued DEF Send, LighterInv, Queued
<1>2. /\ step = "signed" /\ step' = "sent" /\ wire' = wire \cup {Current}
      /\ UNCHANGED <<caller, plan, queue, next, expect, fate, book, events, placing,
                     ladder, txEvents, safe, past, misread>>
  BY DEF Send, fills, past_
<1>3. /\ journal' \in [Txs -> [nonce : Int, status : Statuses]]
      /\ journal'[Current].status = "SENT"
      /\ \A t \in Txs : /\ t # Current => journal'[t] = journal[t]
                        /\ journal'[t].nonce = journal[t].nonce
  BY <1>1 DEF LighterInv, Types, Statuses, Undecided, Send
<1>4. Types' /\ PastIsOver' /\ Unplaced' /\ PlacedOnce'
  BY <1>1, <1>2, <1>3 DEF LighterInv, Types, PastIsOver, Unplaced, PlacedOnce
<1>5. Queued'
  <2>1. Len(queue) \in Nat /\ Len(queue) >= 1 /\ queue[1] = Current
    BY <1>1 DEF LighterInv, Types, Current
  <2>2. \A i \in 1..Len(queue) : i > 1 => queue[i] # Current
    BY <2>1 DEF LighterInv, Queued
  <2>3. \A i \in 1..Len(queue) : i > 1 => Unsent(queue[i])'
    BY <1>2, <2>2 DEF LighterInv, Queued, Unsent
  <2>4. \A t \in Txs : caller'[t] = "new" => Unsent(t)'
    BY <1>1, <1>2 DEF LighterInv, Queued, Unsent
  <2> QED
    BY <1>1, <1>2, <2>3, <2>4 DEF LighterInv, Queued
<1>6. TakenOnce' /\ WriteAhead' /\ JournalTrue'
  BY <1>1, <1>2, <1>3 DEF LighterInv, TakenOnce, WriteAhead, JournalTrue, Unsent
<1>7. SafeDecided'
  BY <1>1, <1>2, <1>3 DEF LighterInv, Types, SafeDecided
<1> QED
  BY <1>4, <1>5, <1>6, <1>7 DEF LighterInv

\* An answer, a misread one or none ends the submission.
LEMMA AnswerStep ==
  ASSUME LighterInv, Answer PROVE LighterInv'
<1>1. /\ queue # <<>> /\ Current \in Txs /\ caller[Current] = "queued"
      /\ Current \notin past
  BY FirstQueued DEF Answer, LighterInv, Queued
<1>2. UNCHANGED <<wire, expect, fate, book, events, handlers, placing, ladder, txEvents,
                  safe, past>>
  BY DEF Answer, chain, fills
<1>3. next' \in Int /\ misread \subseteq misread' /\ misread' \subseteq Txs
  BY <1>1 DEF Answer, Accepted, Rejected, Misread, TimedOut, LighterInv, Types
<1>4. PICK c \in {"accepted", "failed"} : caller' = [caller EXCEPT ![Current] = c]
  BY DEF Answer, Accepted, Rejected, Misread, TimedOut, Thrown
<1>5. queue' \in Seq(Txs) /\ step' = "idle" /\ Queued'
  BY <1>1, <1>2, <1>4, Dequeued DEF Answer
<1>6. PICK s \in {"ACCEPTED", "REJECTED", "UNKNOWN"} :
        /\ journal' = [journal EXCEPT ![Current].status = s]
        /\ s = "REJECTED" => fate[Current] \in {"nonce", "refused"} \/ Current \in misread'
  BY DEF Answer, Accepted, Rejected, Misread, TimedOut
<1>7. s \in Statuses /\ s # "CONFIRMED" /\ s \notin {"none", "CREATED", "SIGNED"}
  BY DEF Statuses, Undecided
<1>8. s = "REJECTED" =>
        (Current \notin wire /\ fate[Current] # "taken") \/ Current \in misread'
  BY <1>1, <1>6 DEF LighterInv, TakenOnce
<1>9. /\ journal' \in [Txs -> [nonce : Int, status : Statuses]]
      /\ \A u \in Txs : u \in wire' /\ journal'[u].status = "REJECTED" => u \in misread'
      /\ WriteAhead' /\ JournalTrue'
  BY <1>1, <1>2, <1>3, <1>6, <1>7, <1>8, JournalWritten
<1>10. Unplaced' /\ PlacedOnce' /\ plan' \in [Txs -> {"none", "PENDING", "CLAIMED", "COMPLETED"}]
  <2>1. CASE Thrown(Current)
    BY <1>1, <1>2, <2>1, ThrownUnplaced
  <2>2. CASE UNCHANGED plan
    BY <1>1, <1>2, <1>4, <2>2 DEF LighterInv, Types, Unplaced, PlacedOnce
  <2> QED
    BY <2>1, <2>2 DEF Answer, Accepted, Rejected, Misread, TimedOut
<1>11. Types' /\ PastIsOver'
  BY <1>1, <1>2, <1>3, <1>4, <1>5, <1>9, <1>10 DEF LighterInv, Types, PastIsOver
<1>12. TakenOnce' /\ SafeDecided'
  BY <1>1, <1>2, <1>6, <1>9 DEF LighterInv, Types, TakenOnce, SafeDecided
<1> QED
  BY <1>5, <1>9, <1>10, <1>11, <1>12 DEF LighterInv

-----------------------------------------------------------------------------
(* Callers, the exchange, events and restarts keep the invariant *)

\* The only number of 1 .. n + 1 that is not one of 1 .. n.
LEMMA LastOne ==
  ASSUME NEW n \in Nat, NEW l \in Int, 1 <= l, l <= n + 1, l \notin 1..n
  PROVE  l = n + 1
OBVIOUS

\* A new transaction goes to the end of the queue with its plan pending.
LEMMA PlaceOrderStep ==
  ASSUME LighterInv, NEW t \in Txs, PlaceOrder(t) PROVE LighterInv'
<1> USE DEF LighterInv, Types
<1>1. /\ caller[t] = "new" /\ Unsent(t) /\ t \notin past
      /\ caller' = [caller EXCEPT ![t] = "queued"] /\ plan' = [plan EXCEPT ![t] = "PENDING"]
      /\ UNCHANGED <<step, next, journal, wire, expect, fate, book, events, handlers,
                     placing, ladder, txEvents, safe, past, misread>>
  BY DEF PlaceOrder, chain, fills, past_, Queued, PastIsOver
<1>2. /\ Len(queue) \in Nat /\ queue' \in Seq(Txs) /\ Len(queue') = Len(queue) + 1
      /\ queue'[Len(queue) + 1] = t
      /\ \A i \in 1..Len(queue) : /\ queue'[i] = queue[i] /\ queue[i] # t
                                  /\ queue[i] \in Txs /\ i \in 1..Len(queue')
  BY <1>1 DEF PlaceOrder, Queued
<1>3. Types'
  BY <1>1, <1>2
<1>4. Queued'
  <2>1. \A i, j \in 1..Len(queue') : queue'[i] = queue'[j] => i = j
    <3> SUFFICES ASSUME NEW i \in 1..Len(queue'), NEW j \in 1..Len(queue'),
                        queue'[i] = queue'[j]
                 PROVE  i = j
      OBVIOUS
    <3>1. CASE i \in 1..Len(queue) /\ j \in 1..Len(queue)
      BY <1>2, <3>1 DEF Queued
    <3>2. ASSUME NEW k \in 1..Len(queue), NEW l \in 1..Len(queue'), l \notin 1..Len(queue)
          PROVE  queue'[k] # queue'[l]
      <4>1. l \in Int /\ 1 <= l /\ l <= Len(queue) + 1
        BY <1>2, <3>2
      <4>2. l = Len(queue) + 1
        BY <1>2, <3>2, <4>1, LastOne
      <4> QED
        BY <1>2, <4>2
    <3>3. CASE i \notin 1..Len(queue) /\ j \notin 1..Len(queue)
      BY <1>2, <3>3
    <3> QED
      BY <3>1, <3>2, <3>3
  <2>2. step # "idle" => queue' # <<>>
    BY <1>2 DEF Queued
  <2>3. \A i \in 1..Len(queue') :
          /\ caller'[queue'[i]] = "queued"
          /\ i > 1 \/ step' # "sent" => queue'[i] \notin wire' /\ fate'[queue'[i]] = "none"
    <3> SUFFICES ASSUME NEW i \in 1..Len(queue')
                 PROVE  /\ caller'[queue'[i]] = "queued"
                        /\ i > 1 \/ step' # "sent"
                             => queue'[i] \notin wire' /\ fate'[queue'[i]] = "none"
      OBVIOUS
    <3>1. CASE i = Len(queue) + 1
      BY <1>1, <1>2, <3>1 DEF Unsent
    <3>2. CASE i \in 1..Len(queue)
      BY <1>1, <1>2, <3>2 DEF Queued, Unsent
    <3> QED
      BY <1>2, <3>1, <3>2
  <2>4. \A u \in Txs : caller'[u] = "new" => Unsent(u)'
    BY <1>1 DEF Queued, Unsent
  <2> QED
    BY <1>1, <2>1, <2>2, <2>3, <2>4 DEF Queued, Unsent
<1>5. TakenOnce' /\ WriteAhead' /\ JournalTrue' /\ SafeDecided'
  BY <1>1 DEF TakenOnce, WriteAhead, JournalTrue, SafeDecided
<1>6. PastIsOver' /\ Unplaced' /\ PlacedOnce'
  BY <1>1 DEF PastIsOver, Unplaced, PlacedOnce
<1> QED
  BY <1>3, <1>4, <1>5, <1>6

\* What touches neither the queue nor the journal nor the exchange's verdict.
LEMMA Aside ==
  ASSUME LighterInv, Types',
         UNCHANGED <<queue, step, journal, wire, fate, txEvents, past>>,
         safe' => safe, misread \subseteq misread',
         \A t \in Txs : caller'[t] # caller[t] => /\ caller[t] \notin {"new", "queued"}
                                                /\ caller'[t] \notin {"new", "queued"},
         \A t \in Txs : book'[t] # "none" \/ events'[t] > 0 => fate[t] = "taken"
  PROVE  Queued' /\ TakenOnce' /\ PastIsOver' /\ WriteAhead' /\ JournalTrue' /\ SafeDecided'
<1>1. Queued'
  <2>1. \A i \in 1..Len(queue) : queue[i] \in Txs
    BY DEF LighterInv, Types
  <2>2. \A u \in Txs : Unsent(u)' = Unsent(u)
    BY DEF Unsent
  <2>3. \A i \in 1..Len(queue) : caller'[queue[i]] = "queued"
    BY <2>1 DEF LighterInv, Queued
  <2> QED
    BY <2>1, <2>2, <2>3 DEF LighterInv, Queued
<1>2. TakenOnce' /\ PastIsOver'
  BY DEF LighterInv, TakenOnce, PastIsOver, Types
<1>3. WriteAhead'
  BY DEF LighterInv, WriteAhead
<1>4. JournalTrue'
  BY DEF LighterInv, JournalTrue
<1>5. SafeDecided'
  BY DEF LighterInv, SafeDecided
<1> QED
  BY <1>1, <1>2, <1>3, <1>4, <1>5

\* handleOpen goes on behind an accepted transaction.
LEMMA CallerStep ==
  ASSUME LighterInv, NEW t \in Txs, SaveOrder(t) \/ WaitForFill(t) \/ PostFill(t)
  PROVE  LighterInv'
<1>1. PICK c \in {"saved", "waiting", "done"} :
        /\ caller' = [caller EXCEPT ![t] = c]
        /\ caller[t] \in {"accepted", "saved", "postfill"}
  BY DEF SaveOrder, WaitForFill, PostFill
<1>2. UNCHANGED <<queue, step, next, journal, plan, wire, expect, fate, book, events,
                  placing, ladder, txEvents, safe, past, misread>>
  BY DEF SaveOrder, WaitForFill, PostFill, sender, chain, fills, past_
<1>3. Types' /\ Unplaced' /\ PlacedOnce'
  BY <1>1, <1>2 DEF LighterInv, Types, Unplaced, PlacedOnce
<1>4. \A u \in Txs :
        /\ caller'[u] # caller[u] => /\ caller[u] \notin {"new", "queued"}
                                    /\ caller'[u] \notin {"new", "queued"}
        /\ book'[u] # "none" \/ events'[u] > 0 => fate[u] = "taken"
  BY <1>1, <1>2 DEF LighterInv, Types, TakenOnce
<1>5. Queued' /\ TakenOnce' /\ PastIsOver' /\ WriteAhead' /\ JournalTrue' /\ SafeDecided'
  BY <1>2, <1>3, <1>4, Aside
<1> QED
  BY <1>3, <1>5 DEF LighterInv

\* Handlers claim and place; a claimed plan is not claimed again.
LEMMA HandlerStep ==
  ASSUME LighterInv, NEW t \in Txs, Claim(t) \/ Place(t) \/ Monitor(t)
  PROVE  LighterInv'
<1>1. UNCHANGED <<queue, step, next, journal, caller, wire, expect, fate, book, events,
                  txEvents, safe, past, misread>>
  BY DEF Claim, Place, Monitor, sender, chain, past_
<1>2. Types' /\ Unplaced' /\ PlacedOnce'
  <2>1. CASE Claim(t)
    <3>1. CASE plan[t] = "PENDING"
      <4>1. /\ plan' = [plan EXCEPT ![t] = "CLAIMED"] /\ placing' = placing \cup {t}
            /\ ladder' = ladder /\ ladder[t] = 0
        BY <2>1, <3>1 DEF Claim, LighterInv, Unplaced
      <4>2. Types'
        BY <1>1, <4>1 DEF LighterInv, Types
      <4>3. caller[t] # "new"
        BY <3>1 DEF LighterInv, Types, Unplaced
      <4> QED
        BY <1>1, <4>1, <4>2, <4>3 DEF LighterInv, Types, Unplaced, PlacedOnce
    <3>2. CASE plan[t] # "PENDING"
      BY <1>1, <2>1, <3>2 DEF Claim, LighterInv, Types, Unplaced, PlacedOnce
    <3> QED
      BY <3>1, <3>2
  <2>2. CASE Place(t)
    BY <1>1, <2>2 DEF Place, LighterInv, Types, Unplaced, PlacedOnce
  <2>3. CASE Monitor(t)
    BY <1>1, <2>3 DEF Monitor, LighterInv, Types, Unplaced, PlacedOnce
  <2> QED
    BY <2>1, <2>2, <2>3
<1>3. \A u \in Txs : book'[u] # "none" \/ events'[u] > 0 => fate[u] = "taken"
  BY <1>1 DEF LighterInv, TakenOnce
<1>4. Queued' /\ TakenOnce' /\ PastIsOver' /\ WriteAhead' /\ JournalTrue' /\ SafeDecided'
  BY <1>1, <1>2, <1>3, Aside
<1> QED
  BY <1>2, <1>4 DEF LighterInv

\* A fill and its events, and their loss.
LEMMA FillStep ==
  ASSUME LighterInv, NEW t \in Txs, Fill(t) \/ LoseEvents(t)
  PROVE  LighterInv'
<1>1. UNCHANGED <<queue, step, next, journal, caller, plan, wire, expect, fate, placing,
                  ladder, txEvents, safe, past, misread>>
  BY DEF Fill, LoseEvents, sender, chain, past_
<1>2. Types' /\ Unplaced' /\ PlacedOnce'
  <2>1. events' \in [Txs -> Int]
    <3>1. CASE Fill(t)
      BY <3>1 DEF Fill, LighterInv, Types
    <3>2. CASE LoseEvents(t)
      BY <3>2 DEF LoseEvents, LighterInv, Types
    <3> QED
      BY <3>1, <3>2
  <2>2. book' \in [Txs -> {"none", "open", "filled"}]
    <3>1. CASE Fill(t)
      BY <3>1 DEF Fill, LighterInv, Types
    <3>2. CASE LoseEvents(t)
      BY <3>2 DEF LoseEvents, chain, LighterInv, Types
    <3> QED
      BY <3>1, <3>2
  <2>3. Types'
    BY <1>1, <2>1, <2>2 DEF LighterInv, Types
  <2>4. Unplaced' /\ PlacedOnce'
    BY <1>1 DEF LighterInv, Unplaced, PlacedOnce
  <2> QED
    BY <2>3, <2>4
<1>3. \A u \in Txs : book'[u] # "none" \/ events'[u] > 0 => fate[u] = "taken"
  <2>1. /\ book[t] # "none" \/ events[t] > 0
        /\ \A u \in Txs : book[u] # "none" \/ events[u] > 0 => fate[u] = "taken"
    BY DEF Fill, LoseEvents, LighterInv, TakenOnce
  <2>2. \A u \in Txs : u # t => book'[u] = book[u] /\ events'[u] = events[u]
    BY DEF Fill, LoseEvents, chain, LighterInv, Types
  <2> QED
    BY <2>1, <2>2
<1>4. Queued' /\ TakenOnce' /\ PastIsOver' /\ WriteAhead' /\ JournalTrue' /\ SafeDecided'
  BY <1>1, <1>2, <1>3, Aside
<1> QED
  BY <1>2, <1>4 DEF LighterInv

\* The exchange takes, refuses or never sees what is on the wire.
LEMMA ExchangeStep ==
  ASSUME LighterInv, NEW t \in Txs, Take(t) \/ Refuse(t) \/ Lose(t)
  PROVE  LighterInv'
<1>1. /\ t \in wire /\ wire' = wire \ {t} /\ fate[t] = "none"
      /\ UNCHANGED <<queue, step, next, journal, caller, plan, events, handlers, placing,
                     ladder, safe, past, misread>>
  BY DEF Take, Refuse, Lose, sender, fills, past_, LighterInv, TakenOnce
<1>2. PICK f \in {"none", "taken", "nonce", "refused"} :
        /\ fate' = [fate EXCEPT ![t] = f]
        /\ f = "taken" => /\ expect' = expect + 1 /\ txEvents' = txEvents \cup {t}
                          /\ book' = [book EXCEPT ![t] = "open"]
        /\ f # "taken" => UNCHANGED <<expect, txEvents, book>>
  <2>1. fate = [fate EXCEPT ![t] = "none"]
    BY <1>1 DEF LighterInv, Types
  <2> QED
    BY <2>1 DEF Take, Refuse, Lose
<1>3. Types' /\ PastIsOver' /\ Unplaced' /\ PlacedOnce' /\ SafeDecided'
  <2>1. expect' \in Int /\ txEvents' \subseteq Txs /\ book' \in [Txs -> {"none", "open", "filled"}]
    <3>1. CASE f = "taken"
      <4>1. expect' = expect + 1 /\ txEvents' = txEvents \cup {t}
            /\ book' = [book EXCEPT ![t] = "open"]
        BY <1>2, <3>1
      <4>2. expect' \in Int
        BY <4>1 DEF LighterInv, Types
      <4>3. txEvents' \subseteq Txs
        BY <4>1 DEF LighterInv, Types
      <4>4. book' \in [Txs -> {"none", "open", "filled"}]
        BY <4>1 DEF LighterInv, Types
      <4> QED
        BY <4>2, <4>3, <4>4
    <3>2. CASE f # "taken"
      BY <1>2, <3>2 DEF LighterInv, Types
    <3> QED
      BY <3>1, <3>2
  <2>2. Types'
    BY <1>1, <1>2, <2>1 DEF LighterInv, Types
  <2> QED
    BY <1>1, <1>2, <2>2 DEF LighterInv, Types, PastIsOver, Unplaced, PlacedOnce, SafeDecided
<1>4. Queued'
  <2>1. \A i \in 1..Len(queue) : queue[i] \in Txs
    BY DEF LighterInv, Types
  <2>2. \A u \in Txs : Unsent(u) => u # t /\ Unsent(u)'
    BY <1>1, <1>2 DEF Unsent, LighterInv, Types
  <2> QED
    BY <1>1, <2>1, <2>2 DEF LighterInv, Queued
<1>5. TakenOnce' /\ WriteAhead'
  BY <1>1, <1>2 DEF LighterInv, Types, TakenOnce, WriteAhead
<1>6. JournalTrue'
  <2>1. \A u \in Txs : fate[u] = "taken" => fate'[u] = "taken"
    BY <1>1, <1>2 DEF LighterInv, Types
  <2>2. \A u \in Txs : fate'[u] = "taken" => fate[u] = "taken" \/ u = t
    BY <1>1, <1>2 DEF LighterInv, Types
  <2>3. journal[t].status = "REJECTED" => t \in misread
    BY <1>1 DEF LighterInv, TakenOnce
  <2> QED
    BY <1>1, <2>1, <2>2, <2>3 DEF LighterInv, JournalTrue
<1> QED
  BY <1>3, <1>4, <1>5, <1>6 DEF LighterInv

\* An event that confirms one row, whose nonce a taken transaction has.
LEMMA Confirmed ==
  ASSUME LighterInv, NEW t \in Txs, journal[t].status \in Undecided,
         \E u \in Txs : journal[u].nonce = journal[t].nonce /\ fate[u] = "taken",
         journal' = [journal EXCEPT ![t].status = "CONFIRMED"],
         UNCHANGED <<wire, fate, safe, past, misread>>
  PROVE  /\ journal' \in [Txs -> [nonce : Int, status : Statuses]]
         /\ \A u \in Txs : u \in wire' /\ journal'[u].status = "REJECTED" => u \in misread'
         /\ WriteAhead' /\ JournalTrue' /\ SafeDecided'
<1>1. "CONFIRMED" \in Statuses
  BY DEF Statuses
<1>2. /\ journal' \in [Txs -> [nonce : Int, status : Statuses]]
      /\ \A u \in Txs : u \in wire' /\ journal'[u].status = "REJECTED" => u \in misread'
      /\ WriteAhead' /\ JournalTrue'
  BY <1>1, JournalWritten
<1>3. SafeDecided'
  BY <1>2 DEF LighterInv, Types, SafeDecided, Undecided
<1> QED
  BY <1>2, <1>3

\* A transaction event confirms an undecided row of its nonce.
LEMMA TxEventStep ==
  ASSUME LighterInv, NEW t \in Txs, TxEvent(t) PROVE LighterInv'
<1>1. /\ t \in txEvents /\ txEvents' = txEvents \ {t} /\ fate[t] = "taken"
      /\ UNCHANGED <<queue, step, next, caller, plan, wire, expect, fate, book, events,
                     placing, ladder, safe, past, misread>>
  BY DEF TxEvent, sender, chain, fills, past_, LighterInv, TakenOnce
<1>2. /\ journal' \in [Txs -> [nonce : Int, status : Statuses]]
      /\ \A u \in Txs : u \in wire' /\ journal'[u].status = "REJECTED" => u \in misread'
      /\ WriteAhead' /\ JournalTrue' /\ SafeDecided'
  <2>1. CASE UNCHANGED journal
    BY <1>1, <2>1 DEF LighterInv, Types, TakenOnce, WriteAhead, JournalTrue, SafeDecided
  <2>2. ASSUME NEW u \in Txs, journal[u].status \in Undecided,
               journal[u].nonce = journal[t].nonce,
               journal' = [journal EXCEPT ![u].status = "CONFIRMED"]
        PROVE  /\ journal' \in [Txs -> [nonce : Int, status : Statuses]]
               /\ \A v \in Txs :
                    v \in wire' /\ journal'[v].status = "REJECTED" => v \in misread'
               /\ WriteAhead' /\ JournalTrue' /\ SafeDecided'
    BY <1>1, <2>2, Confirmed
  <2> QED
    BY <2>1, <2>2 DEF TxEvent
<1>3. Types' /\ PastIsOver' /\ Unplaced' /\ PlacedOnce'
  BY <1>1, <1>2 DEF LighterInv, Types, PastIsOver, Unplaced, PlacedOnce
<1>4. TakenOnce'
  BY <1>1, <1>2 DEF LighterInv, TakenOnce
<1>5. Queued'
  BY <1>1 DEF LighterInv, Queued, Unsent
<1> QED
  BY <1>2, <1>3, <1>4, <1>5 DEF LighterInv

\* An order event ends the row of its order and its waiter.
LEMMA OrderEventStep ==
  ASSUME LighterInv, NEW t \in Txs, OrderEvent(t) PROVE LighterInv'
<1>1. /\ events[t] > 0 /\ fate[t] = "taken" /\ events' = [events EXCEPT ![t] = @ - 1]
      /\ caller' = [caller EXCEPT ![t] = IF @ = "waiting" THEN "postfill" ELSE @]
      /\ UNCHANGED <<queue, step, next, plan, wire, expect, fate, book, placing, ladder,
                     txEvents, safe, past, misread>>
  BY DEF OrderEvent, sender, chain, past_, LighterInv, TakenOnce
<1>2. /\ journal' \in [Txs -> [nonce : Int, status : Statuses]]
      /\ \A u \in Txs : u \in wire' /\ journal'[u].status = "REJECTED" => u \in misread'
      /\ WriteAhead' /\ JournalTrue' /\ SafeDecided'
  <2>1. CASE journal[t].status \in Undecided
    <3>1. journal' = [journal EXCEPT ![t].status = "CONFIRMED"]
      BY <2>1 DEF OrderEvent, Finalized
    <3> QED
      BY <1>1, <2>1, <3>1, Confirmed
  <2>2. CASE journal[t].status \notin Undecided
    <3>1. UNCHANGED journal
      BY <2>2 DEF OrderEvent, Finalized
    <3> QED
      BY <1>1, <3>1 DEF LighterInv, Types, TakenOnce, WriteAhead, JournalTrue, SafeDecided
  <2> QED
    BY <2>1, <2>2
<1>3. \A u \in Txs : caller'[u] # caller[u] => /\ caller[u] \notin {"new", "queued"}
                                                /\ caller'[u] \notin {"new", "queued"}
  BY <1>1 DEF LighterInv, Types
<1>4. Types' /\ PastIsOver' /\ Unplaced' /\ PlacedOnce'
  <2>1. caller' \in [Txs -> {"new", "queued", "accepted", "saved", "waiting",
                             "postfill", "done", "failed"}]
    BY <1>1 DEF LighterInv, Types
  <2>2. Types'
    BY <1>1, <1>2, <2>1 DEF LighterInv, Types
  <2> QED
    BY <1>1, <1>3, <2>2 DEF LighterInv, Types, PastIsOver, Unplaced, PlacedOnce
<1>5. TakenOnce'
  BY <1>1, <1>2 DEF LighterInv, Types, TakenOnce
<1>6. Queued'
  <2>1. \A i \in 1..Len(queue) : queue[i] \in Txs
    BY DEF LighterInv, Types
  <2> QED
    BY <1>1, <1>3, <2>1 DEF LighterInv, Queued, Unsent
<1> QED
  BY <1>2, <1>4, <1>5, <1>6 DEF LighterInv

\* A restart forgets queue, events and handlers; the journal stays.
LEMMA CrashStep ==
  ASSUME LighterInv, Crash PROVE LighterInv'
<1>1. /\ caller' = [t \in Txs |-> IF caller[t] = "new" THEN "new" ELSE "done"]
      /\ past' = {t \in Txs : caller[t] # "new"}
      /\ queue' = <<>> /\ step' = "idle" /\ next' = None /\ safe' = FALSE
      /\ events' = [t \in Txs |-> 0] /\ txEvents' = {} /\ placing' = {}
      /\ UNCHANGED <<plan, journal, wire, expect, fate, book, ladder, misread>>
  BY DEF Crash, chain
<1>2. Types'
  <2>1. safe' \in BOOLEAN
    BY <1>1, Zenon
  <2>2. queue' \in Seq(Txs) /\ next' \in Int
    BY <1>1 DEF None
  <2> QED
    BY <1>1, <2>1, <2>2 DEF LighterInv, Types
<1>3. Queued' /\ PastIsOver'
  BY <1>1 DEF LighterInv, Types, Queued, PastIsOver, Unsent
<1>4. TakenOnce' /\ Unplaced' /\ PlacedOnce'
  BY <1>1 DEF LighterInv, Types, TakenOnce, Unplaced, PlacedOnce
<1>5. WriteAhead' /\ JournalTrue' /\ SafeDecided'
  BY <1>1 DEF LighterInv, WriteAhead, JournalTrue, SafeDecided
<1> QED
  BY <1>2, <1>3, <1>4, <1>5 DEF LighterInv

\* stop takes the leave to trade away and nothing else.
LEMMA StopStep ==
  ASSUME LighterInv, Stop PROVE LighterInv'
<1>1. /\ safe' = FALSE
      /\ UNCHANGED <<queue, step, next, journal, caller, plan, wire, expect, fate, book,
                     events, placing, ladder, txEvents, past, misread>>
  BY DEF Stop, sender, chain, fills, past_
<1>2. safe' \in BOOLEAN
  BY <1>1, Zenon
<1>3. Types' /\ Unplaced' /\ PlacedOnce'
  BY <1>1, <1>2 DEF LighterInv, Types, Unplaced, PlacedOnce
<1>4. \A u \in Txs : book'[u] # "none" \/ events'[u] > 0 => fate[u] = "taken"
  BY <1>1 DEF LighterInv, TakenOnce
<1>5. Queued' /\ TakenOnce' /\ PastIsOver' /\ WriteAhead' /\ JournalTrue' /\ SafeDecided'
  BY <1>1, <1>3, <1>4, Aside
<1> QED
  BY <1>3, <1>5 DEF LighterInv

\* reconcileStartup decides rows by their lookups, or trading stays closed.
LEMMA ReconcileStep ==
  ASSUME LighterInv, Start PROVE LighterInv'
<1> USE DEF LighterInv, Types
<1>1. PICK found \in [LookedAt -> {"SENT", "ACCEPTED", "UNKNOWN", "CONFIRMED", "REJECTED"}] :
        /\ \A t \in LookedAt : found[t] \in Looked(t)
        /\ journal' = [t \in Txs |->
             IF t \in LookedAt THEN [journal[t] EXCEPT !.status = found[t]]
             ELSE journal[t]]
        /\ misread' = misread \cup
             {t \in LookedAt : /\ found[t] = "REJECTED"
                               /\ fate[t] = "taken" \/ t \in wire}
        /\ safe' = (\A t \in LookedAt : found[t] \notin Undecided)
  BY DEF Start
<1>2. UNCHANGED <<queue, step, next, caller, plan, wire, expect, fate, book, events,
                  placing, ladder, txEvents, past>>
  BY DEF Start, sender, chain, fills
<1>3. /\ LookedAt \subseteq Txs
      /\ \A t \in Txs :
           /\ journal'[t] \in [nonce : Int, status : Statuses]
           /\ journal'[t].nonce = journal[t].nonce
           /\ journal'[t].status = IF t \in LookedAt THEN found[t] ELSE journal[t].status
           /\ t \in LookedAt <=> journal[t].status \in Undecided
  <2>1. LookedAt \subseteq Txs /\ \A t \in Txs : t \in LookedAt <=> journal[t].status \in Undecided
    BY DEF LookedAt
  <2>2. ASSUME NEW t \in Txs
        PROVE  /\ journal'[t] \in [nonce : Int, status : Statuses]
               /\ journal'[t].nonce = journal[t].nonce
               /\ journal'[t].status = IF t \in LookedAt THEN found[t] ELSE journal[t].status
    <3>1. journal[t] \in [nonce : Int, status : Statuses]
      OBVIOUS
    <3>2. CASE t \in LookedAt
      <4>1. journal'[t] = [journal[t] EXCEPT !.status = found[t]]
        BY <1>1, <3>2
      <4>2. found[t] \in Statuses
        BY <3>2 DEF Statuses, Undecided
      <4> QED
        BY <3>1, <3>2, <4>1, <4>2
    <3>3. CASE t \notin LookedAt
      <4>1. journal'[t] = journal[t]
        BY <1>1, <3>3
      <4> QED
        BY <3>1, <3>3, <4>1
    <3> QED
      BY <3>2, <3>3
  <2> QED
    BY <2>1, <2>2
<1>4. \A t \in LookedAt :
        /\ found[t] = "CONFIRMED" => fate[t] = "taken"
        /\ found[t] \notin {"none", "CREATED", "SIGNED"}
  BY <1>1, <1>3 DEF Looked, Undecided
<1>5. safe' \in BOOLEAN
  BY <1>1, Zenon
<1>6. Types'
  <2>1. journal' \in [Txs -> [nonce : Int, status : Statuses]]
    BY <1>1, <1>3
  <2>2. misread' \subseteq Txs
    BY <1>1, <1>3
  <2> QED
    BY <1>2, <1>5, <2>1, <2>2
<1>7. Queued' /\ PastIsOver' /\ Unplaced' /\ PlacedOnce'
  BY <1>2 DEF Queued, PastIsOver, Unplaced, PlacedOnce, Unsent
<1>8. TakenOnce' /\ WriteAhead'
  BY <1>1, <1>2, <1>3, <1>4 DEF TakenOnce, WriteAhead
<1>9. JournalTrue'
  BY <1>1, <1>2, <1>3, <1>4 DEF JournalTrue
<1>10. SafeDecided'
  <2> SUFFICES ASSUME safe', NEW t \in past PROVE journal'[t].status \notin Undecided
    BY <1>2 DEF SafeDecided
  <2>1. t \in LookedAt => found[t] \notin Undecided
    BY <1>1
  <2> QED
    BY <1>3, <2>1
<1> QED
  BY <1>6, <1>7, <1>8, <1>9, <1>10

-----------------------------------------------------------------------------

\* Nothing is placed yet.
LEMMA LighterInvInit == LighterInit => LighterInv
<1> SUFFICES ASSUME LighterInit PROVE LighterInv
  OBVIOUS
<1>1. safe \in BOOLEAN
  BY Zenon DEF LighterInit
<1>2. Types
  BY <1>1 DEF LighterInit, Types, Statuses, NoRow, None
<1>3. Queued /\ TakenOnce /\ PastIsOver /\ Unplaced
  BY DEF LighterInit, Queued, TakenOnce, PastIsOver, Unplaced, Unsent, NoRow
<1>4. WriteAhead /\ JournalTrue /\ SafeDecided /\ PlacedOnce
  BY DEF LighterInit, WriteAhead, JournalTrue, SafeDecided, PlacedOnce, NoRow
<1> QED
  BY <1>2, <1>3, <1>4 DEF LighterInv

\* Every step keeps the invariant.
LEMMA LighterInvStep == LighterInv /\ [LighterNext]_lighterVars => LighterInv'
<1> SUFFICES ASSUME LighterInv, [LighterNext]_lighterVars PROVE LighterInv'
  OBVIOUS
<1>1. ASSUME NEW t \in Txs, PlaceOrder(t) PROVE LighterInv'
  BY <1>1, PlaceOrderStep
<1>2. ASSUME NEW t \in Txs, SaveOrder(t) \/ WaitForFill(t) \/ PostFill(t) PROVE LighterInv'
  BY <1>2, CallerStep
<1>3. ASSUME NEW t \in Txs, Claim(t) \/ Place(t) \/ Monitor(t) PROVE LighterInv'
  BY <1>3, HandlerStep
<1>4. ASSUME NEW t \in Txs, Fill(t) \/ LoseEvents(t) PROVE LighterInv'
  BY <1>4, FillStep
<1>5. ASSUME NEW t \in Txs, Take(t) \/ Refuse(t) \/ Lose(t) PROVE LighterInv'
  BY <1>5, ExchangeStep
<1>6. ASSUME NEW t \in Txs, OrderEvent(t) PROVE LighterInv'
  BY <1>6, OrderEventStep
<1>7. ASSUME NEW t \in Txs, TxEvent(t) PROVE LighterInv'
  BY <1>7, TxEventStep
<1>8. CASE Submit
  BY <1>8, AllocateStep, SignStep, SendStep, AnswerStep DEF Submit
<1>9. CASE Crash \/ Stop \/ Start
  BY <1>9, CrashStep, StopStep, ReconcileStep
<1>10. CASE UNCHANGED lighterVars
  BY <1>10 DEF lighterVars, sender, chain, fills, past_, LighterInv, Types, Queued, TakenOnce,
     PastIsOver, Unplaced, Unsent, WriteAhead, JournalTrue, SafeDecided, PlacedOnce
<1> QED
  BY <1>1, <1>2, <1>3, <1>4, <1>5, <1>6, <1>7, <1>8, <1>9, <1>10 DEF LighterNext

\* LighterInv holds in every state of the submission of transactions.
THEOREM LighterInvariant == LighterSpec => []LighterInv
BY LighterInvInit, LighterInvStep, PTL DEF LighterSpec

\* A transaction that has left the process, or that the exchange took, is in the
\* journal as more than signed, however crashes and errors interrupt submitNow.
THEOREM WrittenAhead == LighterSpec => []WriteAhead
<1>1. LighterInv => WriteAhead
  BY DEF LighterInv
<1> QED
  BY <1>1, LighterInvariant, PTL

\* The journal says CONFIRMED only of a nonce that was taken and REJECTED of no
\* taken transaction, unless an error answer was misread.
THEOREM JournalIsTrue == LighterSpec => []JournalTrue
<1>1. LighterInv => JournalTrue
  BY DEF LighterInv
<1> QED
  BY <1>1, LighterInvariant, PTL

\* reconcileStartup allows trading only when every transaction of an earlier
\* session is decided, and none of them becomes undecided again.
THEOREM TradingIsSafe == LighterSpec => []SafeDecided
<1>1. LighterInv => SafeDecided
  BY DEF LighterInv
<1> QED
  BY <1>1, LighterInvariant, PTL

\* The waiter, both event channels and the monitor place the protections of an
\* order once between them.
THEOREM ProtectedOnce == LighterSpec => []PlacedOnce
<1>1. LighterInv => PlacedOnce
  BY DEF LighterInv
<1> QED
  BY <1>1, LighterInvariant, PTL

-----------------------------------------------------------------------------
(* Every variable has the values the code can give it: nonces and handlers  *)
(* are bounded because each transaction is signed, taken and filled once    *)

\* The transactions that were signed, or rejected before, and those taken.
Decided == {t \in Txs : journal[t].status \notin {"none", "CREATED"}}
Taken == {t \in Txs : fate[t] = "taken"}

\* The exchange counts what it took; the manager is never ahead of what it signed.
NoncesCount ==
  /\ expect = Cardinality(Taken)
  /\ next = None \/ next \in 0..Cardinality(Decided)
  /\ \A t \in Txs : journal[t].nonce \in {None} \cup Nonces

\* What has not begun has no journal row, what has begun is not signed yet.
JournalBegins ==
  /\ \A t \in Txs : caller[t] = "new" => journal[t].status = "none"
  /\ \A i \in 1..Len(queue) :
       i > 1 \/ step = "idle" => journal[queue[i]].status = "none"
  /\ step = "created" => journal[Current].status = "CREATED"

NonceInv == NoncesCount /\ JournalBegins

\* Two events, the waiter and the monitor: no fill has a fifth handler.
HandlersCount ==
  \A t \in Txs :
    /\ book[t] # "filled" => handlers[t] = 0 /\ events[t] = 0 /\ caller[t] # "postfill"
    /\ handlers[t] + events[t] + (IF caller[t] = "done" THEN 0 ELSE 1) <= 4

OtherTypes ==
  /\ row \in [Txs -> {"INIT", "FAILED"} \cup Linked]
  /\ events \in [Txs -> 0..2] /\ handlers \in [Txs -> Nat] /\ ladder \in [Txs -> Nat]
  /\ faults \in 0..MaxFaults /\ crashes \in 0..MaxCrashes

CountInv == OtherTypes /\ HandlersCount

\* Sets of transactions are finite and can be counted.
LEMMA TxsCounted ==
  ASSUME NEW S, S \subseteq Txs
  PROVE  IsFiniteSet(S) /\ Cardinality(S) \in Nat /\ Cardinality(S) <= Cardinality(Txs)
         /\ Cardinality(Txs) \in Nat
BY FS_Subset, FS_CardinalityType, LighterAssumption

LEMMA SubsetCounted ==
  ASSUME NEW S, NEW T, S \subseteq T, T \subseteq Txs
  PROVE  /\ Cardinality(S) \in Nat /\ Cardinality(T) \in Nat
         /\ Cardinality(S) <= Cardinality(T)
BY FS_Subset, FS_CardinalityType, LighterAssumption

\* What was taken was signed.
LEMMA TakenDecided == LighterInv => Taken \subseteq Decided
BY DEF LighterInv, WriteAhead, Taken, Decided

\* The numbers, when nothing is signed or taken: rows get further, and the
\* manager keeps its nonce, forgets it or asks for it.
LEMMA NoncesGoOn ==
  ASSUME LighterInv, NoncesCount, Decided \subseteq Decided', Taken' = Taken,
         expect' = expect, next' \in {None, next, expect},
         \A t \in Txs : journal'[t].nonce \in {None} \cup Nonces
  PROVE  NoncesCount'
<1> DEFINE D == Decided'
<1>1. D \subseteq Txs /\ Decided \subseteq D /\ Taken \subseteq Decided
  BY TakenDecided DEF Decided
<1> HIDE DEF D
<1>2. /\ Cardinality(D) \in Nat /\ Cardinality(Decided) \in Nat /\ Cardinality(Taken) \in Nat
      /\ Cardinality(Decided) <= Cardinality(D) /\ Cardinality(Taken) <= Cardinality(Decided)
  <2>1. Decided \subseteq Txs
    BY DEF Decided
  <2> QED
    BY <1>1, <2>1, SubsetCounted
<1>3. next' = None \/ next' \in 0..Cardinality(D)
  BY <1>2 DEF NoncesCount
<1>4. next' = None \/ next' \in 0..Cardinality(Decided')
  BY <1>3 DEF D
<1> QED
  BY <1>4 DEF NoncesCount

\* What the services that are not the nonce manager write: rows that are signed
\* already get another status.
RowsGoOn ==
  \A t \in Txs :
    /\ journal'[t].nonce = journal[t].nonce
    /\ \/ journal'[t].status = journal[t].status
       \/ {journal[t].status, journal'[t].status} \cap {"none", "CREATED"} = {}

LEMMA RowsMoreDecided == RowsGoOn => Decided \subseteq Decided'
BY DEF RowsGoOn, Decided

\* Beside the nonce manager: its queue is as it was.
LEMMA BeginsAside ==
  ASSUME LighterInv, JournalBegins, RowsGoOn, UNCHANGED <<queue, step>>,
         \A t \in Txs : caller'[t] = "new" => caller[t] = "new"
  PROVE  JournalBegins'
<1>1. \A t \in Txs : journal[t].status \in {"none", "CREATED"}
        => journal'[t].status = journal[t].status
  BY DEF RowsGoOn
<1>2. \A i \in 1..Len(queue) : queue[i] \in Txs
  BY DEF LighterInv, Types
<1>3. step = "created" => Current \in Txs
  BY FirstQueued DEF LighterInv, Queued
<1>4. Current' = Current
  BY DEF Current
<1> QED
  BY <1>1, <1>2, <1>3, <1>4 DEF JournalBegins

LEMMA NonceAside ==
  ASSUME LighterInv, NonceInv, RowsGoOn, UNCHANGED <<queue, step, next, expect>>,
         Taken' = Taken, \A t \in Txs : caller'[t] = "new" => caller[t] = "new"
  PROVE  NonceInv'
<1>1. JournalBegins'
  BY BeginsAside DEF NonceInv
<1>2. \A t \in Txs : journal'[t].nonce \in {None} \cup Nonces
  BY DEF RowsGoOn, NonceInv, NoncesCount
<1>3. NoncesCount'
  BY <1>2, RowsMoreDecided, NoncesGoOn DEF NonceInv
<1> QED
  BY <1>1, <1>3 DEF NonceInv

\* The submission at work is over; its row, and no other, may have moved.
LEMMA NonceDequeued ==
  ASSUME LighterInv, NonceInv, queue # <<>>, Dequeue, NEW c, c # "new",
         caller' = [caller EXCEPT ![Current] = c], UNCHANGED <<fate, expect>>,
         next' \in {next, expect},
         \/ UNCHANGED journal
         \/ \E s \in Statuses \ {"none", "CREATED"} :
              journal' = [journal EXCEPT ![Current].status = s]
  PROVE  NonceInv'
<1> USE DEF NonceInv
<1>1. /\ Current \in Txs /\ caller[Current] = "queued" /\ queue[1] = Current
      /\ Len(queue) \in Nat /\ Len(queue) >= 1
  BY FirstQueued DEF LighterInv, Types, Current
<1>2. \A t \in Txs : /\ journal'[t].nonce = journal[t].nonce
                     /\ journal'[t].status = journal[t].status
                          \/ (t = Current /\ journal'[t].status \notin {"none", "CREATED"})
  BY <1>1 DEF LighterInv, Types
<1>3. Decided \subseteq Decided' /\ Taken' = Taken
  BY <1>2 DEF Decided, Taken
<1>4. \A t \in Txs : journal'[t].nonce \in {None} \cup Nonces
  BY <1>2 DEF NoncesCount
<1>5. NoncesCount'
  BY <1>3, <1>4, NoncesGoOn
<1>6. /\ Len(queue') = Len(queue) - 1 /\ step' = "idle"
      /\ \A i \in 1..Len(queue') : queue'[i] = queue[i + 1]
  BY <1>1 DEF Dequeue, LighterInv, Types
<1>7. ASSUME NEW i \in 1..Len(queue') PROVE journal'[queue'[i]].status = "none"
  <2>1. i + 1 \in 1..Len(queue) /\ i + 1 > 1 /\ 1 \in 1..Len(queue)
    BY <1>1, <1>6
  <2>2. queue[i + 1] \in Txs /\ queue[i + 1] # Current
    <3>1. queue[i + 1] \in Txs
      BY <2>1 DEF LighterInv, Types
    <3>2. queue[i + 1] = queue[1] => i + 1 = 1
      BY <2>1 DEF LighterInv, Queued
    <3> QED
      BY <1>1, <2>1, <3>1, <3>2
  <2>3. journal[queue[i + 1]].status = "none"
    BY <2>1 DEF JournalBegins
  <2> QED
    BY <1>2, <1>6, <2>2, <2>3
<1>8. \A t \in Txs : caller'[t] = "new" => journal'[t].status = "none"
  BY <1>1, <1>2 DEF JournalBegins, LighterInv, Types
<1> QED
  BY <1>5, <1>6, <1>7, <1>8 DEF JournalBegins

\* An order is queued behind the others, with no journal row.
LEMMA PlaceOrderNonces ==
  ASSUME LighterInv, NonceInv, NEW t \in Txs, PlaceOrder(t) PROVE NonceInv'
<1> USE DEF NonceInv
<1>1. /\ queue' = Append(queue, t) /\ UNCHANGED <<step, next, journal, expect, fate>>
      /\ caller[t] = "new" /\ caller' = [caller EXCEPT ![t] = "queued"]
  BY DEF PlaceOrder, chain
<1>2. NoncesCount'
  BY <1>1 DEF NoncesCount, Decided, Taken
<1>3. /\ queue \in Seq(Txs) /\ Len(queue) \in Nat /\ Len(queue') = Len(queue) + 1
      /\ queue'[Len(queue) + 1] = t
      /\ \A i \in 1..Len(queue) : queue'[i] = queue[i]
  BY <1>1 DEF LighterInv, Types
<1>4. journal[t].status = "none"
  BY <1>1 DEF JournalBegins
<1>5. ASSUME NEW i \in 1..Len(queue'), i > 1 \/ step = "idle"
      PROVE  journal[queue'[i]].status = "none"
  <2>1. CASE i = Len(queue) + 1
    BY <1>3, <1>4, <2>1
  <2>2. CASE i \in 1..Len(queue)
    BY <1>3, <1>5, <2>2 DEF JournalBegins
  <2> QED
    BY <1>3, <2>1, <2>2
<1>6. \A u \in Txs : caller'[u] = "new" => journal[u].status = "none"
  BY <1>1 DEF JournalBegins, LighterInv, Types
<1>7. step = "created" => Current' = Current
  <2>1. step = "created" => queue # <<>>
    BY DEF LighterInv, Queued
  <2> QED
    BY <1>1, <1>3, <2>1 DEF Current
<1> QED
  BY <1>1, <1>2, <1>5, <1>6, <1>7 DEF JournalBegins

\* allocateNonce takes the next nonce, or the one the exchange takes next.
LEMMA AllocateNonces == ASSUME LighterInv, NonceInv, Allocate PROVE NonceInv'
<1> USE DEF NonceInv
<1>1. /\ queue # <<>> /\ Current \in Txs /\ caller[Current] = "queued" /\ step = "idle"
      /\ UNCHANGED <<expect, fate>>
  BY FirstQueued DEF Allocate, chain
<1>2. CASE Dequeue /\ Thrown(Current) /\ UNCHANGED <<next, journal>>
  BY <1>1, <1>2, NonceDequeued DEF Thrown
<1>3. CASE /\ next' = IF next = None THEN expect ELSE next
           /\ journal' = [journal EXCEPT ![Current] = [status |-> "CREATED", nonce |-> next']]
           /\ step' = "created" /\ UNCHANGED <<queue, caller>>
  <2>1. queue[1] = Current /\ 1 \in 1..Len(queue)
    BY <1>1 DEF LighterInv, Types, Current
  <2>2. journal[Current].status = "none"
    BY <1>1, <2>1 DEF JournalBegins
  <2>3. /\ \A u \in Txs : u # Current => journal'[u] = journal[u]
        /\ journal'[Current].status = "CREATED" /\ journal'[Current].nonce = next'
    BY <1>1, <1>3 DEF LighterInv, Types
  <2>4. Decided \subseteq Decided' /\ Taken' = Taken
    BY <1>1, <2>2, <2>3 DEF Decided, Taken
  <2>5. next' \in Nonces
    <3>1. /\ Decided \subseteq Txs /\ Taken \subseteq Decided
      BY TakenDecided DEF Decided
    <3>2. /\ Cardinality(Decided) \in Nat /\ Cardinality(Taken) \in Nat
          /\ Cardinality(Txs) \in Nat /\ Cardinality(Taken) <= Cardinality(Decided)
          /\ Cardinality(Decided) <= Cardinality(Txs)
      BY <3>1, SubsetCounted
    <3> QED
      BY <1>3, <3>2 DEF NoncesCount, Nonces
  <2>6. NoncesCount'
    <3>1. \A u \in Txs : journal'[u].nonce \in {None} \cup Nonces
      BY <2>3, <2>5 DEF NoncesCount
    <3> QED
      BY <1>1, <1>3, <2>4, <3>1, NoncesGoOn
  <2>7. ASSUME NEW i \in 1..Len(queue), i > 1 PROVE journal'[queue[i]].status = "none"
    <3>1. queue[i] \in Txs
      BY DEF LighterInv, Types
    <3>2. queue[i] # queue[1]
      BY <2>1, <2>7 DEF LighterInv, Queued
    <3> QED
      BY <2>1, <2>3, <2>7, <3>1, <3>2 DEF JournalBegins
  <2>8. \A u \in Txs : caller'[u] = "new" => journal'[u].status = "none"
    BY <1>1, <1>3, <2>3 DEF JournalBegins
  <2> QED
    BY <1>3, <2>3, <2>6, <2>7, <2>8 DEF JournalBegins, Current
<1> QED
  BY <1>2, <1>3 DEF Allocate

\* One more is signed and the next nonce is one higher, at most.
LEMMA SignNonces == ASSUME LighterInv, NonceInv, Sign PROVE NonceInv'
<1> USE DEF NonceInv
<1>1. /\ queue # <<>> /\ Current \in Txs /\ caller[Current] = "queued" /\ step = "created"
      /\ UNCHANGED <<expect, fate>>
  BY FirstQueued DEF Sign, chain, LighterInv, Queued
<1>2. CASE /\ Dequeue /\ Thrown(Current) /\ UNCHANGED next
           /\ journal' = [journal EXCEPT ![Current].status = "REJECTED"]
  <2>1. "REJECTED" \in Statuses \ {"none", "CREATED"}
    BY DEF Statuses
  <2> QED
    BY <1>1, <1>2, <2>1, NonceDequeued DEF Thrown
<1>3. CASE /\ next' = next + 1 /\ step' = "signed" /\ UNCHANGED <<queue, caller>>
           /\ journal' = [journal EXCEPT ![Current].status = "SIGNED"]
  <2> DEFINE D == Decided'
  <2>1. \A u \in Txs :
          /\ journal'[u].nonce = journal[u].nonce
          /\ journal'[u].status = IF u = Current THEN "SIGNED" ELSE journal[u].status
    BY <1>1, <1>3 DEF LighterInv, Types
  <2>2. D = Decided \cup {Current} /\ Current \notin Decided /\ Taken' = Taken
    BY <1>1, <2>1 DEF Decided, Taken, JournalBegins
  <2> HIDE DEF D
  <2>3. IsFiniteSet(Decided) /\ Cardinality(Decided) \in Nat
    BY TxsCounted DEF Decided
  <2>4. Cardinality(D) = Cardinality(Decided) + 1
    BY <2>2, <2>3, FS_AddElement
  <2>5. next' \in 0..Cardinality(D)
    BY <1>3, <2>3, <2>4 DEF NoncesCount, None
  <2>6. next' \in 0..Cardinality(Decided')
    BY <2>5 DEF D
  <2>7. NoncesCount'
    BY <1>1, <2>1, <2>2, <2>6 DEF NoncesCount
  <2>8. ASSUME NEW i \in 1..Len(queue), i > 1 PROVE journal'[queue[i]].status = "none"
    <3>1. queue[i] \in Txs /\ queue[1] = Current /\ 1 \in 1..Len(queue)
      BY <1>1 DEF LighterInv, Types, Current
    <3>2. queue[i] # queue[1]
      BY <2>8, <3>1 DEF LighterInv, Queued
    <3> QED
      BY <2>1, <2>8, <3>1, <3>2 DEF JournalBegins
  <2>9. \A u \in Txs : caller'[u] = "new" => journal'[u].status = "none"
    BY <1>1, <1>3, <2>1 DEF JournalBegins
  <2> QED
    BY <1>3, <2>7, <2>8, <2>9 DEF JournalBegins
<1> QED
  BY <1>2, <1>3 DEF Sign

\* The row says SENT; the nonces are as they were.
LEMMA SendNonces == ASSUME LighterInv, NonceInv, Send PROVE NonceInv'
<1> USE DEF NonceInv
<1>1. /\ queue # <<>> /\ Current \in Txs /\ caller[Current] = "queued"
      /\ UNCHANGED <<queue, next, caller, expect, fate>> /\ step' = "sent"
  BY FirstQueued DEF Send, LighterInv, Queued
<1>2. \A u \in Txs :
        /\ journal'[u].nonce = journal[u].nonce
        /\ journal'[u].status = IF u = Current THEN "SENT" ELSE journal[u].status
  BY <1>1 DEF Send, LighterInv, Types
<1>3. Decided \subseteq Decided' /\ Taken' = Taken
  BY <1>1, <1>2 DEF Decided, Taken
<1>4. NoncesCount'
  <2>1. \A u \in Txs : journal'[u].nonce \in {None} \cup Nonces
    BY <1>2 DEF NoncesCount
  <2> QED
    BY <1>1, <1>3, <2>1, NoncesGoOn
<1>5. ASSUME NEW i \in 1..Len(queue), i > 1 PROVE journal'[queue[i]].status = "none"
  <2>1. queue[i] \in Txs /\ queue[1] = Current /\ 1 \in 1..Len(queue)
    BY <1>1 DEF LighterInv, Types, Current
  <2>2. queue[i] # queue[1]
    BY <1>5, <2>1 DEF LighterInv, Queued
  <2> QED
    BY <1>2, <1>5, <2>1, <2>2 DEF JournalBegins
<1>6. \A u \in Txs : caller'[u] = "new" => journal'[u].status = "none"
  BY <1>1, <1>2 DEF JournalBegins
<1> QED
  BY <1>1, <1>4, <1>5, <1>6 DEF JournalBegins

LEMMA AnswerNonces == ASSUME LighterInv, NonceInv, Answer PROVE NonceInv'
<1>1. /\ queue # <<>> /\ Dequeue /\ UNCHANGED <<expect, fate>>
  BY DEF Answer, chain, LighterInv, Queued
<1>2. next' \in {next, expect}
  BY DEF Answer, Accepted, Rejected, Misread, TimedOut
<1>3. PICK c \in {"accepted", "failed"} : caller' = [caller EXCEPT ![Current] = c]
  BY DEF Answer, Accepted, Rejected, Misread, TimedOut, Thrown
<1>4. \E s \in Statuses \ {"none", "CREATED"} :
        journal' = [journal EXCEPT ![Current].status = s]
  <2>1. {"ACCEPTED", "REJECTED", "UNKNOWN"} \subseteq Statuses \ {"none", "CREATED"}
    BY DEF Statuses, Undecided
  <2> QED
    BY <2>1 DEF Answer, Accepted, Rejected, Misread, TimedOut
<1> QED
  BY <1>1, <1>2, <1>3, <1>4, NonceDequeued

\* Taken, it is one more; expect is its nonce and then the next.
LEMMA TakeNonces ==
  ASSUME LighterInv, NonceInv, NEW t \in Txs, Take(t) PROVE NonceInv'
<1>1. UNCHANGED <<caller, queue, step, next, journal>>
  BY DEF Take, sender
<1>2. JournalBegins' /\ Decided' = Decided
  BY <1>1 DEF NonceInv, JournalBegins, Current, Decided
<1>3. t \in Txs /\ fate[t] = "none" /\ t \notin Taken
  BY DEF Take, LighterInv, TakenOnce, Taken
<1> DEFINE T == Taken'
<1>4. \/ T = Taken \cup {t} /\ expect' = expect + 1
      \/ T = Taken /\ expect' = expect
  BY <1>3 DEF Take, Taken, LighterInv, Types
<1> HIDE DEF T
<1>5. IsFiniteSet(Taken) /\ Cardinality(Taken) \in Nat
  BY TxsCounted DEF Taken
<1>6. expect' = Cardinality(T)
  BY <1>3, <1>4, <1>5, FS_AddElement DEF NonceInv, NoncesCount
<1>7. expect' = Cardinality(Taken')
  BY <1>6 DEF T
<1> QED
  BY <1>1, <1>2, <1>7 DEF NonceInv, NoncesCount

\* A restart forgets the queue and the nonce.
LEMMA CrashNonces == ASSUME LighterInv, NonceInv, Crash PROVE NonceInv'
<1>1. /\ queue' = <<>> /\ step' = "idle" /\ next' = None
      /\ UNCHANGED <<journal, expect, fate>>
      /\ \A t \in Txs : caller'[t] = "new" => caller[t] = "new"
  BY DEF Crash, chain
<1> QED
  BY <1>1 DEF NonceInv, NoncesCount, JournalBegins, Decided, Taken

\* Events and the startup lookup write over rows that were sent.
LEMMA LookupNonces ==
  ASSUME LighterInv, NonceInv,
         Start \/ \E t \in Txs : OrderEvent(t) \/ TxEvent(t)
  PROVE  NonceInv'
<1>1. UNCHANGED <<queue, step, next, expect, fate>>
  BY DEF Start, OrderEvent, TxEvent, sender, chain
<1>2. \A t \in Txs : caller'[t] = "new" => caller[t] = "new"
  <2>1. \/ UNCHANGED caller
        \/ \E t \in Txs : caller' = [caller EXCEPT ![t] = IF @ = "waiting" THEN "postfill"
                                                                         ELSE @]
    BY DEF Start, OrderEvent, TxEvent
  <2> QED
    BY <2>1 DEF LighterInv, Types
<1>3. RowsGoOn
  <2>1. journal \in [Txs -> [nonce : Int, status : Statuses]]
    BY DEF LighterInv, Types
  <2>2. CASE \E t \in Txs : OrderEvent(t) \/ TxEvent(t)
    <3>1. \/ UNCHANGED journal
          \/ \E u \in Txs : /\ journal[u].status \in Undecided
                            /\ journal' = [journal EXCEPT ![u].status = "CONFIRMED"]
      BY <2>2 DEF OrderEvent, TxEvent, Finalized
    <3> QED
      BY <2>1, <3>1 DEF RowsGoOn, Undecided
  <2>3. CASE Start
    <3>1. PICK found \in [LookedAt -> {"SENT", "ACCEPTED", "UNKNOWN", "CONFIRMED", "REJECTED"}] :
            journal' = [t \in Txs |->
              IF t \in LookedAt THEN [journal[t] EXCEPT !.status = found[t]] ELSE journal[t]]
      BY <2>3 DEF Start
    <3>2. \A t \in Txs :
            /\ journal'[t].nonce = journal[t].nonce
            /\ journal'[t].status = IF t \in LookedAt THEN found[t] ELSE journal[t].status
      BY <2>1, <3>1
    <3>3. \A t \in LookedAt : /\ found[t] \notin {"none", "CREATED"}
                              /\ journal[t].status \notin {"none", "CREATED"}
      BY <3>1 DEF LookedAt, Undecided
    <3> QED
      BY <3>2, <3>3 DEF RowsGoOn
  <2> QED
    BY <2>2, <2>3
<1>4. Taken' = Taken
  BY <1>1 DEF Taken
<1> QED
  BY <1>1, <1>2, <1>3, <1>4, NonceAside

LEMMA NonceInvInit == LighterInit => NonceInv
<1> SUFFICES ASSUME LighterInit PROVE NonceInv
  OBVIOUS
<1>1. Taken = {} /\ Decided = {}
  BY DEF LighterInit, Taken, Decided, NoRow
<1> QED
  BY <1>1, FS_EmptySet DEF LighterInit, NonceInv, NoncesCount, JournalBegins, NoRow

LEMMA NonceInvNext == LighterInv /\ NonceInv /\ [LighterNext]_lighterVars => NonceInv'
<1> SUFFICES ASSUME LighterInv, NonceInv, [LighterNext]_lighterVars PROVE NonceInv'
  OBVIOUS
<1>1. ASSUME NEW t \in Txs,
             \/ SaveOrder(t) \/ WaitForFill(t) \/ Refuse(t) \/ Lose(t) \/ Fill(t)
             \/ LoseEvents(t) \/ PostFill(t) \/ Claim(t) \/ Place(t) \/ Monitor(t)
      PROVE  NonceInv'
  <2>1. UNCHANGED <<queue, step, next, expect, journal>>
    BY <1>1 DEF SaveOrder, WaitForFill, Refuse, Lose, Fill, LoseEvents, PostFill, Claim,
       Place, Monitor, Stop, sender, chain
  <2>2. \A u \in Txs : caller'[u] = "new" => caller[u] = "new"
    BY <1>1 DEF SaveOrder, WaitForFill, Refuse, Lose, Fill, LoseEvents, PostFill, Claim,
       Place, Monitor, Stop, LighterInv, Types
  <2>3. Taken' = Taken
    <3>1. UNCHANGED fate \/ (fate[t] = "none" /\ fate' = [fate EXCEPT ![t] = "refused"])
      BY <1>1 DEF SaveOrder, WaitForFill, Refuse, Lose, Fill, LoseEvents, PostFill, Claim,
         Place, Monitor, Stop, chain, LighterInv, TakenOnce
    <3> QED
      BY <3>1 DEF Taken, LighterInv, Types
  <2>4. RowsGoOn
    BY <2>1 DEF RowsGoOn
  <2> QED
    BY <2>1, <2>2, <2>3, <2>4, NonceAside
<1>2. CASE Stop
  <2>1. UNCHANGED <<queue, step, next, expect, journal, caller, fate>>
    BY <1>2 DEF Stop, sender, chain
  <2> QED
    BY <2>1 DEF NonceInv, NoncesCount, JournalBegins, Decided, Taken, Current
<1>3. CASE UNCHANGED lighterVars
  <2>1. UNCHANGED <<queue, step, next, expect, journal, caller, fate>>
    BY <1>3 DEF lighterVars, sender, chain
  <2> QED
    BY <2>1 DEF NonceInv, NoncesCount, JournalBegins, Decided, Taken, Current
<1>4. CASE \E t \in Txs : PlaceOrder(t) \/ Take(t) \/ OrderEvent(t) \/ TxEvent(t)
  BY <1>4, PlaceOrderNonces, TakeNonces, LookupNonces
<1>5. CASE Submit \/ Crash \/ Start
  BY <1>5, AllocateNonces, SignNonces, SendNonces, AnswerNonces, CrashNonces, LookupNonces
     DEF Submit
<1> QED
  BY <1>1, <1>2, <1>3, <1>4, <1>5 DEF LighterNext

\* Fill handlers: what every step may do to one order.
HandlersMove(t) ==
  LET open(c) == IF c = "done" THEN 0 ELSE 1
  IN  \/ UNCHANGED <<handlers[t], events[t], caller[t], book[t]>>
      \* An event, or the end of a wait, makes a handler at most.
      \/ /\ book[t] = "filled" /\ book'[t] = "filled"
         /\ handlers'[t] \in Nat /\ events'[t] \in 0..2
         /\ handlers'[t] + events'[t] + open(caller'[t]) <= 4
      \* Nothing that a fill makes is there before it.
      \/ /\ handlers'[t] = handlers[t] /\ events'[t] = events[t]
         /\ caller'[t] # "postfill" /\ (caller[t] = "done" => caller'[t] = "done")
         /\ \/ book'[t] = book[t]
            \/ book'[t] = "open" /\ book[t] # "filled"
      \* The fill, or a restart.
      \/ handlers[t] = 0 /\ handlers'[t] = 0 /\ events'[t] = 2 /\ book'[t] = "filled"
         /\ caller'[t] = caller[t]
      \/ handlers'[t] = 0 /\ events'[t] = 0 /\ caller'[t] # "postfill" /\ book'[t] = book[t]

LEMMA HandlersKept ==
  ASSUME CountInv, NEW t \in Txs, HandlersMove(t)
  PROVE  /\ handlers'[t] \in Nat /\ events'[t] \in 0..2
         /\ book'[t] # "filled" => handlers'[t] = 0 /\ events'[t] = 0 /\ caller'[t] # "postfill"
         /\ handlers'[t] + events'[t] + (IF caller'[t] = "done" THEN 0 ELSE 1) <= 4
<1>1. /\ handlers[t] \in Nat /\ events[t] \in 0..2
      /\ book[t] # "filled" => handlers[t] = 0 /\ events[t] = 0 /\ caller[t] # "postfill"
      /\ handlers[t] + events[t] + (IF caller[t] = "done" THEN 0 ELSE 1) <= 4
  BY DEF CountInv, OtherTypes, HandlersCount
<1> QED
  BY <1>1 DEF HandlersMove

\* The callers of placeOrder, answered or on their way, make no handler.
LEMMA CallersMove ==
  ASSUME LighterInv, UNCHANGED <<handlers, events, book>>,
         NEW t \in Txs, NEW c, c # "postfill", caller[t] # "done",
         caller' = [caller EXCEPT ![t] = c]
  PROVE  \A u \in Txs : HandlersMove(u)
BY DEF HandlersMove, LighterInv, Types

\* The nonce manager answers one caller.
LEMMA SubmitMoves ==
  ASSUME LighterInv, CountInv, Submit PROVE \A u \in Txs : HandlersMove(u)
<1>1. UNCHANGED <<handlers, events, book>>
  BY DEF Submit, Allocate, Sign, Send, Answer, chain, fills
<1>2. \/ UNCHANGED caller
      \/ /\ queue # <<>>
         /\ \E c \in {"accepted", "failed"} : caller' = [caller EXCEPT ![Current] = c]
  BY DEF Submit, Allocate, Sign, Send, Answer, Accepted, Rejected, Misread, TimedOut,
     Thrown, LighterInv, Queued
<1>3. CASE UNCHANGED caller
  BY <1>1, <1>3 DEF HandlersMove
<1>4. CASE /\ queue # <<>>
           /\ \E c \in {"accepted", "failed"} : caller' = [caller EXCEPT ![Current] = c]
  <2>1. Current \in Txs /\ caller[Current] = "queued"
    BY <1>4, FirstQueued
  <2> QED
    BY <1>1, <1>4, <2>1, CallersMove
<1> QED
  BY <1>2, <1>3, <1>4

LEMMA OrderMoves ==
  ASSUME LighterInv, CountInv, NEW t \in Txs,
         \/ PlaceOrder(t) \/ SaveOrder(t) \/ WaitForFill(t) \/ Take(t) \/ Refuse(t)
         \/ Lose(t) \/ TxEvent(t) \/ Place(t)
  PROVE  \A u \in Txs : HandlersMove(u)
<1>1. UNCHANGED <<handlers, events>>
  BY DEF PlaceOrder, SaveOrder, WaitForFill, Take, Refuse, Lose, TxEvent, Place, fills
<1>2. CASE PlaceOrder(t) \/ SaveOrder(t) \/ WaitForFill(t)
  <2>1. UNCHANGED book /\ caller[t] # "done"
        /\ \E c \in {"queued", "saved", "waiting"} : caller' = [caller EXCEPT ![t] = c]
    BY <1>2 DEF PlaceOrder, SaveOrder, WaitForFill, chain
  <2> QED
    BY <1>1, <2>1, CallersMove
<1>3. CASE Take(t)
  <2>1. UNCHANGED caller /\ book[t] # "filled"
        /\ (UNCHANGED book \/ book' = [book EXCEPT ![t] = "open"])
    BY <1>3 DEF Take, LighterInv, TakenOnce
  <2>2. book[t] # "filled" => caller[t] # "postfill"
    BY DEF CountInv, HandlersCount
  <2> QED
    BY <1>1, <2>1, <2>2 DEF HandlersMove, LighterInv, Types
<1>4. CASE Refuse(t) \/ Lose(t) \/ TxEvent(t) \/ Place(t)
  <2>1. UNCHANGED <<caller, book>>
    BY <1>4 DEF Refuse, Lose, TxEvent, Place, chain
  <2> QED
    BY <1>1, <2>1 DEF HandlersMove
<1> QED
  BY <1>2, <1>3, <1>4

\* A fill and those who hear of it.
LEMMA FillMoves ==
  ASSUME LighterInv, CountInv, NEW t \in Txs,
         \/ Fill(t) \/ LoseEvents(t) \/ OrderEvent(t) \/ PostFill(t) \/ Claim(t)
         \/ Monitor(t)
  PROVE  \A u \in Txs : HandlersMove(u)
<1>1. /\ handlers[t] \in Nat /\ events[t] \in 0..2
      /\ book[t] # "filled" => handlers[t] = 0 /\ events[t] = 0 /\ caller[t] # "postfill"
      /\ handlers[t] + events[t] + (IF caller[t] = "done" THEN 0 ELSE 1) <= 4
  BY DEF CountInv, OtherTypes, HandlersCount
<1>2. /\ caller \in [Txs -> {"new", "queued", "accepted", "saved", "waiting", "postfill",
                             "done", "failed"}]
      /\ book \in [Txs -> {"none", "open", "filled"}]
      /\ handlers \in [Txs -> Nat] /\ events \in [Txs -> 0..2]
  BY DEF LighterInv, Types, CountInv, OtherTypes
<1>3. CASE Fill(t)
  <2>1. /\ UNCHANGED <<handlers, caller>> /\ book[t] = "open"
        /\ book' = [book EXCEPT ![t] = "filled"] /\ events' = [events EXCEPT ![t] = 2]
    BY <1>3 DEF Fill
  <2> QED
    BY <1>1, <1>2, <2>1 DEF HandlersMove
<1>4. CASE LoseEvents(t)
  <2>1. /\ UNCHANGED <<handlers, caller, book>> /\ events[t] > 0
        /\ events' = [events EXCEPT ![t] = 0]
    BY <1>4 DEF LoseEvents, chain
  <2> QED
    BY <1>1, <1>2, <2>1 DEF HandlersMove
<1>5. CASE OrderEvent(t)
  <2>1. /\ UNCHANGED book /\ events[t] > 0 /\ events' = [events EXCEPT ![t] = @ - 1]
        /\ caller' = [caller EXCEPT ![t] = IF @ = "waiting" THEN "postfill" ELSE @]
        /\ handlers' = handlers \/ handlers' = [handlers EXCEPT ![t] = @ + 1]
    BY <1>5 DEF OrderEvent, chain
  <2>2. /\ handlers'[t] \in {handlers[t], handlers[t] + 1} /\ events'[t] = events[t] - 1
        /\ caller'[t] = "done" <=> caller[t] = "done"
        /\ \A u \in Txs : u # t =>
             UNCHANGED <<handlers[u], events[u], caller[u], book[u]>>
    BY <1>2, <2>1
  <2> QED
    BY <1>1, <2>1, <2>2 DEF HandlersMove
<1>6. CASE PostFill(t)
  <2>1. /\ UNCHANGED <<book, events>> /\ caller[t] = "postfill"
        /\ caller' = [caller EXCEPT ![t] = "done"]
        /\ handlers' = [handlers EXCEPT ![t] = @ + 1]
    BY <1>6 DEF PostFill, chain
  <2> QED
    BY <1>1, <1>2, <2>1 DEF HandlersMove
<1>7. CASE Claim(t)
  <2>1. /\ UNCHANGED <<book, events, caller>> /\ handlers[t] > 0
        /\ handlers' = [handlers EXCEPT ![t] = @ - 1]
    BY <1>7 DEF Claim, chain
  <2> QED
    BY <1>1, <1>2, <2>1 DEF HandlersMove
<1>8. CASE Monitor(t)
  <2>1. /\ UNCHANGED <<book, events, caller>> /\ book[t] = "filled"
        /\ handlers' = [handlers EXCEPT ![t] = IF @ = 0 THEN 1 ELSE @]
    BY <1>8 DEF Monitor, chain
  <2> QED
    BY <1>1, <1>2, <2>1 DEF HandlersMove
<1> QED
  BY <1>3, <1>4, <1>5, <1>6, <1>7, <1>8

LEMMA OtherTypesNext ==
  ASSUME LighterInv, CountInv, [LighterNext]_lighterVars,
         \A t \in Txs : handlers'[t] \in Nat /\ events'[t] \in 0..2
  PROVE  OtherTypes'
<1> DEFINE Simple == \/ \E t \in Txs :
                         \/ PlaceOrder(t) \/ SaveOrder(t) \/ WaitForFill(t) \/ Take(t)
                         \/ Refuse(t) \/ Lose(t) \/ Fill(t) \/ LoseEvents(t)
                         \/ OrderEvent(t) \/ TxEvent(t) \/ PostFill(t) \/ Claim(t)
                         \/ Place(t) \/ Monitor(t)
                     \/ Crash \/ Stop \/ Start \/ UNCHANGED lighterVars
<1>1. Simple \/ Submit
  <2>1. ASSUME NEW t \in Txs,
               \/ PlaceOrder(t) \/ SaveOrder(t) \/ WaitForFill(t) \/ Take(t)
               \/ Refuse(t) \/ Lose(t) \/ Fill(t) \/ LoseEvents(t)
               \/ OrderEvent(t) \/ TxEvent(t) \/ PostFill(t) \/ Claim(t)
               \/ Place(t) \/ Monitor(t)
        PROVE  Simple
    BY <2>1
  <2> HIDE DEF Simple
  <2>2. Crash \/ Stop \/ Start \/ UNCHANGED lighterVars => Simple
    BY DEF Simple
  <2> QED
    BY <2>1, <2>2 DEF LighterNext
<1>2. \/ UNCHANGED row
      \/ \E t \in Txs : \E v \in {"FAILED", row[t]} \cup Linked : row' = [row EXCEPT ![t] = v]
  <2>1. CASE Simple
    BY <2>1 DEF PlaceOrder, SaveOrder, WaitForFill, Take, Refuse, Lose, Fill, LoseEvents,
       OrderEvent, TxEvent, PostFill, Claim, Place, Monitor, Crash, Stop, Start,
       lighterVars, Linked
  <2>2. CASE Submit
    <3>1. UNCHANGED row \/ (queue # <<>> /\ row' = [row EXCEPT ![Current] = "FAILED"])
      BY <2>2 DEF Submit, Allocate, Sign, Send, Answer, Accepted, Rejected, Misread,
         TimedOut, Thrown, LighterInv, Queued
    <3> QED
      BY <3>1, FirstQueued
  <2> QED
    BY <1>1, <2>1, <2>2
<1>3. row' \in [Txs -> {"INIT", "FAILED"} \cup Linked]
  BY <1>2 DEF CountInv, OtherTypes
<1>4. UNCHANGED ladder \/ \E t \in Txs : ladder' = [ladder EXCEPT ![t] = @ + 1]
  BY DEF LighterNext, Submit, Allocate, Sign, Send, Answer, PlaceOrder, SaveOrder,
     WaitForFill, Take, Refuse, Lose, Fill, LoseEvents, OrderEvent, TxEvent, PostFill,
     Claim, Place, Monitor, Crash, Stop, Start, lighterVars, fills
<1>5. ladder' \in [Txs -> Nat]
  BY <1>4 DEF CountInv, OtherTypes
<1>6. UNCHANGED faults \/ Fault
  BY DEF LighterNext, Submit, Allocate, Sign, Send, Answer, Accepted, Rejected, Misread,
     TimedOut, PlaceOrder, SaveOrder, WaitForFill, Take, Refuse, Lose, Fill, LoseEvents,
     OrderEvent, TxEvent, PostFill, Claim, Place, Monitor, Crash, Stop, Start,
     lighterVars, past_
<1>7. UNCHANGED crashes \/ (crashes < MaxCrashes /\ crashes' = crashes + 1)
  BY DEF LighterNext, Submit, Allocate, Sign, Send, Answer, PlaceOrder, SaveOrder,
     WaitForFill, Take, Refuse, Lose, Fill, LoseEvents, OrderEvent, TxEvent, PostFill,
     Claim, Place, Monitor, Crash, Stop, Start, lighterVars, past_
<1>8. faults' \in 0..MaxFaults /\ crashes' \in 0..MaxCrashes
  BY <1>6, <1>7, LighterAssumption DEF CountInv, OtherTypes, Fault
<1>9. \/ UNCHANGED <<handlers, events>>
      \/ \E t \in Txs : \E v, w : /\ handlers' = [handlers EXCEPT ![t] = v]
                                   /\ events' = [events EXCEPT ![t] = w]
      \/ handlers' = [t \in Txs |-> 0] /\ events' = [t \in Txs |-> 0]
  <2>1. CASE Simple
    <3>1. CASE \E t \in Txs : Fill(t) \/ LoseEvents(t)
      BY <3>1 DEF Fill, LoseEvents, CountInv, OtherTypes
    <3>2. CASE \E t \in Txs : OrderEvent(t) \/ PostFill(t) \/ Claim(t) \/ Monitor(t)
      BY <3>2 DEF OrderEvent, PostFill, Claim, Monitor, CountInv, OtherTypes
    <3>3. CASE Crash
      BY <3>3 DEF Crash
    <3> QED
      BY <2>1, <3>1, <3>2, <3>3 DEF PlaceOrder, SaveOrder, WaitForFill, Take, Refuse, Lose,
         TxEvent, Place, Stop, Start, lighterVars, fills
  <2>2. CASE Submit
    BY <2>2 DEF Submit, Allocate, Sign, Send, Answer, fills
  <2> QED
    BY <1>1, <2>1, <2>2
<1>10. DOMAIN handlers' = Txs /\ DOMAIN events' = Txs
       /\ handlers' = [t \in Txs |-> handlers'[t]] /\ events' = [t \in Txs |-> events'[t]]
  BY <1>9 DEF CountInv, OtherTypes
<1> QED
  BY <1>3, <1>5, <1>8, <1>10 DEF OtherTypes

LEMMA CountInvInit == LighterInit => CountInv
<1> SUFFICES ASSUME LighterInit PROVE CountInv
  OBVIOUS
<1>1. \A t \in Txs : /\ handlers[t] = 0 /\ events[t] = 0 /\ ladder[t] = 0
                     /\ caller[t] = "new"
  BY DEF LighterInit
<1>2. OtherTypes
  BY LighterAssumption DEF LighterInit, OtherTypes
<1> QED
  BY <1>1, <1>2 DEF CountInv, HandlersCount

LEMMA CountInvNext == LighterInv /\ CountInv /\ [LighterNext]_lighterVars => CountInv'
<1> SUFFICES ASSUME LighterInv, CountInv, [LighterNext]_lighterVars PROVE CountInv'
  OBVIOUS
<1>1. \A t \in Txs : HandlersMove(t)
  <2>1. CASE Crash
    <3>1. /\ handlers' = [t \in Txs |-> 0] /\ events' = [t \in Txs |-> 0] /\ UNCHANGED book
          /\ caller' = [t \in Txs |-> IF caller[t] = "new" THEN "new" ELSE "done"]
      BY <2>1 DEF Crash, chain
    <3> QED
      BY <3>1 DEF HandlersMove
  <2>2. CASE Stop \/ Start \/ UNCHANGED lighterVars
    <3>1. UNCHANGED <<handlers, events, caller, book>>
      BY <2>2 DEF Stop, Start, lighterVars, fills, chain
    <3> QED
      BY <3>1 DEF HandlersMove
  <2>3. ASSUME NEW t \in Txs,
               \/ PlaceOrder(t) \/ SaveOrder(t) \/ WaitForFill(t) \/ Take(t) \/ Refuse(t)
               \/ Lose(t) \/ TxEvent(t) \/ Place(t)
        PROVE  \A u \in Txs : HandlersMove(u)
    BY <2>3, OrderMoves
  <2>4. ASSUME NEW t \in Txs,
               \/ Fill(t) \/ LoseEvents(t) \/ OrderEvent(t) \/ PostFill(t) \/ Claim(t)
               \/ Monitor(t)
        PROVE  \A u \in Txs : HandlersMove(u)
    BY <2>4, FillMoves
  <2> QED
    BY <2>1, <2>2, <2>3, <2>4, SubmitMoves DEF LighterNext
<1>2. ASSUME NEW t \in Txs
      PROVE  /\ handlers'[t] \in Nat /\ events'[t] \in 0..2
             /\ book'[t] # "filled" => /\ handlers'[t] = 0 /\ events'[t] = 0
                                       /\ caller'[t] # "postfill"
             /\ handlers'[t] + events'[t] + (IF caller'[t] = "done" THEN 0 ELSE 1) <= 4
  BY <1>1, HandlersKept
<1>3. OtherTypes'
  BY <1>2, OtherTypesNext
<1>4. HandlersCount'
  BY <1>2 DEF HandlersCount
<1> QED
  BY <1>3, <1>4 DEF CountInv

LEMMA LighterTypes == LighterInv /\ NonceInv /\ CountInv => LighterTypeOK
<1> SUFFICES ASSUME LighterInv, NonceInv, CountInv PROVE LighterTypeOK
  OBVIOUS
<1> USE DEF LighterInv, Types
<1>1. Cardinality(Txs) \in Nat /\ expect \in Nonces /\ next \in {None} \cup Nonces
  <2>1. Taken \subseteq Decided /\ Decided \subseteq Txs
    BY TakenDecided DEF Decided
  <2>2. /\ Cardinality(Decided) \in Nat /\ Cardinality(Taken) \in Nat
        /\ Cardinality(Txs) \in Nat /\ Cardinality(Taken) <= Cardinality(Decided)
        /\ Cardinality(Decided) <= Cardinality(Txs)
    BY <2>1, SubsetCounted
  <2> QED
    BY <2>2 DEF NonceInv, NoncesCount, Nonces
<1>2. journal \in [Txs -> [nonce : {None} \cup Nonces,
        status : {"none", "CREATED", "SIGNED", "CONFIRMED", "REJECTED"} \cup Undecided]]
  <2>1. \A t \in Txs : /\ journal[t].nonce \in {None} \cup Nonces
                       /\ journal[t] \in [nonce : Int, status : Statuses]
    BY DEF NonceInv, NoncesCount
  <2> QED
    BY <2>1 DEF Statuses
<1>3. handlers \in [Txs -> 0..4] /\ events \in [Txs -> 0..2]
  <2>1. ASSUME NEW t \in Txs PROVE handlers[t] \in 0..4
    <3>1. handlers[t] \in Nat /\ events[t] \in 0..2
      BY DEF CountInv, OtherTypes
    <3>2. handlers[t] + events[t] + (IF caller[t] = "done" THEN 0 ELSE 1) <= 4
      BY DEF CountInv, HandlersCount
    <3>3. handlers[t] + events[t] <= 4
      BY <3>1, <3>2
    <3> HIDE DEF LighterInv, Types
    <3> QED
      BY <3>1, <3>3
  <2> QED
    BY <2>1 DEF CountInv, OtherTypes
<1> QED
  BY <1>1, <1>2, <1>3 DEF LighterTypeOK, CountInv, OtherTypes, Queued

\* Every variable of a Lighter instance has the values the code can give it,
\* for any number of orders, faults and restarts; no nonce beyond the number of
\* transactions is asked for, journaled or expected (LighterNonceManager), and
\* no fill has more than four handlers.
THEOREM LighterTyped == LighterSpec => []LighterTypeOK
BY LighterInvInit, LighterInvStep, NonceInvInit, NonceInvNext, CountInvInit, CountInvNext,
   LighterTypes, PTL DEF LighterSpec

-----------------------------------------------------------------------------
(* The handlers of Lighter implement the plan of ProtectionPlan *)

\* Until the row is linked the plan is that of the submission alone: whatever
\* claims or places it comes after the link, and an error before it.
LinkedFirst(t) ==
  /\ caller[t] \in {"new", "queued", "accepted"} => row[t] = "INIT"
  /\ caller[t] = "queued" => plan[t] = "PENDING"
  /\ caller[t] \in {"saved", "waiting", "postfill"} => row[t] \in Linked
  /\ handlers[t] > 0 \/ t \in placing \/ plan[t] \in {"CLAIMED", "COMPLETED"}
       => row[t] \in Linked
  /\ t \in placing => plan[t] = "CLAIMED"

LinkInv == \A t \in Txs : LinkedFirst(t)

\* What the plan says of an order stays.
PlanKept(t) ==
  UNCHANGED <<plan[t], ladder[t]>> /\ (row[t] \in Linked <=> row'[t] \in Linked)

\* One order takes one step of the plan, or none.
PlanMoved(t) ==
  \/ PlanKept(t)
  \/ UNCHANGED <<plan[t], ladder[t]>> /\ row[t] \notin Linked /\ row'[t] \in Linked
  \/ /\ UNCHANGED ladder[t] /\ (row[t] \in Linked <=> row'[t] \in Linked)
     /\ \/ plan[t] = "none" /\ plan'[t] = "PENDING"
        \/ plan[t] = "PENDING" /\ plan'[t] = "none" /\ row[t] \notin Linked
        \/ plan[t] = "PENDING" /\ plan'[t] = "CLAIMED" /\ row[t] \in Linked
  \/ /\ plan[t] = "CLAIMED" /\ plan'[t] = "COMPLETED" /\ ladder'[t] = ladder[t] + 1
     /\ (row[t] \in Linked <=> row'[t] \in Linked)

LinkStep(t) == PlanMoved(t) /\ LinkedFirst(t)'

LEMMA LinkInvInit == LighterInit => LinkInv
<1> SUFFICES ASSUME LighterInit, NEW t \in Txs PROVE LinkedFirst(t)
  BY DEF LinkInv
<1> QED
  BY DEF LighterInit, LinkedFirst

\* The types the steps need.
LEMMA LinkTypes ==
  ASSUME LighterInv, CountInv
  PROVE  /\ caller \in [Txs -> {"new", "queued", "accepted", "saved", "waiting",
                                "postfill", "done", "failed"}]
         /\ plan \in [Txs -> {"none", "PENDING", "CLAIMED", "COMPLETED"}]
         /\ row \in [Txs -> {"INIT", "FAILED"} \cup Linked]
         /\ handlers \in [Txs -> Nat] /\ ladder \in [Txs -> Nat]
         /\ placing \subseteq Txs
         /\ \A t \in Txs : caller[t] = "new" => plan[t] = "none"
BY DEF LighterInv, Types, CountInv, OtherTypes, Unplaced

\* The order that was submitted: accepted, or its plan is taken back.
LEMMA SubmitLinks ==
  ASSUME LighterInv, CountInv, LinkInv, Submit
  PROVE  \A u \in Txs : LinkStep(u)
<1> USE LinkTypes DEF Linked
<1>1. queue # <<>> /\ Current \in Txs /\ caller[Current] = "queued"
  <2>1. queue # <<>>
    BY DEF Submit, Allocate, Sign, Send, Answer, LighterInv, Queued
  <2> QED
    BY <2>1, FirstQueued
<1>2. UNCHANGED <<handlers, placing, ladder>>
  BY DEF Submit, Allocate, Sign, Send, Answer, fills
<1>3. \/ Thrown(Current)
      \/ UNCHANGED <<caller, plan, row>>
      \/ caller' = [caller EXCEPT ![Current] = "accepted"] /\ UNCHANGED <<plan, row>>
  BY DEF Submit, Allocate, Sign, Send, Answer, Accepted, Rejected, Misread, TimedOut
<1>4. LinkedFirst(Current)
  BY <1>1 DEF LinkInv
<1>5. ASSUME NEW u \in Txs PROVE LinkStep(u)
  <2>1. LinkedFirst(u)
    BY DEF LinkInv
  <2> QED
    BY <1>1, <1>2, <1>3, <1>4, <2>1 DEF LinkStep, PlanMoved, PlanKept, LinkedFirst, Thrown
<1> QED
  BY <1>5

LEMMA OrderLinks ==
  ASSUME LighterInv, CountInv, LinkInv, NEW t \in Txs,
         \/ PlaceOrder(t) \/ SaveOrder(t) \/ WaitForFill(t) \/ Take(t) \/ Refuse(t)
         \/ Lose(t) \/ Fill(t) \/ LoseEvents(t) \/ OrderEvent(t) \/ TxEvent(t)
         \/ PostFill(t) \/ Claim(t) \/ Place(t) \/ Monitor(t)
  PROVE  \A u \in Txs : LinkStep(u)
<1> USE LinkTypes DEF Linked, fills, LinkStep, PlanMoved, PlanKept, LinkedFirst, LinkInv
<1>1. CASE \/ Take(t) \/ Refuse(t) \/ Lose(t) \/ Fill(t) \/ LoseEvents(t) \/ TxEvent(t)
  BY <1>1 DEF Take, Refuse, Lose, Fill, LoseEvents, TxEvent
<1>2. CASE PlaceOrder(t)
  BY <1>2 DEF PlaceOrder
<1>3. CASE SaveOrder(t) \/ WaitForFill(t)
  BY <1>3 DEF SaveOrder, WaitForFill
<1>4. CASE OrderEvent(t)
  BY <1>4 DEF OrderEvent
<1>5. CASE PostFill(t)
  BY <1>5 DEF PostFill
<1>6. CASE Claim(t)
  BY <1>6 DEF Claim
<1>7. CASE Place(t)
  BY <1>7 DEF Place
<1>8. CASE Monitor(t)
  BY <1>8 DEF Monitor
<1> QED
  BY <1>1, <1>2, <1>3, <1>4, <1>5, <1>6, <1>7, <1>8

LEMMA LinkSteps ==
  ASSUME LighterInv, CountInv, LinkInv, [LighterNext]_lighterVars
  PROVE  \A u \in Txs : LinkStep(u)
<1>1. CASE Crash
  BY <1>1, LinkTypes DEF Crash, LinkStep, PlanMoved, PlanKept, LinkedFirst, LinkInv
<1>2. CASE Stop \/ Start \/ UNCHANGED lighterVars
  BY <1>2 DEF Stop, Start, lighterVars, fills, LinkStep, PlanMoved, PlanKept, LinkedFirst, LinkInv
<1> QED
  BY <1>1, <1>2, SubmitLinks, OrderLinks DEF LighterNext

LEMMA LinkInvNext ==
  LighterInv /\ CountInv /\ LinkInv /\ [LighterNext]_lighterVars => LinkInv'
BY LinkSteps DEF LinkInv, LinkStep

\* A step moves the plan of one order at most.
LEMMA OneMoves ==
  ASSUME LighterInv, CountInv, [LighterNext]_lighterVars
  PROVE  \/ \A u \in Txs : PlanKept(u)
         \/ \E t \in Txs : \A u \in Txs : u # t => PlanKept(u)
<1> USE LinkTypes DEF PlanKept
<1>1. CASE Submit
  <2>1. queue # <<>>
    BY <1>1 DEF Submit, Allocate, Sign, Send, Answer, LighterInv, Queued
  <2>2. Current \in Txs
    BY <2>1, FirstQueued
  <2>3. ladder' = ladder
    BY <1>1 DEF Submit, Allocate, Sign, Send, Answer, fills
  <2>4. Thrown(Current) \/ UNCHANGED <<plan, row>>
    BY <1>1 DEF Submit, Allocate, Sign, Send, Answer, Accepted, Rejected, Misread, TimedOut
  <2> QED
    BY <2>2, <2>3, <2>4 DEF Thrown
<1>2. ASSUME NEW t \in Txs,
             \/ Take(t) \/ Refuse(t) \/ Lose(t) \/ Fill(t) \/ LoseEvents(t)
             \/ TxEvent(t) \/ WaitForFill(t) \/ Monitor(t)
      PROVE  \A u \in Txs : PlanKept(u)
  BY <1>2 DEF Take, Refuse, Lose, Fill, LoseEvents, TxEvent, WaitForFill, Monitor, fills
<1>3. ASSUME NEW t \in Txs,
             \/ PlaceOrder(t) \/ SaveOrder(t) \/ OrderEvent(t) \/ PostFill(t)
             \/ Claim(t) \/ Place(t)
      PROVE  \A u \in Txs : u # t => PlanKept(u)
  <2>1. CASE PlaceOrder(t) \/ SaveOrder(t)
    BY <2>1 DEF PlaceOrder, SaveOrder, fills
  <2>2. CASE OrderEvent(t) \/ PostFill(t)
    BY <2>2 DEF OrderEvent, PostFill
  <2>3. CASE Claim(t) \/ Place(t)
    BY <2>3 DEF Claim, Place
  <2> QED
    BY <1>3, <2>1, <2>2, <2>3
<1>4. CASE Crash \/ Stop \/ Start \/ UNCHANGED lighterVars
  BY <1>4 DEF Crash, Stop, Start, lighterVars, fills
<1> QED
  BY <1>1, <1>2, <1>3, <1>4 DEF LighterNext

\* The order whose plan moves takes the step of ProtectionPlan with its name.
LEMMA LighterPlanLift ==
  ASSUME LighterInv, CountInv, NEW t \in Txs, PlanMoved(t),
         \A u \in Txs : u # t => PlanKept(u),
         plan' \in [Txs -> {"none", "PENDING", "CLAIMED", "COMPLETED"}],
         ladder' \in [Txs -> Nat]
  PROVE  [LighterPlan!Next]_(LighterPlan!vars)
<1> DEFINE ph == [u \in Txs |-> PhaseOf(plan[u])]
           lv == [u \in Txs |-> row[u] \in Linked]
<1>1. \A u \in Txs : u # t => /\ plan'[u] = plan[u] /\ ladder'[u] = ladder[u]
                              /\ (row'[u] \in Linked <=> row[u] \in Linked)
  BY DEF PlanKept
<1>2. /\ ph' = [ph EXCEPT ![t] = PhaseOf(plan'[t])]
      /\ lv' = [lv EXCEPT ![t] = row'[t] \in Linked]
      /\ ladder' = [ladder EXCEPT ![t] = ladder'[t]]
  <2>1. ph' = [ph EXCEPT ![t] = PhaseOf(plan'[t])]
    BY <1>1
  <2>2. lv' = [lv EXCEPT ![t] = row'[t] \in Linked]
    <3>1. \A u \in Txs : (row'[u] \in Linked) = [lv EXCEPT ![t] = row'[t] \in Linked][u]
      BY <1>1
    <3>2. Linked' = Linked
      BY DEF Linked
    <3> QED
      BY <3>1, <3>2
  <2>3. ladder' = [ladder EXCEPT ![t] = ladder'[t]]
    BY <1>1, LinkTypes
  <2> QED
    BY <2>1, <2>2, <2>3
<1>3. ph[t] = PhaseOf(plan[t]) /\ (lv[t] <=> row[t] \in Linked)
  OBVIOUS
<1>4. /\ PhaseOf("none") = "none" /\ PhaseOf("PENDING") = "planned"
      /\ PhaseOf("CLAIMED") = "claimed" /\ PhaseOf("COMPLETED") = "settled"
  BY DEF PhaseOf
<1> USE DEF LighterPlan!Next, LighterPlan!Plan, LighterPlan!Withdraw,
        LighterPlan!Accept, LighterPlan!Claim, LighterPlan!Send,
        LighterPlan!Step, LighterPlan!vars
<1>a. ASSUME ladder'[t] = ladder[t] PROVE ladder' = ladder
  BY <1>a, <1>1, LinkTypes
<1>b. ASSUME plan'[t] = plan[t] PROVE ph' = ph
  <2>1. \A u \in Txs : PhaseOf(plan'[u]) = PhaseOf(plan[u])
    BY <1>b, <1>1
  <2> QED
    BY <2>1, Zenon
<1>c. ASSUME row'[t] \in Linked <=> row[t] \in Linked PROVE lv' = lv
  BY <1>c, <1>1
<1>5. CASE PlanKept(t)
  BY <1>5, <1>a, <1>b, <1>c DEF PlanKept
<1>6. CASE UNCHANGED <<plan[t], ladder[t]>> /\ row[t] \notin Linked /\ row'[t] \in Linked
  <2>1. ~lv[t] /\ lv' = [lv EXCEPT ![t] = TRUE]
    BY <1>2, <1>3, <1>6
  <2> QED
    BY <2>1, <1>6, <1>a, <1>b
<1>7. CASE /\ ladder'[t] = ladder[t] /\ (row[t] \in Linked <=> row'[t] \in Linked)
           /\ plan[t] = "none" /\ plan'[t] = "PENDING"
  <2>1. ph[t] = PhaseOf(plan[t]) /\ ph' = [ph EXCEPT ![t] = "planned"]
    BY <1>7, <1>2, <1>3, <1>4
  <2>2. LighterPlan!Plan(t)
    BY <1>7, <1>2, <1>3, <1>4, <1>a, <1>c, <2>1
  <2> QED
    BY <2>2
<1>8. CASE /\ ladder'[t] = ladder[t] /\ (row[t] \in Linked <=> row'[t] \in Linked)
           /\ plan[t] = "PENDING" /\ plan'[t] = "none" /\ row[t] \notin Linked
  <2>1. ph[t] = PhaseOf(plan[t]) /\ ph' = [ph EXCEPT ![t] = "none"]
    BY <1>8, <1>2, <1>3, <1>4
  <2>2. LighterPlan!Withdraw(t)
    BY <1>8, <1>2, <1>3, <1>4, <1>a, <1>c, <2>1
  <2> QED
    BY <2>2
<1>9. CASE /\ ladder'[t] = ladder[t] /\ (row[t] \in Linked <=> row'[t] \in Linked)
           /\ plan[t] = "PENDING" /\ plan'[t] = "CLAIMED" /\ row[t] \in Linked
  <2>1. ph[t] = PhaseOf(plan[t]) /\ ph' = [ph EXCEPT ![t] = "claimed"]
    BY <1>9, <1>2, <1>3, <1>4
  <2>2. LighterPlan!Claim(t)
    BY <1>9, <1>2, <1>3, <1>4, <1>a, <1>c, <2>1
  <2> QED
    BY <2>2
<1>10. CASE /\ plan[t] = "CLAIMED" /\ plan'[t] = "COMPLETED"
            /\ ladder'[t] = ladder[t] + 1
            /\ (row[t] \in Linked <=> row'[t] \in Linked)
  <2>1. ph[t] = PhaseOf(plan[t]) /\ ph' = [ph EXCEPT ![t] = "settled"]
    BY <1>10, <1>2, <1>3, <1>4
  <2>2. LighterPlan!Send(t)
    BY <1>10, <1>2, <1>3, <1>4, <1>c, <2>1
  <2> QED
    BY <2>2
<1> QED
  BY <1>5, <1>6, <1>7, <1>8, <1>9, <1>10 DEF PlanMoved

LEMMA LighterPlanInit == LighterInit => LighterPlan!Init
<1> SUFFICES ASSUME LighterInit PROVE LighterPlan!Init
  OBVIOUS
<1>1. \A t \in Txs : PhaseOf(plan[t]) = "none" /\ row[t] \notin Linked
  BY DEF LighterInit, PhaseOf, Linked
<1>2. [t \in Txs |-> PhaseOf(plan[t])] = [t \in Txs |-> "none"]
  BY <1>1
<1>3. [t \in Txs |-> row[t] \in Linked] = [t \in Txs |-> FALSE]
  <2>1. \A t \in Txs : (row[t] \in Linked) = FALSE
    BY <1>1
  <2> QED
    BY <2>1, Zenon
<1> QED
  BY <1>2, <1>3 DEF LighterInit, LighterPlan!Init

LEMMA LighterPlanStep ==
  LighterInv /\ CountInv /\ LinkInv /\ [LighterNext]_lighterVars
    => [LighterPlan!Next]_(LighterPlan!vars)
<1> SUFFICES ASSUME LighterInv, CountInv, LinkInv, [LighterNext]_lighterVars
             PROVE  [LighterPlan!Next]_(LighterPlan!vars)
  OBVIOUS
<1>1. LighterInv' /\ CountInv'
  BY LighterInvStep, CountInvNext
<1>2. /\ plan' \in [Txs -> {"none", "PENDING", "CLAIMED", "COMPLETED"}]
      /\ ladder' \in [Txs -> Nat]
  BY <1>1 DEF LighterInv, Types, CountInv, OtherTypes
<1>3. \A u \in Txs : PlanMoved(u)
  BY LinkSteps DEF LinkStep
<1>4. CASE \E t \in Txs : \A u \in Txs : u # t => PlanKept(u)
  BY <1>2, <1>3, <1>4, LighterPlanLift
<1>5. CASE \A u \in Txs : PlanKept(u)
  <2>1. CASE Txs = {}
    <3>1. ladder' = ladder
      BY <1>2, <2>1, LinkTypes
    <3> QED
      BY <2>1, <3>1 DEF LighterPlan!vars
  <2>2. CASE Txs # {}
    BY <1>4, <1>5, <2>2
  <2> QED
    BY <2>1, <2>2
<1> QED
  BY <1>4, <1>5, OneMoves

\* The handlers of Lighter implement ProtectionPlan: the plan of an order is
\* withdrawn only while its row is not linked, claimed only afterwards and by
\* one handler, and sent once, however events, waiters, the monitor, restarts
\* and error answers interleave (LighterExchange.placeOrder, placeProtections).
THEOREM LighterPlanImplemented == LighterSpec => LighterPlanSpec
<1>1. LighterInit => LighterInv /\ CountInv /\ LinkInv
  BY LighterInvInit, CountInvInit, LinkInvInit
<1>2. /\ LighterInv /\ CountInv /\ LinkInv /\ [LighterNext]_lighterVars
           => (LighterInv /\ CountInv /\ LinkInv)'
  BY LighterInvStep, CountInvNext, LinkInvNext
<1> QED
  BY <1>1, <1>2, LighterPlanInit, LighterPlanStep, PTL
     DEF LighterSpec, LighterPlanSpec, LighterPlan!Spec

\* What ProtectionPlan says of the ladders: one if the plan is settled, none before.
LighterSettled ==
  /\ ladder \in [Txs -> Nat]
  /\ \A t \in Txs : ladder[t] = IF PhaseOf(plan[t]) = "settled" THEN 1 ELSE 0

LEMMA LighterSettledStep ==
  LighterSettled /\ [LighterPlan!Next]_(LighterPlan!vars) => LighterSettled'
<1> SUFFICES ASSUME LighterSettled, [LighterPlan!Next]_(LighterPlan!vars)
             PROVE  LighterSettled'
  OBVIOUS
<1> DEFINE ph == [u \in Txs |-> PhaseOf(plan[u])]
<1>1. \A u \in Txs : ph[u] = PhaseOf(plan[u]) /\ ph'[u] = PhaseOf(plan'[u])
  OBVIOUS
<1>2. CASE UNCHANGED LighterPlan!vars
  <2>1. ph' = ph /\ ladder' = ladder
    BY <1>2 DEF LighterPlan!vars
  <2> QED
    BY <2>1, <1>1 DEF LighterSettled
<1>3. ASSUME NEW t \in Txs,
             \/ LighterPlan!Plan(t) \/ LighterPlan!Withdraw(t) \/ LighterPlan!Accept(t)
             \/ LighterPlan!Claim(t)
      PROVE  LighterSettled'
  <2>1. ladder' = ladder
    BY <1>3 DEF LighterPlan!Plan, LighterPlan!Withdraw, LighterPlan!Accept, LighterPlan!Claim
  <2>2. \/ ph' = ph
        \/ \E to \in {"none", "planned", "claimed"} :
             ph[t] \in {"none", "planned"} /\ ph' = [ph EXCEPT ![t] = to]
    BY <1>3 DEF LighterPlan!Plan, LighterPlan!Withdraw, LighterPlan!Accept,
         LighterPlan!Claim, LighterPlan!Step
  <2>3. \A u \in Txs : (ph'[u] = "settled") <=> (ph[u] = "settled")
    BY <2>2
  <2> QED
    BY <1>1, <2>1, <2>3 DEF LighterSettled
<1>4. ASSUME NEW t \in Txs, LighterPlan!Send(t) PROVE LighterSettled'
  <2>1. /\ ph[t] = "claimed" /\ ph' = [ph EXCEPT ![t] = "settled"]
        /\ ladder' = [ladder EXCEPT ![t] = @ + 1]
    BY <1>4 DEF LighterPlan!Send, LighterPlan!Step
  <2>2. ladder[t] = 0
    BY <1>1, <2>1 DEF LighterSettled
  <2>3. \A u \in Txs : ladder'[u] = IF ph'[u] = "settled" THEN 1 ELSE 0
    <3>1. /\ ladder \in [Txs -> Nat] /\ DOMAIN ph = Txs
          /\ \A u \in Txs : ladder[u] = IF ph[u] = "settled" THEN 1 ELSE 0
      BY <1>1 DEF LighterSettled
    <3> HIDE DEF ph
    <3> QED
      BY <2>1, <2>2, <3>1
  <2>4. ladder' \in [Txs -> Nat]
    BY <2>1, <2>2 DEF LighterSettled
  <2> QED
    BY <1>1, <2>3, <2>4 DEF LighterSettled
<1> QED
  BY <1>2, <1>3, <1>4 DEF LighterPlan!Next

\* The abstract plan is enough: whatever handlers implement the table as
\* ProtectionPlan has it, they place the protections of an order once.
THEOREM PlanProtectsOnce == LighterPlanSpec => []PlacedOnce
<1>1. LighterPlan!Init => LighterSettled
  <2> SUFFICES ASSUME LighterPlan!Init PROVE LighterSettled
    OBVIOUS
  <2> DEFINE ph == [u \in Txs |-> PhaseOf(plan[u])]
  <2>1. ph = [u \in Txs |-> "none"] /\ ladder = [u \in Txs |-> 0]
    BY DEF LighterPlan!Init
  <2>2. \A u \in Txs : PhaseOf(plan[u]) = ph[u] /\ ph[u] = "none"
    BY <2>1
  <2> QED
    BY <2>1, <2>2 DEF LighterSettled
<1>2. LighterSettled => PlacedOnce
  BY DEF LighterSettled, PlacedOnce
<1> QED
  BY <1>1, <1>2, LighterSettledStep, PTL DEF LighterPlanSpec, LighterPlan!Spec

-----------------------------------------------------------------------------
(* No nonce is used by two transactions *)

\* No two transactions the exchange took bear one nonce, and none bears one it
\* has not come to; so the nonce of a CONFIRMED row names one transaction.
NonceUsedOnce ==
  /\ \A t \in Txs : fate[t] = "taken" => journal[t].nonce < expect
  /\ \A t, u \in Txs :
       /\ fate[t] = "taken" /\ fate[u] = "taken"
       /\ journal[t].nonce = journal[u].nonce
       => t = u

\* The exchange goes on by the nonce of what it takes.
ExchangeMoved ==
  \/ UNCHANGED <<fate, expect>>
  \/ \E t \in Txs :
       /\ fate[t] # "taken"
       /\ \/ /\ fate' = [fate EXCEPT ![t] = "taken"] /\ expect' = expect + 1
             /\ journal[t].nonce = expect /\ UNCHANGED journal
          \/ expect' = expect /\ \E f \in {"nonce", "refused"} :
                                    fate' = [fate EXCEPT ![t] = f]

\* A row keeps its nonce once the exchange has its transaction.
NonceKept == \A t \in Txs : fate[t] = "taken" => journal'[t].nonce = journal[t].nonce

LEMMA ExchangeMoves ==
  ASSUME LighterInv, [LighterNext]_lighterVars PROVE ExchangeMoved
<1>1. CASE \E t \in Txs : Take(t) \/ Refuse(t)
  BY <1>1 DEF Take, Refuse, ExchangeMoved, LighterInv, TakenOnce
<1>2. CASE \/ \E t \in Txs : \/ PlaceOrder(t) \/ SaveOrder(t) \/ WaitForFill(t) \/ Lose(t)
                             \/ Fill(t) \/ LoseEvents(t) \/ OrderEvent(t) \/ TxEvent(t)
                             \/ PostFill(t) \/ Claim(t) \/ Place(t) \/ Monitor(t)
           \/ Submit \/ Crash \/ Stop \/ Start \/ UNCHANGED lighterVars
  <2>1. UNCHANGED <<fate, expect>>
    BY <1>2 DEF PlaceOrder, SaveOrder, WaitForFill, Lose, Fill, LoseEvents, OrderEvent,
       TxEvent, PostFill, Claim, Place, Monitor, Submit, Allocate, Sign, Send, Answer,
       Crash, Stop, Start, lighterVars, chain
  <2> QED
    BY <2>1 DEF ExchangeMoved
<1> QED
  BY <1>1, <1>2 DEF LighterNext

LEMMA NoncesKept ==
  ASSUME LighterInv, [LighterNext]_lighterVars PROVE NonceKept
<1>1. journal \in [Txs -> [nonce : Int, status : Statuses]]
  BY DEF LighterInv, Types
<1>2. CASE Allocate
  <2>1. Unsent(Current) /\ Current \in Txs
    BY <1>2, FirstQueued DEF Allocate
  <2>2. \A t \in Txs : t # Current => journal'[t] = journal[t]
    BY <1>1, <1>2 DEF Allocate
  <2> QED
    BY <2>1, <2>2 DEF NonceKept, Unsent
<1>3. CASE Sign \/ Send \/ Answer \/ \E t \in Txs : OrderEvent(t) \/ TxEvent(t)
  <2>1. UNCHANGED journal \/ \E t \in Txs, s \in Statuses :
                               journal' = [journal EXCEPT ![t].status = s]
    <3>1. CASE Sign \/ Send \/ Answer
      <4>1. Current \in Txs
        BY <3>1, FirstQueued DEF Sign, Send, Answer, LighterInv, Queued
      <4> QED
        BY <3>1, <4>1 DEF Sign, Send, Answer, Accepted, Rejected, Misread, TimedOut,
           Statuses, Undecided
    <3>2. CASE \E t \in Txs : OrderEvent(t) \/ TxEvent(t)
      BY <3>2 DEF OrderEvent, TxEvent, Finalized, Statuses
    <3> QED
      BY <1>3, <3>1, <3>2
  <2> QED
    BY <1>1, <2>1 DEF NonceKept
<1>4. CASE Start
  <2>1. \A t \in Txs : journal'[t] = journal[t]
          \/ \E s \in Statuses : journal'[t] = [journal[t] EXCEPT !.status = s]
    BY <1>4 DEF Start, Statuses, Undecided
  <2> QED
    BY <1>1, <2>1 DEF NonceKept
<1>5. CASE \/ \E t \in Txs : \/ PlaceOrder(t) \/ SaveOrder(t) \/ WaitForFill(t) \/ Lose(t)
                             \/ Take(t) \/ Refuse(t) \/ Fill(t) \/ LoseEvents(t)
                             \/ PostFill(t) \/ Claim(t) \/ Place(t) \/ Monitor(t)
           \/ Crash \/ Stop \/ UNCHANGED lighterVars
  <2>1. UNCHANGED journal
    BY <1>5 DEF PlaceOrder, SaveOrder, WaitForFill, Lose, Take, Refuse, Fill, LoseEvents,
       PostFill, Claim, Place, Monitor, Crash, Stop, lighterVars
  <2> QED
    BY <2>1 DEF NonceKept
<1> QED
  BY <1>2, <1>3, <1>4, <1>5 DEF LighterNext, Submit

LEMMA NonceOnceNext ==
  ASSUME LighterInv, NonceUsedOnce, [LighterNext]_lighterVars PROVE NonceUsedOnce'
<1>1. ExchangeMoved /\ NonceKept
  BY ExchangeMoves, NoncesKept
<1>2. /\ fate \in [Txs -> {"none", "taken", "nonce", "refused"}] /\ expect \in Int
      /\ \A t \in Txs : journal[t].nonce \in Int
  BY DEF LighterInv, Types
<1>3. CASE expect' = expect /\ \A t \in Txs : fate'[t] = "taken" => fate[t] = "taken"
  BY <1>1, <1>3 DEF NonceKept, NonceUsedOnce
<1>4. ASSUME NEW t \in Txs, fate[t] # "taken", fate' = [fate EXCEPT ![t] = "taken"],
             expect' = expect + 1, journal[t].nonce = expect, UNCHANGED journal
      PROVE  NonceUsedOnce'
  <2>1. \A u \in Txs : u # t => fate'[u] = fate[u]
    BY <1>2, <1>4
  <2> QED
    BY <1>2, <1>4, <2>1 DEF NonceUsedOnce
<1>5. ASSUME NEW t \in Txs, NEW f \in {"nonce", "refused"},
             expect' = expect, fate' = [fate EXCEPT ![t] = f]
      PROVE  NonceUsedOnce'
  <2>1. \A u \in Txs : fate'[u] = "taken" => fate[u] = "taken"
    BY <1>2, <1>5
  <2> QED
    BY <1>3, <1>5, <2>1
<1> QED
  BY <1>1, <1>3, <1>4, <1>5 DEF ExchangeMoved

\* A nonce is used by one transaction at most, whatever was lost, refused or
\* asked for again, and over restarts (submitNow, allocateNonce).
THEOREM NoncesUsedOnce == LighterSpec => []NonceUsedOnce
<1>1. LighterInit => NonceUsedOnce
  BY DEF LighterInit, NonceUsedOnce
<1> QED
  BY <1>1, LighterInvInit, LighterInvStep, NonceOnceNext, PTL DEF LighterSpec

=============================================================================
