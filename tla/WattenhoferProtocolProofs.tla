---------------------- MODULE WattenhoferProtocolProofs ----------------------
(***************************************************************************)
(* Proofs about the advisor, for every graph, every number of phases and   *)
(* rounds and every draw.  They are about an advisor's steps wherever it   *)
(* runs: the endpoint around it only notes neighbours that are matched,    *)
(* and never takes a match back.                                           *)
(***************************************************************************)
EXTENDS WattenhoferProtocol, SequenceTheorems, TLAPS

USE AdvisorAssumption

-----------------------------------------------------------------------------
(* Places                                                                  *)

StageNo(s) ==
  CASE s = "valid" -> 0 [] s = "select" -> 1 [] s = "eliminate" -> 2
    [] s = "match" -> 3 [] s = "cleanup" -> 4

\* How many stages lie before the select stage of a round, but one.
Base(p) == p.phase * (4 * RoundsPerPhase + 1) + 4 * p.round

\* A place where there is something to do.
Running(p) ==
  p.round < RoundsPerPhase /\ (p.stage = "valid" => p.round = 0)

SameRound(p, q) == p.phase = q.phase /\ p.round = q.round

LEMMA PositionOf ==
  ASSUME NEW p \in Place, Running(p)
  PROVE  /\ Base(p) \in Nat /\ StageNo(p.stage) \in 0..4
         /\ Position(p) = Base(p) + StageNo(p.stage)
<1>1. /\ p.phase \in Nat /\ p.round \in Nat /\ RoundsPerPhase \in Nat
      /\ p.round # RoundsPerPhase /\ p.stage \in Stage
  BY DEF Place, Running
<1>2. p.phase * (4 * RoundsPerPhase + 1) \in Nat
  BY <1>1
<1> QED BY <1>1, <1>2 DEF Position, Base, StageNo, Stage, Running

LEMMA PositionType ==
  ASSUME NEW p \in Place
  PROVE  Position(p) \in Nat
<1>1. p.phase \in Nat /\ p.round \in Nat /\ RoundsPerPhase \in Nat
  BY DEF Place
<1>2. p.phase * (4 * RoundsPerPhase + 1) \in Nat
  BY <1>1
<1> QED BY <1>1, <1>2 DEF Position, Place, Stage

LEMMA SameRoundBase ==
  ASSUME NEW p, NEW q, SameRound(p, q)
  PROVE  Base(p) = Base(q)
BY DEF SameRound, Base

\* The stage after cleanup is the next one, whichever it is.
LEMMA NextRound ==
  ASSUME NEW p \in Place, NEW q \in Place, Running(p), p.stage = "cleanup"
  PROVE  /\ /\ q.phase = p.phase /\ q.round = p.round + 1 /\ Running(q)
            /\ q.stage = "select"
            => Position(q) = Position(p) + 1
         /\ /\ q.phase = p.phase + 1 /\ p.round + 1 = RoundsPerPhase
            /\ q.round = RoundsPerPhase \/ (q.round = 0 /\ q.stage = "valid")
            => Position(q) = Position(p) + 1
<1>1. /\ p.phase \in Nat /\ p.round \in Nat /\ RoundsPerPhase \in Nat
      /\ q.phase \in Nat
  BY DEF Place
<1>2. Position(p) = Base(p) + 4
  BY PositionOf DEF StageNo
<1>3. ASSUME q.phase = p.phase, q.round = p.round + 1, Running(q),
             q.stage = "select"
      PROVE  Position(q) = Position(p) + 1
  <2>1. Position(q) = Base(q) + 1
    BY <1>3, PositionOf DEF StageNo
  <2>2. Base(q) = Base(p) + 4
    <3>1. p.phase * (4 * RoundsPerPhase + 1) \in Nat
      BY <1>1
    <3> QED BY <1>1, <1>3, <3>1 DEF Base
  <2>3. Base(p) \in Nat
    BY PositionOf
  <2> QED BY <1>2, <2>1, <2>2, <2>3
<1>4. ASSUME q.phase = p.phase + 1, p.round + 1 = RoundsPerPhase,
             q.round = RoundsPerPhase \/ (q.round = 0 /\ q.stage = "valid")
      PROVE  Position(q) = Position(p) + 1
  <2>1. p.phase * (4 * RoundsPerPhase + 1) \in Nat
    BY <1>1
  <2>2. (p.phase + 1) * (4 * RoundsPerPhase + 1)
          = p.phase * (4 * RoundsPerPhase + 1) + 4 * RoundsPerPhase + 1
    BY <1>1
  <2>3. q.phase * (4 * RoundsPerPhase + 1)
          = p.phase * (4 * RoundsPerPhase + 1) + 4 * RoundsPerPhase + 1
    BY <1>4, <2>2
  <2>4. Position(q) = q.phase * (4 * RoundsPerPhase + 1)
    <3>1. q.phase * (4 * RoundsPerPhase + 1) \in Nat
      BY <1>1, <2>1, <2>3
    <3>2. q.round = RoundsPerPhase \/ q.stage = "valid"
      BY <1>4
    <3> QED BY <1>1, <3>1, <3>2 DEF Position
  <2> QED BY <1>1, <1>2, <1>4, <2>1, <2>3, <2>4 DEF Base
<1> QED BY <1>3, <1>4

\* The stages of a round.
LEMMA NextStage ==
  ASSUME NEW p \in Place, NEW q \in Place, Running(p), SameRound(p, q),
         StageNo(q.stage) = StageNo(p.stage) + 1
  PROVE  Running(q) /\ Position(q) = Position(p) + 1
<1>1. q.stage # "valid"
  <2>1. StageNo("valid") = 0
    BY DEF StageNo
  <2>2. StageNo(p.stage) \in 0..4
    BY PositionOf
  <2> QED BY <2>1, <2>2
<1>2. Running(q)
  BY <1>1 DEF Running, SameRound
<1> QED BY <1>2, PositionOf, SameRoundBase

-----------------------------------------------------------------------------
(* The steps of an advisor                                                 *)

\* No match is taken back, and whoever is newly matched has no MATCH to send.
MatchesStay ==
  \A m \in Nodes :
    /\ matchedTo[m] # None => matchedTo'[m] # None
    /\ matchedTo[m] = None /\ matchedTo'[m] # None =>
         \A x \in outbox'[m] : x.type # "MATCH"

\* The start of a tick: the mailbox is drained and neighbours that are matched
\* are noted; whoever is matched itself may tell neighbours so.
Note(n) ==
  /\ At(n, "idle") /\ TakeMail(n)
  /\ \E S, R \in SUBSET Nodes :
       /\ \A m \in S : matchedTo[m] # None
       /\ R \subseteq Neighbors(n) /\ (R # {} => matchedTo'[n] # None)
       /\ Become(n, MarkUnavailable(advisor[n], S), ToAll(n, advisor[n], "MATCHED", R))
  /\ \E s \in {"retire", "start", "handle"} :
       /\ GoTo(n, s)
       /\ s = "start" => ~advisor[n].started
       /\ s = "handle" => advisor[n].started

StepOf(n) ==
  /\ MatchesStay
  /\ Send(n) \/ Note(n) \/ Retire(n) \/ Start(n) \/ Handle(n) \/ Settle(n)

AdvisorTypes ==
  /\ mailbox \in [Nodes -> Seq(Message)]
  /\ batch \in [Nodes -> Seq(Message)]
  /\ outbox \in [Nodes -> SUBSET Message]
  /\ step \in [Nodes -> {"idle", "retire", "start", "handle"}]
  /\ advisor \in [Nodes -> Advisor]

\* What is true of one advisor by itself.
WellFormed(n) ==
  LET a == advisor[n] IN
  /\ step[n] = "idle" => batch[n] = <<>>
  /\ step[n] = "start" => ~a.started
  /\ step[n] = "handle" => a.started
  /\ ~a.started => a.at = NewAdvisor.at
  /\ \/ Running(a.at) /\ a.at.phase < MaxPhases
     \/ a.terminal /\ a.at.round = RoundsPerPhase
  /\ a.candidates \cup a.valid \cup a.imposed \cup a.retained \subseteq Neighbors(n)

\* An endpoint whose advisor may still conclude something.
IsFree(n) == ~advisor[n].privatelyMatched /\ matchedTo[n] = None

\* The messages that n may have sent.
Staged(x) == x.type \notin {"CLEANUP", "MATCHED"}

StageOf(type) ==
  CASE type = "CANDIDATE" -> "valid" [] type = "SELECT" -> "select"
    [] type = "ELIMINATE" -> "eliminate" [] type = "MATCH" -> "match"

Sendable(x) ==
  /\ x \in Message /\ x.to \in Neighbors(x.from)
  /\ Position(x.at) <= Position(advisor[x.from].at)
  /\ Staged(x) => /\ advisor[x.from].started /\ Running(x.at)
                  /\ x.type # "SYNC" => x.at.stage = StageOf(x.type)
  /\ x.type = "CLEANUP" => ~IsFree(x.from)
  /\ x.type = "MATCHED" => matchedTo[x.from] # None

\* The messages a tick still has to handle and those of the next one.
Way(n) == batch[n] \o mailbox[n]

Travels(x) == \E i \in 1..Len(Way(x.to)) : Way(x.to)[i] = x

\* Not handled yet.
OnWay(x) == x \in outbox[x.from] \/ Travels(x)

WaysSound ==
  /\ \A n \in Nodes : \A i \in 1..Len(Way(n)) : Way(n)[i].to = n
  /\ \A x \in Message : OnWay(x) => Sendable(x)
  /\ \A n \in Nodes : \A x \in outbox[n] : x.from = n /\ x.at = advisor[n].at

\* Nobody has a notice of a stage that its sender has not come to.
SyncsSound ==
  \A n \in Nodes : \A s \in advisor[n].syncs :
    Position(s[2]) <= Position(advisor[s[1]].at) /\ advisor[s[1]].started

Basics == AdvisorTypes /\ (\A n \in Nodes : WellFormed(n)) /\ WaysSound /\ SyncsSound

LEMMA NeighborsSymmetric ==
  ASSUME NEW n \in Nodes, NEW m \in Neighbors(n)
  PROVE  m \in Nodes /\ n \in Neighbors(m)
<1>1. {n, m} = {m, n}
  OBVIOUS
<1> QED BY <1>1 DEF Neighbors

LEMMA ToAllType ==
  ASSUME NEW n \in Nodes, NEW a \in Advisor, NEW S \in SUBSET Neighbors(n),
         NEW t \in {"CANDIDATE", "SELECT", "ELIMINATE", "MATCH", "CLEANUP",
                    "SYNC", "MATCHED"}
  PROVE  \A x \in ToAll(n, a, t, S) :
           /\ x \in Message /\ x.from = n /\ x.to \in S /\ x.at = a.at
           /\ x.type = t
<1> TAKE x \in ToAll(n, a, t, S)
<1>1. PICK m \in S : x = [type |-> t, from |-> n, to |-> m, at |-> a.at]
  BY DEF ToAll
<1>2. m \in Nodes /\ a.at \in Place
  BY DEF Neighbors, Advisor
<1> QED BY <1>1, <1>2 DEF Message

\* What every step but a send does to the advisor and its outbox.
Grows(n) ==
  LET a == advisor[n]
      b == advisor'[n]
  IN
  /\ outbox[n] = {} /\ b \in Advisor
  /\ advisor' = [advisor EXCEPT ![n] = b]
  /\ outbox' = [outbox EXCEPT ![n] = outbox'[n]]
  /\ a.gone \subseteq b.gone /\ a.syncs \subseteq b.syncs
  /\ a.started => b.started
  /\ a.privatelyMatched => b.privatelyMatched
  /\ b.candidates \cup b.valid \cup b.imposed \cup b.retained \subseteq Neighbors(n)
  /\ \A x \in outbox'[n] :
       x \in Message /\ x.from = n /\ x.to \in Neighbors(n) /\ x.at = b.at

\* What finalising means to an advisor a that becomes b.
Finalizes(n, a, b) ==
  /\ CanFinalize(n, a)
  /\ b.privatelyMatched /\ b.advised \in Neighbors(n)
  /\ b.gone = a.gone \cup (Neighbors(n) \ {b.advised})

KeepsPromise(n, a, b) ==
  /\ b.privatelyMatched = a.privatelyMatched /\ b.advised = a.advised
  /\ b.gone = a.gone

LEMMA NoteEffects ==
  ASSUME Basics, NEW n \in Nodes, Note(n)
  PROVE  LET a == advisor[n]
             b == advisor'[n]
         IN
         /\ Grows(n)
         /\ b.at = a.at /\ b.retained = a.retained /\ b.syncs = a.syncs
         /\ b.started = a.started /\ b.choice = a.choice /\ b.notices = a.notices /\ b.terminal = a.terminal
         /\ b.privatelyMatched = a.privatelyMatched /\ b.advised = a.advised
         /\ \A m \in b.gone \ a.gone : matchedTo[m] # None
         /\ \A x \in outbox'[n] : x.type = "MATCHED" /\ matchedTo'[n] # None
<1> DEFINE a == advisor[n]
<1>1. PICK S, R \in SUBSET Nodes :
       /\ \A m \in S : matchedTo[m] # None
       /\ R \subseteq Neighbors(n) /\ (R # {} => matchedTo'[n] # None)
       /\ Become(n, MarkUnavailable(a, S), ToAll(n, a, "MATCHED", R))
  BY DEF Note
<1>2. a \in Advisor /\ outbox[n] = {} /\ n \in DOMAIN advisor /\ n \in DOMAIN outbox
  BY DEF Basics, AdvisorTypes, Note, At
<1> DEFINE b == MarkUnavailable(a, S)
<1>3. b \in Advisor
  BY <1>2 DEF MarkUnavailable, Advisor
<1>4. /\ b.at = a.at /\ b.retained = a.retained /\ b.syncs = a.syncs
      /\ b.started = a.started /\ b.choice = a.choice /\ b.notices = a.notices /\ b.terminal = a.terminal
      /\ b.privatelyMatched = a.privatelyMatched /\ b.advised = a.advised
      /\ b.gone = a.gone \cup S /\ b.valid = a.valid \ S
      /\ b.candidates = a.candidates /\ b.imposed = a.imposed
  BY <1>2 DEF MarkUnavailable, Advisor
<1>5. advisor'[n] = b /\ outbox'[n] = ToAll(n, a, "MATCHED", R)
  BY <1>1, <1>2 DEF Become
<1>6. \A x \in outbox'[n] :
        /\ x \in Message /\ x.from = n /\ x.to \in Neighbors(n) /\ x.at = b.at
        /\ x.type = "MATCHED" /\ matchedTo'[n] # None
  BY <1>1, <1>2, <1>4, <1>5, ToAllType
<1>7. a.candidates \cup a.valid \cup a.imposed \cup a.retained \subseteq Neighbors(n)
  BY DEF Basics, WellFormed
<1> HIDE DEF b
<1>8. Grows(n)
  BY <1>1, <1>2, <1>3, <1>4, <1>5, <1>6, <1>7 DEF Grows, Become, b
<1> QED BY <1>1, <1>4, <1>5, <1>6, <1>8

LEMMA RetireEffects ==
  ASSUME Basics, NEW n \in Nodes, Retire(n)
  PROVE  LET a == advisor[n]
             b == advisor'[n]
         IN
         /\ Grows(n)
         /\ b.at = a.at /\ b.retained = a.retained /\ b.syncs = a.syncs
         /\ b.started = a.started /\ b.choice = a.choice /\ b.notices = a.notices
         /\ b.gone = a.gone /\ b.advised = a.advised
         /\ a.terminal => b.terminal
         /\ b = a \/ (matchedTo[n] # None /\ b.terminal /\ b.privatelyMatched)
         /\ \A x \in outbox'[n] : x.type = "CLEANUP" /\ matchedTo[n] # None
<1> DEFINE a == advisor[n]
           b == [a EXCEPT !.privatelyMatched = TRUE, !.terminal = TRUE]
<1>1. a \in Advisor /\ outbox[n] = {} /\ n \in DOMAIN advisor /\ n \in DOMAIN outbox
  BY DEF Basics, AdvisorTypes, Retire, At
<1>2. a.candidates \cup a.valid \cup a.imposed \cup a.retained \subseteq Neighbors(n)
  BY DEF Basics, WellFormed
<1>3. CASE UNCHANGED <<advisor, outbox>>
  <2>1. /\ advisor = [advisor EXCEPT ![n] = advisor[n]]
        /\ outbox = [outbox EXCEPT ![n] = outbox[n]]
    BY DEF Basics, AdvisorTypes
  <2> QED BY <1>1, <1>2, <1>3, <2>1 DEF Grows
<1>4. CASE matchedTo[n] # None /\ Become(n, b, ToAll(n, a, "CLEANUP", Neighbors(n)))
  <2>1. /\ b \in Advisor /\ b.privatelyMatched /\ b.terminal
        /\ b.at = a.at /\ b.retained = a.retained /\ b.syncs = a.syncs
        /\ b.started = a.started /\ b.choice = a.choice /\ b.notices = a.notices
        /\ b.advised = a.advised /\ b.gone = a.gone /\ b.valid = a.valid
        /\ b.candidates = a.candidates /\ b.imposed = a.imposed
    BY <1>1 DEF Advisor
  <2>2. advisor'[n] = b /\ outbox'[n] = ToAll(n, a, "CLEANUP", Neighbors(n))
    BY <1>1, <1>4 DEF Become
  <2>3. \A x \in outbox'[n] :
          /\ x \in Message /\ x.from = n /\ x.to \in Neighbors(n) /\ x.at = b.at
          /\ x.type = "CLEANUP"
    BY <1>1, <2>1, <2>2, ToAllType
  <2> HIDE DEF b
  <2>4. Grows(n)
    BY <1>1, <1>2, <1>4, <2>1, <2>2, <2>3 DEF Grows, Become
  <2> QED BY <1>4, <2>1, <2>2, <2>3, <2>4
<1> QED BY <1>3, <1>4 DEF Retire

\* A phase begins with its candidates.
LEMMA BeginPhaseEffects ==
  ASSUME Basics, NEW n \in Nodes, outbox[n] = {}, NEW a \in Advisor,
         BeginPhase(n, a), a.retained \subseteq Neighbors(n),
         advisor[n].gone \subseteq a.gone, advisor[n].syncs \subseteq a.syncs,
         advisor[n].started => a.started,
         advisor[n].privatelyMatched => a.privatelyMatched
  PROVE  LET b == advisor'[n]
         IN
         /\ Grows(n)
         /\ b.at = [a.at EXCEPT !.stage = "valid"]
         /\ b.retained = a.retained /\ b.syncs = a.syncs
         /\ b.started = a.started /\ b.choice = a.choice /\ b.notices = a.notices /\ b.terminal = a.terminal
         /\ KeepsPromise(n, a, b)
         /\ \A x \in outbox'[n] : x.type \in {"CANDIDATE", "SYNC"}
<1> DEFINE c == Candidates(n, a)
           b == [a EXCEPT !.candidates = c, !.valid = {}, !.imposed = {},
                          !.at.stage = "valid"]
           M == ToAll(n, b, "CANDIDATE", c) \cup ToAll(n, b, "SYNC", Neighbors(n))
<1>1. n \in DOMAIN advisor /\ n \in DOMAIN outbox
  BY DEF Basics, AdvisorTypes
<1>2. c \in SUBSET Neighbors(n) /\ Neighbors(n) \subseteq Nodes
  BY DEF Candidates, Neighbors
<1> HIDE DEF c
<1>3. /\ b \in Advisor
      /\ b.at = [a.at EXCEPT !.stage = "valid"]
      /\ b.retained = a.retained /\ b.syncs = a.syncs
      /\ b.started = a.started /\ b.choice = a.choice /\ b.notices = a.notices /\ b.terminal = a.terminal
      /\ b.privatelyMatched = a.privatelyMatched
      /\ b.advised = a.advised /\ b.gone = a.gone /\ b.valid = {}
      /\ b.candidates = c /\ b.imposed = {}
  BY <1>2 DEF Advisor, Place, Stage
<1>4. Become(n, b, M)
  BY DEF BeginPhase, c
<1>5. advisor'[n] = b /\ outbox'[n] = M
  BY <1>1, <1>4 DEF Become
<1>6. \A x \in M :
          /\ x \in Message /\ x.from = n /\ x.to \in Neighbors(n) /\ x.at = b.at
          /\ x.type \in {"CANDIDATE", "SYNC"}
  <2> HIDE DEF b
  <2>1. \A x \in ToAll(n, b, "CANDIDATE", c) :
          /\ x \in Message /\ x.from = n /\ x.to \in Neighbors(n) /\ x.at = b.at
          /\ x.type \in {"CANDIDATE", "SYNC"}
    BY <1>2, <1>3, ToAllType
  <2>2. \A x \in ToAll(n, b, "SYNC", Neighbors(n)) :
          /\ x \in Message /\ x.from = n /\ x.to \in Neighbors(n) /\ x.at = b.at
          /\ x.type \in {"CANDIDATE", "SYNC"}
    BY <1>3, ToAllType
  <2> QED BY <2>1, <2>2
<1> HIDE DEF b, M
<1>7. Grows(n)
  BY <1>1, <1>2, <1>3, <1>4, <1>5, <1>6 DEF Grows, Become
<1> QED BY <1>3, <1>5, <1>6, <1>7 DEF KeepsPromise

LEMMA StartEffects ==
  ASSUME Basics, NEW n \in Nodes, Start(n)
  PROVE  LET a == advisor[n]
             b == advisor'[n]
         IN
         /\ Grows(n) /\ ~a.started /\ b.started
         /\ b.at = a.at /\ b.retained = a.retained /\ b.syncs = a.syncs
         /\ b.choice = a.choice /\ b.notices = a.notices /\ a.at = NewAdvisor.at /\ b.terminal = a.terminal
         /\ KeepsPromise(n, a, b)
         /\ \A x \in outbox'[n] : x.type \in {"CANDIDATE", "SYNC"}
<1> DEFINE a == advisor[n]
           b == [a EXCEPT !.started = TRUE]
<1>1. a \in Advisor /\ outbox[n] = {} /\ ~a.started /\ a.at = NewAdvisor.at
      /\ a.retained \subseteq Neighbors(n)
  BY DEF Basics, AdvisorTypes, Start, At, WellFormed
<1>2. /\ b \in Advisor /\ b.started /\ b.at = a.at
      /\ b.retained = a.retained /\ b.syncs = a.syncs /\ b.choice = a.choice /\ b.notices = a.notices
      /\ b.privatelyMatched = a.privatelyMatched /\ b.terminal = a.terminal
      /\ b.advised = a.advised /\ b.gone = a.gone
  BY <1>1 DEF Advisor
<1>3. BeginPhase(n, b)
  BY DEF Start
<1> HIDE DEF b
<1>4. [b.at EXCEPT !.stage = "valid"] = a.at
  BY <1>1, <1>2 DEF NewAdvisor
<1> QED BY <1>1, <1>2, <1>3, <1>4, BeginPhaseEffects DEF KeepsPromise

\* What a handler does with the head x of the batch.
LEMMA HandleEffects ==
  ASSUME Basics, NEW n \in Nodes, Handle(n)
  PROVE  LET a == advisor[n]
             b == advisor'[n]
             x == Head(batch[n])
         IN
         /\ x \in Message /\ x.to = n /\ OnWay(x)
         /\ batch[n] # <<>> /\ batch' = [batch EXCEPT ![n] = Tail(@)]
         /\ mailbox' = mailbox /\ step' = step /\ step[n] = "handle"
         /\ UNCHANGED endpoint
         /\ Grows(n)
         /\ b.at = a.at /\ b.started = a.started /\ b.terminal = a.terminal
         /\ b.choice = a.choice
         /\ \/ /\ b.notices = a.notices
               /\ ~(x.type = "MATCH" /\ SameRound(x.at, a.at))
            \/ /\ x.type = "MATCH" /\ SameRound(x.at, a.at)
               /\ b.notices = a.notices \cup {x.from}
               /\ a.choice = x.from => b.privatelyMatched \/ matchedTo[n] # None
         /\ a.retained \subseteq b.retained
         /\ \A k \in b.retained \ a.retained :
              x.type = "ELIMINATE" /\ SameRound(x.at, a.at) /\ x.from = k
         /\ x.type = "ELIMINATE" /\ SameRound(x.at, a.at) => x.from \in b.retained
         /\ \A s \in b.syncs \ a.syncs : x.type = "SYNC" /\ s = <<x.from, x.at>>
         /\ \/ /\ b.privatelyMatched = a.privatelyMatched /\ b.advised = a.advised
               /\ \A m \in b.gone \ a.gone : x.type = "CLEANUP" /\ m = x.from
               /\ outbox'[n] = {}
            \/ /\ x.type = "MATCH" /\ SameRound(x.at, a.at) /\ a.choice = x.from
               /\ Finalizes(n, a, b) /\ b.advised = x.from
               /\ \A y \in outbox'[n] : y.type = "CLEANUP"
<1> DEFINE a == advisor[n]
           b == advisor'[n]
           x == Head(batch[n])
<1>1. /\ a \in Advisor /\ outbox[n] = {} /\ step[n] = "handle" /\ batch[n] # <<>>
      /\ n \in DOMAIN advisor /\ n \in DOMAIN outbox
      /\ a.candidates \cup a.valid \cup a.imposed \cup a.retained \subseteq Neighbors(n)
  BY DEF Basics, AdvisorTypes, WellFormed, Handle, ReceiveCandidate, ReceiveSelect,
         ReceiveEliminate, ReceiveMatch, ReceiveCleanup, ReceiveSync,
         IgnoreMatched, Handling, At
<1>2. x \in Message /\ x.to = n /\ OnWay(x)
  <2>1. batch[n] \in Seq(Message) /\ mailbox[n] \in Seq(Message)
    BY DEF Basics, AdvisorTypes
  <2>2. /\ 1 \in 1..Len(Way(n))
        /\ Way(n)[1] = batch[n][1]
    <3>1. /\ Len(batch[n]) \in Nat \ {0} /\ Len(mailbox[n]) \in Nat
      BY <1>1, <2>1, EmptySeq, LenProperties
    <3>2. /\ Len(batch[n] \o mailbox[n]) = Len(batch[n]) + Len(mailbox[n])
          /\ \A i \in 1..Len(batch[n]) + Len(mailbox[n]) :
               (batch[n] \o mailbox[n])[i] = IF i <= Len(batch[n]) THEN batch[n][i]
                                             ELSE mailbox[n][i - Len(batch[n])]
      BY <2>1, ConcatProperties
    <3>3. \A p \in Nat \ {0}, q \in Nat : 1 \in 1..p + q /\ 1 <= p
      OBVIOUS
    <3>4. 1 \in 1..Len(batch[n]) + Len(mailbox[n]) /\ 1 <= Len(batch[n])
      BY <3>1, <3>3
    <3> QED BY <3>2, <3>4 DEF Way
  <2>3. x = batch[n][1] /\ x \in Message
    BY <1>1, <2>1, HeadTailProperties DEF Head
  <2>4. x.to = n
    <3>1. \A i \in 1..Len(Way(n)) : Way(n)[i].to = n
      BY DEF Basics, WaysSound
    <3> QED BY <2>2, <2>3, <3>1
  <2> QED BY <2>2, <2>3, <2>4 DEF OnWay, Travels
<1>3. x.from \in Nodes /\ x.from \in Neighbors(n) /\ x.at \in Place
  <2>1. x.from \in Nodes /\ x.at \in Place /\ n \in Neighbors(x.from)
    BY <1>2 DEF Basics, WaysSound, Sendable, Message
  <2> QED BY <2>1, NeighborsSymmetric
<1> HIDE DEF x
\* All handlers but one leave the advisor with another c and send nothing.
<1>4. ASSUME NEW c \in Advisor, Handled(n, c, {}),
             c.at = a.at, c.started = a.started, c.terminal = a.terminal,
             c.choice = a.choice, c.privatelyMatched = a.privatelyMatched,
             c.advised = a.advised,
             a.gone \subseteq c.gone, a.syncs \subseteq c.syncs,
             c.candidates \cup c.valid \cup c.imposed \cup c.retained \subseteq Neighbors(n)
      PROVE  /\ batch' = [batch EXCEPT ![n] = Tail(@)]
             /\ mailbox' = mailbox /\ step' = step /\ UNCHANGED endpoint
             /\ Grows(n) /\ b = c /\ outbox'[n] = {}
  BY <1>1, <1>4 DEF Handled, Become, Grows
<1>5. CASE ReceiveCandidate(n)
  <2> DEFINE c == IF x.from \in a.candidates /\ x.at.phase = a.at.phase
                  THEN [a EXCEPT !.valid = @ \cup {x.from}] ELSE a
  <2>1. /\ c \in Advisor /\ c.at = a.at /\ c.started = a.started
        /\ c.terminal = a.terminal /\ c.choice = a.choice /\ c.notices = a.notices
        /\ c.privatelyMatched = a.privatelyMatched
        /\ c.advised = a.advised /\ c.gone = a.gone /\ c.syncs = a.syncs
        /\ c.candidates \cup c.valid \cup c.imposed \cup c.retained \subseteq Neighbors(n)
        /\ c.retained = a.retained
    BY <1>1, <1>3 DEF Advisor
  <2>2. Handled(n, c, {}) /\ x.type = "CANDIDATE"
    BY <1>5 DEF ReceiveCandidate, Handling, x
  <2> HIDE DEF c
  <2>3. b = c /\ Grows(n) /\ outbox'[n] = {}
    BY <1>4, <2>1, <2>2
  <2> QED BY <1>1, <1>2, <1>4, <2>1, <2>2, <2>3 DEF x
<1>6. CASE ReceiveSelect(n)
  <2> DEFINE c == IF IsCurrentRound(a, x)
                  THEN [a EXCEPT !.imposed = @ \cup {x.from}] ELSE a
  <2>1. /\ c \in Advisor /\ c.at = a.at /\ c.started = a.started
        /\ c.terminal = a.terminal /\ c.choice = a.choice /\ c.notices = a.notices
        /\ c.privatelyMatched = a.privatelyMatched
        /\ c.advised = a.advised /\ c.gone = a.gone /\ c.syncs = a.syncs
        /\ c.candidates \cup c.valid \cup c.imposed \cup c.retained \subseteq Neighbors(n)
        /\ c.retained = a.retained
    BY <1>1, <1>3 DEF Advisor
  <2>2. Handled(n, c, {}) /\ x.type = "SELECT"
    BY <1>6 DEF ReceiveSelect, Handling, x
  <2> HIDE DEF c
  <2>3. b = c /\ Grows(n) /\ outbox'[n] = {}
    BY <1>4, <2>1, <2>2
  <2> QED BY <1>1, <1>2, <1>4, <2>1, <2>2, <2>3 DEF x
<1>7. CASE ReceiveEliminate(n)
  <2> DEFINE c == IF IsCurrentRound(a, x)
                  THEN [a EXCEPT !.retained = @ \cup {x.from}] ELSE a
  <2>1. /\ c \in Advisor /\ c.at = a.at /\ c.started = a.started
        /\ c.terminal = a.terminal /\ c.choice = a.choice /\ c.notices = a.notices
        /\ c.privatelyMatched = a.privatelyMatched
        /\ c.advised = a.advised /\ c.gone = a.gone /\ c.syncs = a.syncs
        /\ c.candidates \cup c.valid \cup c.imposed \cup c.retained \subseteq Neighbors(n)
        /\ c.retained = IF SameRound(x.at, a.at) THEN a.retained \cup {x.from}
                        ELSE a.retained
    BY <1>1, <1>3 DEF Advisor, IsCurrentRound, SameRound
  <2>2. Handled(n, c, {}) /\ x.type = "ELIMINATE"
    BY <1>7 DEF ReceiveEliminate, Handling, x
  <2> HIDE DEF c
  <2>3. b = c /\ Grows(n) /\ outbox'[n] = {}
    BY <1>4, <2>1, <2>2
  <2> QED BY <1>1, <1>2, <1>4, <2>1, <2>2, <2>3 DEF x
<1>8. CASE ReceiveMatch(n)
  <2> DEFINE c == [a EXCEPT !.notices = @ \cup {x.from}]
             d == [c EXCEPT !.privatelyMatched = TRUE, !.advised = x.from,
                            !.valid = {},
                            !.gone = @ \cup (Neighbors(n) \ {x.from})]
             M == ToAll(n, a, "CLEANUP", Neighbors(n) \ {x.from})
  <2>0. x.type = "MATCH"
    BY <1>8 DEF ReceiveMatch, Handling, x
  <2>1. /\ c \in Advisor /\ c.at = a.at /\ c.started = a.started
        /\ c.terminal = a.terminal /\ c.choice = a.choice /\ c.notices = a.notices \cup {x.from}
        /\ c.privatelyMatched = a.privatelyMatched
        /\ c.advised = a.advised /\ c.gone = a.gone /\ c.syncs = a.syncs
        /\ c.candidates \cup c.valid \cup c.imposed \cup c.retained \subseteq Neighbors(n)
        /\ c.retained = a.retained
    BY <1>1, <1>3 DEF Advisor
  <2>2. CASE /\ SameRound(x.at, a.at) /\ Handled(n, c, {})
             /\ a.choice = x.from => ~CanFinalize(n, a)
    <3>1. b = c /\ Grows(n) /\ outbox'[n] = {}
      BY <1>4, <2>1, <2>2
    <3>2. a.choice = x.from => b.privatelyMatched \/ matchedTo[n] # None
      BY <2>1, <2>2, <3>1 DEF CanFinalize
    <3> HIDE DEF c
    <3> QED BY <1>1, <1>2, <1>4, <2>0, <2>1, <2>2, <3>1, <3>2 DEF x
  <2>4. CASE ~SameRound(x.at, a.at) /\ Handled(n, a, {})
    <3>1. b = a /\ Grows(n) /\ outbox'[n] = {}
      BY <1>1, <1>4, <2>4
    <3> QED BY <1>1, <1>2, <1>4, <2>4, <3>1 DEF x
  <2>3. CASE /\ CanFinalize(n, a) /\ SameRound(x.at, a.at) /\ a.choice = x.from
             /\ Handled(n, d, M)
    <3>1. /\ d \in Advisor /\ d.at = a.at /\ d.started = a.started
          /\ d.terminal = a.terminal /\ d.choice = a.choice /\ d.notices = a.notices \cup {x.from}
          /\ d.privatelyMatched /\ d.advised = x.from /\ d.syncs = a.syncs
          /\ d.gone = a.gone \cup (Neighbors(n) \ {x.from})
          /\ d.candidates \cup d.valid \cup d.imposed \cup d.retained \subseteq Neighbors(n)
          /\ d.retained = a.retained
      BY <1>1, <1>3 DEF Advisor, Neighbors
    <3>2. \A y \in M :
            /\ y \in Message /\ y.from = n /\ y.to \in Neighbors(n) /\ y.at = a.at
            /\ y.type = "CLEANUP"
      BY <1>1, ToAllType
    <3> HIDE DEF d, M
    <3>3. b = d /\ outbox'[n] = M
      BY <1>1, <2>3 DEF Handled, Become
    <3>4. Grows(n)
      BY <1>1, <2>3, <3>1, <3>2, <3>3 DEF Handled, Become, Grows
    <3>5. Finalizes(n, a, b)
      BY <1>3, <2>3, <3>1, <3>3 DEF Finalizes
    <3> QED BY <1>1, <1>2, <2>0, <2>3, <3>1, <3>2, <3>3, <3>4, <3>5
            DEF x, Handled
  <2> QED BY <1>8, <2>1, <2>2, <2>3, <2>4
          DEF ReceiveMatch, x, IsCurrentRound, SameRound, Chose, Finalized,
              Cleanups, CanFinalize
<1>9. CASE ReceiveCleanup(n)
  <2> DEFINE c == MarkUnavailable(a, {x.from})
  <2>1. /\ c \in Advisor /\ c.at = a.at /\ c.started = a.started
        /\ c.terminal = a.terminal /\ c.choice = a.choice /\ c.notices = a.notices
        /\ c.privatelyMatched = a.privatelyMatched
        /\ c.advised = a.advised /\ c.gone = a.gone \cup {x.from} /\ c.syncs = a.syncs
        /\ c.candidates \cup c.valid \cup c.imposed \cup c.retained \subseteq Neighbors(n)
        /\ c.retained = a.retained
    BY <1>1, <1>3 DEF Advisor, MarkUnavailable
  <2>2. Handled(n, c, {}) /\ x.type = "CLEANUP"
    BY <1>9 DEF ReceiveCleanup, Handling, x
  <2> HIDE DEF c
  <2>3. b = c /\ Grows(n) /\ outbox'[n] = {}
    BY <1>4, <2>1, <2>2
  <2> QED BY <1>1, <1>2, <1>4, <2>1, <2>2, <2>3 DEF x
<1>10. CASE ReceiveSync(n)
  <2> DEFINE c == [a EXCEPT !.syncs = Record(a, x)]
  <2>1. /\ c \in Advisor /\ c.at = a.at /\ c.started = a.started
        /\ c.terminal = a.terminal /\ c.choice = a.choice /\ c.notices = a.notices
        /\ c.privatelyMatched = a.privatelyMatched
        /\ c.advised = a.advised /\ c.gone = a.gone
        /\ c.syncs = a.syncs \cup {<<x.from, x.at>>}
        /\ c.candidates \cup c.valid \cup c.imposed \cup c.retained \subseteq Neighbors(n)
        /\ c.retained = a.retained
    BY <1>1, <1>3 DEF Advisor, Record
  <2>2. Handled(n, c, {}) /\ x.type = "SYNC"
    BY <1>10 DEF ReceiveSync, Handling, x
  <2> HIDE DEF c
  <2>3. b = c /\ Grows(n) /\ outbox'[n] = {}
    BY <1>4, <2>1, <2>2
  <2> QED BY <1>1, <1>2, <1>4, <2>1, <2>2, <2>3 DEF x
<1>11. CASE IgnoreMatched(n)
  <2>1. Handled(n, a, {}) /\ x.type = "MATCHED"
    BY <1>11 DEF IgnoreMatched, Handling, x
  <2>2. b = a /\ Grows(n) /\ outbox'[n] = {}
    BY <1>1, <1>4, <2>1
  <2> QED BY <1>1, <1>2, <1>4, <2>1, <2>2 DEF x
<1> QED BY <1>5, <1>6, <1>7, <1>8, <1>9, <1>10, <1>11 DEF Handle

\* What an advisor becomes when it leaves its stage.
ToSelect(n) ==
  LET a == advisor[n]  b == advisor'[n] IN
  /\ a.at.stage \in {"valid", "cleanup"}
  /\ Running(b.at) /\ b.at.stage = "select" /\ b.at.phase = a.at.phase
  /\ b.retained = {} /\ b.notices = {} /\ b.choice = a.choice /\ KeepsPromise(n, a, b)
  /\ \A x \in outbox'[n] : x.type \in {"SELECT", "SYNC"}

ToEliminate(n) ==
  LET a == advisor[n]  b == advisor'[n] IN
  /\ a.at.stage = "select" /\ b.at = [a.at EXCEPT !.stage = "eliminate"]
  /\ a.retained \subseteq b.retained
  /\ \A m \in b.retained \ a.retained :
       \E x \in outbox'[n] : x.type = "ELIMINATE" /\ x.to = m
  /\ \A x \in outbox'[n] :
       \/ x.type = "SYNC"
       \/ x.type = "ELIMINATE" /\ x.to \in b.retained
  /\ b.choice = a.choice /\ b.notices = a.notices /\ KeepsPromise(n, a, b)

ToMatch(n) ==
  LET a == advisor[n]  b == advisor'[n] IN
  /\ a.at.stage = "eliminate" /\ b.at = [a.at EXCEPT !.stage = "match"]
  /\ b.retained = a.retained /\ b.notices = a.notices
  /\ \/ /\ KeepsPromise(n, a, b) /\ b.choice \notin a.notices
        /\ \A x \in outbox'[n] :
             \/ x.type = "SYNC"
             \/ x.type = "MATCH" /\ x.to \in a.retained /\ x.to = b.choice
     \/ /\ Finalizes(n, a, b) /\ b.advised = b.choice
        /\ b.advised \in a.retained /\ b.advised \in a.notices
        /\ \A x \in outbox'[n] :
             \/ x.type \in {"SYNC", "CLEANUP"}
             \/ x.type = "MATCH" /\ x.to = b.choice
  /\ \/ b.choice = None
     \/ /\ CanFinalize(n, a)
        /\ \E x \in outbox'[n] : x.type = "MATCH" /\ x.to = b.choice

ToCleanup(n) ==
  LET a == advisor[n]  b == advisor'[n] IN
  /\ a.at.stage = "match" /\ b.at = [a.at EXCEPT !.stage = "cleanup"]
  /\ b.retained = a.retained /\ b.choice = a.choice /\ b.notices = a.notices /\ KeepsPromise(n, a, b)
  /\ \A x \in outbox'[n] : x.type = "SYNC"

ToPhase(n) ==
  LET a == advisor[n]  b == advisor'[n] IN
  /\ a.at.stage = "cleanup"
  /\ b.at = [phase |-> a.at.phase + 1, round |-> 0, stage |-> "valid"]
  /\ b.at.phase < MaxPhases
  /\ b.choice = a.choice /\ b.notices = a.notices /\ KeepsPromise(n, a, b)
  /\ \A x \in outbox'[n] : x.type \in {"CANDIDATE", "SYNC"}

ToEnd(n) ==
  LET a == advisor[n]  b == advisor'[n] IN
  /\ a.at.stage = "cleanup"
  /\ b.terminal /\ b.at.round = RoundsPerPhase /\ b.at.stage = "cleanup"
  /\ b.choice = a.choice /\ b.notices = a.notices /\ KeepsPromise(n, a, b)
  /\ outbox'[n] = {}

\* An advisor leaves a stage when all expected notices are there, for the next.
Moves(n) ==
  LET a == advisor[n]  b == advisor'[n] IN
  /\ Synchronized(n, a) /\ Running(a.at)
  /\ Position(b.at) = Position(a.at) + 1
  /\ Grows(n) /\ b.started = a.started /\ b.syncs = a.syncs
  /\ ToSelect(n) \/ ToEliminate(n) \/ ToMatch(n) \/ ToCleanup(n) \/ ToPhase(n)
     \/ ToEnd(n)

\* The advisor of n becomes b, sends messages M and the SYNCs.
LEMMA EnterGrows ==
  ASSUME Basics, NEW n \in Nodes, outbox[n] = {}, NEW b \in Advisor, NEW M,
         Enter(n, b, M),
         \A x \in M : x \in Message /\ x.from = n /\ x.to \in Neighbors(n) /\ x.at = b.at,
         advisor[n].gone \subseteq b.gone, advisor[n].syncs \subseteq b.syncs,
         advisor[n].started => b.started,
         advisor[n].privatelyMatched => b.privatelyMatched,
         b.candidates \cup b.valid \cup b.imposed \cup b.retained \subseteq Neighbors(n)
  PROVE  /\ Grows(n) /\ advisor'[n] = b
         /\ M \subseteq outbox'[n]
         /\ \A x \in outbox'[n] : x \in M \/ x.type = "SYNC"
<1> DEFINE N == M \cup ToAll(n, b, "SYNC", Neighbors(n))
<1>1. n \in DOMAIN advisor /\ n \in DOMAIN outbox
  BY DEF Basics, AdvisorTypes
<1>2. Become(n, b, N)
  BY DEF Enter
<1>3. advisor'[n] = b /\ outbox'[n] = N
  BY <1>1, <1>2 DEF Become
<1>4. \A x \in ToAll(n, b, "SYNC", Neighbors(n)) :
        /\ x \in Message /\ x.from = n /\ x.to \in Neighbors(n) /\ x.at = b.at
        /\ x.type = "SYNC"
  BY ToAllType
<1>5. \A x \in N : x \in Message /\ x.from = n /\ x.to \in Neighbors(n) /\ x.at = b.at
  BY <1>4
<1> HIDE DEF N
<1>6. Grows(n)
  BY <1>2, <1>3, <1>5 DEF Grows, Become
<1> QED BY <1>3, <1>4, <1>6 DEF N

\* A message to a drawn neighbour, if one is drawn.
LEMMA ToType ==
  ASSUME NEW n \in Nodes, NEW a \in Advisor, NEW m \in Neighbors(n) \cup {None},
         NEW t \in {"SELECT", "ELIMINATE"}
  PROVE  /\ \A x \in To(n, a, t, m) :
              /\ x \in Message /\ x.from = n /\ x.to \in Neighbors(n) /\ x.at = a.at
              /\ x.type = t /\ x.to = m
         /\ m # None => \E x \in To(n, a, t, m) : x.type = t /\ x.to = m
<1>1. CASE m = None
  BY <1>1 DEF To
<1>2. CASE m # None
  <2>1. To(n, a, t, m) = ToAll(n, a, t, {m}) /\ {m} \in SUBSET Neighbors(n)
    BY <1>2 DEF To
  <2>2. \A x \in ToAll(n, a, t, {m}) :
          /\ x \in Message /\ x.from = n /\ x.to \in {m} /\ x.at = a.at
          /\ x.type = t
    BY <2>1, ToAllType
  <2>3. [type |-> t, from |-> n, to |-> m, at |-> a.at] \in ToAll(n, a, t, {m})
    BY DEF ToAll
  <2> QED BY <2>1, <2>2, <2>3
<1> QED BY <1>1, <1>2

LEMMA BeginSelectEffects ==
  ASSUME Basics, NEW n \in Nodes, outbox[n] = {}, NEW a \in Advisor,
         BeginSelect(n, a),
         a.candidates \cup a.valid \cup a.imposed \subseteq Neighbors(n),
         a.gone = advisor[n].gone, a.syncs = advisor[n].syncs,
         a.started = advisor[n].started, a.choice = advisor[n].choice,
         a.privatelyMatched = advisor[n].privatelyMatched,
         a.advised = advisor[n].advised, a.at.round < RoundsPerPhase,
         advisor[n].at.stage \in {"valid", "cleanup"},
         a.at.phase = advisor[n].at.phase
  PROVE  LET b == advisor'[n] IN
         /\ Grows(n) /\ b.at = [a.at EXCEPT !.stage = "select"]
         /\ b.started = a.started /\ b.syncs = a.syncs
         /\ ToSelect(n)
<1>1. PICK m \in Draws(a.valid) :
        LET b == [a EXCEPT !.selected = m, !.notices = {}, !.retained = {},
                       !.at.stage = "select"]
        IN Enter(n, b, To(n, b, "SELECT", m))
  BY DEF BeginSelect
<1> DEFINE b == [a EXCEPT !.selected = m, !.notices = {}, !.retained = {},
                          !.at.stage = "select"]
           M == To(n, b, "SELECT", m)
<1>2. m \in Neighbors(n) \cup {None} /\ m \in Nodes \cup {None}
  BY DEF Draws, Neighbors
<1>3. /\ b \in Advisor
      /\ b.at = [a.at EXCEPT !.stage = "select"]
      /\ b.retained = {} /\ b.syncs = a.syncs
      /\ b.started = a.started /\ b.choice = a.choice /\ b.notices = {}
      /\ b.privatelyMatched = a.privatelyMatched
      /\ b.advised = a.advised /\ b.gone = a.gone
      /\ b.candidates \cup b.valid \cup b.imposed \cup b.retained \subseteq Neighbors(n)
  BY <1>2 DEF Advisor, Place, Stage
<1>4. Enter(n, b, M)
  BY <1>1
<1> HIDE DEF b
<1>5. \A x \in M : /\ x \in Message /\ x.from = n /\ x.to \in Neighbors(n) /\ x.at = b.at
                   /\ x.type = "SELECT"
  BY <1>2, <1>3, ToType
<1> HIDE DEF M
<1>6. /\ Grows(n) /\ advisor'[n] = b
      /\ \A x \in outbox'[n] : x \in M \/ x.type = "SYNC"
  BY <1>3, <1>4, <1>5, EnterGrows
<1>7. Running(b.at) /\ b.at.stage = "select" /\ b.at.phase = a.at.phase
  BY <1>3 DEF Running, Advisor, Place
<1> QED BY <1>3, <1>5, <1>6, <1>7 DEF ToSelect, KeepsPromise

\* Where an advisor is that leaves a stage.
LEMMA LeavingFacts ==
  ASSUME Basics, NEW n \in Nodes, Settle(n), NEW stage, Leaving(n, stage)
  PROVE  LET a == advisor[n] IN
         /\ a \in Advisor /\ a.at \in Place /\ Running(a.at) /\ a.at.stage = stage
         /\ Synchronized(n, a) /\ outbox[n] = {}
         /\ a.candidates \cup a.valid \cup a.imposed \cup a.retained \subseteq Neighbors(n)
BY DEF Basics, AdvisorTypes, WellFormed, Settle, At, Leaving, Synchronized, Advisor

LEMMA BeginEliminateMoves ==
  ASSUME Basics, NEW n \in Nodes, Settle(n), BeginEliminate(n)
  PROVE  Moves(n)
<1> DEFINE a == advisor[n]
<1>1. /\ a \in Advisor /\ a.at \in Place /\ Running(a.at) /\ a.at.stage = "select"
      /\ Synchronized(n, a) /\ outbox[n] = {}
      /\ a.candidates \cup a.valid \cup a.imposed \cup a.retained \subseteq Neighbors(n)
  BY LeavingFacts DEF BeginEliminate
<1>2. PICK m \in Draws(a.imposed) :
       LET b == [a EXCEPT !.retained = @ \cup ({m} \ {None}),
                          !.at.stage = "eliminate"]
       IN Enter(n, b, To(n, b, "ELIMINATE", m))
  BY DEF BeginEliminate
<1> DEFINE b == [a EXCEPT !.retained = @ \cup ({m} \ {None}),
                          !.at.stage = "eliminate"]
           M == To(n, b, "ELIMINATE", m)
<1>3. m \in Neighbors(n) \cup {None} /\ {m} \ {None} \subseteq Nodes
  BY <1>1 DEF Draws, Neighbors
<1>4. /\ b \in Advisor
      /\ b.at = [a.at EXCEPT !.stage = "eliminate"]
      /\ b.retained = a.retained \cup ({m} \ {None}) /\ b.syncs = a.syncs
      /\ b.started = a.started /\ b.choice = a.choice /\ b.notices = a.notices
      /\ b.privatelyMatched = a.privatelyMatched
      /\ b.advised = a.advised /\ b.gone = a.gone
      /\ b.candidates \cup b.valid \cup b.imposed \cup b.retained \subseteq Neighbors(n)
  BY <1>1, <1>3 DEF Advisor, Place, Stage
<1>5. Enter(n, b, M)
  BY <1>2
<1> HIDE DEF b
<1>6. /\ \A x \in M : /\ x \in Message /\ x.from = n /\ x.to \in Neighbors(n) /\ x.at = b.at
                      /\ x.type = "ELIMINATE" /\ x.to = m
      /\ m # None => \E x \in M : x.type = "ELIMINATE" /\ x.to = m
  BY <1>3, <1>4, ToType
<1> HIDE DEF M
<1>7. /\ Grows(n) /\ advisor'[n] = b /\ M \subseteq outbox'[n]
      /\ \A x \in outbox'[n] : x \in M \/ x.type = "SYNC"
  BY <1>1, <1>4, <1>5, <1>6, EnterGrows
<1>8. Position(b.at) = Position(a.at) + 1
  <2>1. /\ b.at \in Place /\ SameRound(a.at, b.at)
        /\ b.at.stage = "eliminate"
    BY <1>1, <1>4 DEF Advisor, Place, SameRound
  <2> QED BY <1>1, <2>1, NextStage DEF StageNo
<1>9. None \notin Neighbors(n)
  BY DEF Neighbors
<1>10. ToEliminate(n)
  <2>1. \A k \in b.retained \ a.retained : \E x \in M : x.type = "ELIMINATE" /\ x.to = k
    BY <1>4, <1>6
  <2>2. \A x \in M : x.to \in b.retained
    BY <1>4, <1>6, <1>9
  <2> QED BY <1>1, <1>4, <1>6, <1>7, <2>1, <2>2 DEF ToEliminate, KeepsPromise
<1> QED BY <1>1, <1>4, <1>7, <1>8, <1>10 DEF Moves

LEMMA BeginCleanupMoves ==
  ASSUME Basics, NEW n \in Nodes, Settle(n), BeginCleanup(n)
  PROVE  Moves(n)
<1> DEFINE a == advisor[n]
           b == [a EXCEPT !.at.stage = "cleanup"]
<1>1. /\ a \in Advisor /\ a.at \in Place /\ Running(a.at) /\ a.at.stage = "match"
      /\ Synchronized(n, a) /\ outbox[n] = {}
      /\ a.candidates \cup a.valid \cup a.imposed \cup a.retained \subseteq Neighbors(n)
  BY LeavingFacts DEF BeginCleanup
<1>2. /\ b \in Advisor
      /\ b.at = [a.at EXCEPT !.stage = "cleanup"]
      /\ b.retained = a.retained /\ b.syncs = a.syncs
      /\ b.started = a.started /\ b.choice = a.choice /\ b.notices = a.notices
      /\ b.privatelyMatched = a.privatelyMatched
      /\ b.advised = a.advised /\ b.gone = a.gone
      /\ b.candidates \cup b.valid \cup b.imposed \cup b.retained \subseteq Neighbors(n)
  BY <1>1 DEF Advisor, Place, Stage
<1>3. Enter(n, b, {})
  BY DEF BeginCleanup
<1> HIDE DEF b
<1>4. /\ Grows(n) /\ advisor'[n] = b
      /\ \A x \in outbox'[n] : x.type = "SYNC"
  BY <1>1, <1>2, <1>3, EnterGrows
<1>5. Position(b.at) = Position(a.at) + 1
  <2>1. /\ b.at \in Place /\ SameRound(a.at, b.at)
        /\ b.at.stage = "cleanup"
    BY <1>1, <1>2 DEF Advisor, Place, SameRound
  <2> QED BY <1>1, <2>1, NextStage DEF StageNo
<1> QED BY <1>1, <1>2, <1>4, <1>5 DEF Moves, ToCleanup, KeepsPromise

LEMMA BeginMatchingMoves ==
  ASSUME Basics, NEW n \in Nodes, Settle(n), BeginMatching(n)
  PROVE  Moves(n)
<1> DEFINE a == advisor[n]
           c == [a EXCEPT !.choice = None, !.at.stage = "match"]
<1>1. /\ a \in Advisor /\ a.at \in Place /\ Running(a.at) /\ a.at.stage = "eliminate"
      /\ Synchronized(n, a) /\ outbox[n] = {}
      /\ a.candidates \cup a.valid \cup a.imposed \cup a.retained \subseteq Neighbors(n)
  BY LeavingFacts DEF BeginMatching
<1>2. None \notin Neighbors(n) /\ Neighbors(n) \subseteq Nodes /\ None \notin a.notices
  BY <1>1 DEF Neighbors, Advisor
\* All ways into the stage differ in the choice and in whether it is final.
<1>3. ASSUME NEW b \in Advisor, NEW M, Enter(n, b, M),
             b.at = [a.at EXCEPT !.stage = "match"],
             b.retained = a.retained, b.syncs = a.syncs, b.notices = a.notices,
             b.started = a.started, a.gone \subseteq b.gone,
             a.privatelyMatched => b.privatelyMatched,
             b.candidates \cup b.valid \cup b.imposed \cup b.retained \subseteq Neighbors(n),
             \A x \in M : /\ x \in Message /\ x.from = n /\ x.to \in Neighbors(n)
                          /\ x.at = b.at,
             \/ /\ KeepsPromise(n, a, b) /\ b.choice \notin a.notices
                /\ \A x \in M : x.type = "MATCH" /\ x.to \in a.retained /\ x.to = b.choice
             \/ /\ Finalizes(n, a, b) /\ b.advised = b.choice
                /\ b.advised \in a.retained /\ b.advised \in a.notices
                /\ \A x \in M : \/ x.type = "CLEANUP"
                                \/ x.type = "MATCH" /\ x.to = b.choice,
             \/ b.choice = None
             \/ CanFinalize(n, a) /\ \E x \in M : x.type = "MATCH" /\ x.to = b.choice
      PROVE  Moves(n)
  <2>1. /\ Grows(n) /\ advisor'[n] = b /\ M \subseteq outbox'[n]
        /\ \A x \in outbox'[n] : x \in M \/ x.type = "SYNC"
    BY <1>1, <1>3, EnterGrows
  <2>2. Position(b.at) = Position(a.at) + 1
    <3>1. /\ b.at \in Place /\ SameRound(a.at, b.at)
          /\ b.at.stage = "match"
      BY <1>1, <1>3 DEF Advisor, Place, SameRound
    <3> QED BY <1>1, <3>1, NextStage DEF StageNo
  <2>3. \/ /\ KeepsPromise(n, a, b) /\ b.choice \notin a.notices
           /\ \A x \in outbox'[n] :
                \/ x.type = "SYNC"
                \/ x.type = "MATCH" /\ x.to \in a.retained /\ x.to = b.choice
        \/ /\ Finalizes(n, a, b) /\ b.advised = b.choice
           /\ b.advised \in a.retained /\ b.advised \in a.notices
           /\ \A x \in outbox'[n] :
                \/ x.type \in {"SYNC", "CLEANUP"}
                \/ x.type = "MATCH" /\ x.to = b.choice
    BY <1>3, <2>1
  <2>4. \/ b.choice = None
        \/ CanFinalize(n, a) /\ \E x \in outbox'[n] : x.type = "MATCH" /\ x.to = b.choice
    BY <1>3, <2>1
  <2>5. ToMatch(n)
    BY <1>1, <1>3, <2>1, <2>3, <2>4 DEF ToMatch
  <2> QED BY <1>1, <1>3, <2>1, <2>2, <2>5 DEF Moves
<1>4. /\ c \in Advisor
      /\ c.at = [a.at EXCEPT !.stage = "match"] /\ c.choice = None
      /\ c.retained = a.retained /\ c.syncs = a.syncs /\ c.notices = a.notices
      /\ c.started = a.started
      /\ c.privatelyMatched = a.privatelyMatched
      /\ c.advised = a.advised /\ c.gone = a.gone
      /\ c.candidates = a.candidates /\ c.valid = a.valid /\ c.imposed = a.imposed
  BY <1>1 DEF Advisor, Place, Stage
<1>5. CASE Enter(n, c, {})
  <2> HIDE DEF c
  <2> QED BY <1>1, <1>2, <1>3, <1>4, <1>5 DEF KeepsPromise
<1>6. ASSUME NEW m \in a.retained, CanFinalize(n, c),
             LET b == [c EXCEPT !.choice = m] IN
             IF m \in c.notices
             THEN Enter(n, Finalized(n, b, m),
                        ToAll(n, b, "MATCH", {m}) \cup Cleanups(n, b, m))
             ELSE Enter(n, b, ToAll(n, b, "MATCH", {m}))
      PROVE  Moves(n)
  <2> DEFINE b == [c EXCEPT !.choice = m]
             d == [b EXCEPT !.privatelyMatched = TRUE, !.advised = m, !.valid = {},
                            !.gone = @ \cup (Neighbors(n) \ {m})]
             M == ToAll(n, b, "MATCH", {m})
             C == ToAll(n, b, "CLEANUP", Neighbors(n) \ {m})
  <2>1. m \in Neighbors(n) /\ m \in Nodes
    BY <1>1, <1>2
  <2>2. CanFinalize(n, a)
    BY <1>4, <1>6 DEF CanFinalize
  <2> HIDE DEF c
  <2>3. /\ b \in Advisor
        /\ b.at = [a.at EXCEPT !.stage = "match"] /\ b.choice = m
        /\ b.retained = a.retained /\ b.syncs = a.syncs /\ b.notices = a.notices
        /\ b.started = a.started
        /\ b.privatelyMatched = a.privatelyMatched
        /\ b.advised = a.advised /\ b.gone = a.gone
        /\ b.candidates = a.candidates /\ b.valid = a.valid /\ b.imposed = a.imposed
    BY <1>4, <2>1 DEF Advisor
  <2> HIDE DEF b
  <2>4. /\ d \in Advisor /\ d.at = b.at /\ d.choice = m
        /\ d.retained = a.retained /\ d.syncs = a.syncs /\ d.notices = a.notices
        /\ d.started = a.started /\ d.privatelyMatched /\ d.advised = m
        /\ d.gone = a.gone \cup (Neighbors(n) \ {m}) /\ d.valid = {}
        /\ d.candidates = a.candidates /\ d.imposed = a.imposed
    BY <1>2, <2>1, <2>3 DEF Advisor
  <2> HIDE DEF d
  <2>5. \A x \in M : /\ x \in Message /\ x.from = n /\ x.to \in Neighbors(n) /\ x.at = b.at
                     /\ x.type = "MATCH" /\ x.to = m
    <3>1. {m} \in SUBSET Neighbors(n)
      BY <2>1
    <3>2. \A x \in M : /\ x \in Message /\ x.from = n /\ x.to \in {m} /\ x.at = b.at
                       /\ x.type = "MATCH"
      BY <2>3, <3>1, ToAllType
    <3> QED BY <2>1, <3>2
  <2>6. \A x \in C : /\ x \in Message /\ x.from = n /\ x.to \in Neighbors(n) /\ x.at = b.at
                     /\ x.type = "CLEANUP"
    BY <2>3, ToAllType
  <2>7. [type |-> "MATCH", from |-> n, to |-> m, at |-> b.at] \in M
    BY DEF ToAll
  <2>8. \E x \in M : x.type = "MATCH" /\ x.to = m
    BY <2>7
  <2> HIDE DEF M, C
  <2>9. CASE m \notin a.notices /\ Enter(n, b, M)
    BY <1>1, <1>3, <2>2, <2>3, <2>5, <2>8, <2>9 DEF KeepsPromise
  <2>10. CASE m \in a.notices /\ Enter(n, d, M \cup C)
    <3>1. Finalizes(n, a, d)
      BY <2>1, <2>2, <2>4 DEF Finalizes
    <3>2. \A x \in M \cup C :
            /\ x \in Message /\ x.from = n /\ x.to \in Neighbors(n) /\ x.at = d.at
            /\ \/ x.type = "CLEANUP"
               \/ x.type = "MATCH" /\ x.to = d.choice
      BY <2>4, <2>5, <2>6
    <3>3. \E x \in M \cup C : x.type = "MATCH" /\ x.to = d.choice
      BY <2>4, <2>8
    <3>4. d.candidates \cup d.valid \cup d.imposed \cup d.retained \subseteq Neighbors(n)
      BY <1>1, <2>4
    <3> QED BY <1>3, <2>2, <2>3, <2>4, <2>10, <3>1, <3>2, <3>3, <3>4
  <2>11. CanFinalize(n, b)
    BY <2>2, <2>3 DEF CanFinalize
  <2>12. Finalized(n, b, m) = d /\ Cleanups(n, b, m) = C
    BY <2>11 DEF Finalized, Cleanups, d, C
  <2>13. c.notices = a.notices
    BY <1>4
  <2> QED BY <1>6, <2>9, <2>10, <2>12, <2>13 DEF b, M
<1>7. c.retained = a.retained
  BY <1>4
<1> QED BY <1>5, <1>6, <1>7 DEF BeginMatching, RetainedEdges

LEMMA EndRoundMoves ==
  ASSUME Basics, NEW n \in Nodes, Settle(n), EndRound(n)
  PROVE  Moves(n)
<1> DEFINE z == advisor[n]
           a == [z EXCEPT !.at.round = @ + 1, !.imposed = {}]
           b == [a EXCEPT !.at.phase = @ + 1]
<1>1. /\ z \in Advisor /\ z.at \in Place /\ Running(z.at) /\ z.at.stage = "cleanup"
      /\ Synchronized(n, z) /\ outbox[n] = {}
      /\ z.candidates \cup z.valid \cup z.imposed \cup z.retained \subseteq Neighbors(n)
  BY LeavingFacts DEF EndRound
<1>2. /\ z.at.phase \in 0..MaxPhases /\ z.at.round \in 0..RoundsPerPhase
      /\ z.at.round < RoundsPerPhase /\ z.at.stage = "cleanup"
  BY <1>1 DEF Place, Running
<1>3. /\ a \in Advisor /\ a.at = [z.at EXCEPT !.round = z.at.round + 1]
      /\ a.at.phase = z.at.phase /\ a.at.round = z.at.round + 1
      /\ a.at.stage = "cleanup" /\ a.terminal = z.terminal
      /\ a.retained = z.retained /\ a.syncs = z.syncs
      /\ a.started = z.started /\ a.choice = z.choice /\ a.notices = z.notices
      /\ a.privatelyMatched = z.privatelyMatched
      /\ a.advised = z.advised /\ a.gone = z.gone
      /\ a.candidates = z.candidates /\ a.valid = z.valid /\ a.imposed = {}
  <2>1. z.at.round + 1 \in 0..RoundsPerPhase
    BY <1>2
  <2> QED BY <1>1, <1>2, <2>1 DEF Advisor, Place
<1>4. CASE a.at.round < RoundsPerPhase /\ BeginSelect(n, a)
  <2> HIDE DEF a
  <2>1. a.candidates \cup a.valid \cup a.imposed \subseteq Neighbors(n)
    BY <1>1, <1>3
  <2>2. /\ Grows(n) /\ advisor'[n].at = [a.at EXCEPT !.stage = "select"]
        /\ advisor'[n].started = a.started /\ advisor'[n].syncs = a.syncs
        /\ ToSelect(n)
    BY <1>1, <1>3, <1>4, <2>1, BeginSelectEffects
  <2>3. Position(advisor'[n].at) = Position(z.at) + 1
    <3> DEFINE q == advisor'[n].at
    <3>1. /\ q \in Place /\ q.phase = z.at.phase /\ q.round = z.at.round + 1
          /\ q.stage = "select" /\ Running(q)
      BY <1>3, <1>4, <2>2 DEF Advisor, Place, Stage, Running, Grows
    <3> QED BY <1>1, <3>1, NextRound
  <2> QED BY <1>1, <1>3, <2>2, <2>3 DEF Moves
<1>5. CASE /\ a.at.round = RoundsPerPhase
           /\ IF IsOver(b)
              THEN Become(n, [b EXCEPT !.terminal = TRUE], {})
              ELSE BeginPhase(n, [b EXCEPT !.at.round = 0])
  <2>1. z.at.phase + 1 \in 0..MaxPhases
    BY <1>1, <1>2 DEF Basics, WellFormed, Synchronized
  <2>2. /\ b \in Advisor /\ b.at.phase = z.at.phase + 1
        /\ b.at.round = RoundsPerPhase /\ b.at \in Place
        /\ b.at.stage = "cleanup" /\ b.terminal = z.terminal
        /\ b.retained = z.retained /\ b.syncs = z.syncs
        /\ b.started = z.started /\ b.choice = z.choice /\ b.notices = z.notices
        /\ b.privatelyMatched = z.privatelyMatched
        /\ b.advised = z.advised /\ b.gone = z.gone
        /\ b.candidates = z.candidates /\ b.valid = z.valid /\ b.imposed = {}
    <3> HIDE DEF a
    <3>1. b.at = [a.at EXCEPT !.phase = z.at.phase + 1]
      BY <1>2, <1>3 DEF Advisor
    <3>2. b.at \in Place
      BY <1>2, <1>3, <2>1, <3>1 DEF Advisor, Place
    <3>3. b \in Advisor
      BY <1>3, <3>1, <3>2 DEF Advisor
    <3>4. b.at.phase = z.at.phase + 1 /\ b.at.round = RoundsPerPhase /\ b.at.stage = "cleanup"
      BY <1>2, <1>3, <1>5, <3>1 DEF Place, Advisor
    <3> QED BY <1>3, <3>2, <3>3, <3>4 DEF Advisor
  <2> HIDE DEF b
  <2>3. CASE Become(n, [b EXCEPT !.terminal = TRUE], {})
    <3> DEFINE c == [b EXCEPT !.terminal = TRUE]
    <3>1. /\ c \in Advisor /\ c.at = b.at /\ c.terminal
          /\ c.retained = z.retained /\ c.syncs = z.syncs
          /\ c.started = z.started /\ c.choice = z.choice /\ c.notices = z.notices
          /\ c.privatelyMatched = z.privatelyMatched
          /\ c.advised = z.advised /\ c.gone = z.gone
          /\ c.candidates = z.candidates /\ c.valid = z.valid /\ c.imposed = {}
      BY <2>2 DEF Advisor
    <3> HIDE DEF c
    <3>2. n \in DOMAIN advisor /\ n \in DOMAIN outbox
      BY DEF Basics, AdvisorTypes
    <3>3. advisor'[n] = c /\ outbox'[n] = {} /\ Grows(n)
      BY <1>1, <2>3, <3>1, <3>2 DEF Become, Grows, c
    <3>4. Position(c.at) = Position(z.at) + 1
      BY <1>1, <1>3, <1>5, <2>2, <3>1, NextRound
    <3>5. ToEnd(n)
      BY <1>1, <2>2, <3>1, <3>3 DEF ToEnd, KeepsPromise
    <3> QED BY <1>1, <3>1, <3>3, <3>4, <3>5 DEF Moves
  <2>4. CASE ~IsOver(b) /\ BeginPhase(n, [b EXCEPT !.at.round = 0])
    <3> DEFINE c == [b EXCEPT !.at.round = 0]
    <3>1. /\ c \in Advisor /\ c.at.phase = z.at.phase + 1 /\ c.at.round = 0
          /\ c.at = [phase |-> z.at.phase + 1, round |-> 0, stage |-> "cleanup"]
          /\ c.retained = z.retained /\ c.syncs = z.syncs
          /\ c.started = z.started /\ c.choice = z.choice /\ c.notices = z.notices
          /\ c.privatelyMatched = z.privatelyMatched
          /\ c.advised = z.advised /\ c.gone = z.gone
      BY <2>2 DEF Advisor, Place
    <3> HIDE DEF c
    <3>2. LET d == advisor'[n] IN
            /\ Grows(n)
            /\ d.at = [c.at EXCEPT !.stage = "valid"]
            /\ d.syncs = c.syncs /\ d.started = c.started /\ d.choice = c.choice /\ d.notices = c.notices
            /\ KeepsPromise(n, c, d)
            /\ \A x \in outbox'[n] : x.type \in {"CANDIDATE", "SYNC"}
      <4>1. BeginPhase(n, c) /\ c.retained \subseteq Neighbors(n)
        BY <1>1, <2>4, <3>1 DEF c
      <4> QED BY <1>1, <3>1, <4>1, BeginPhaseEffects
    <3> DEFINE q == advisor'[n].at
    <3>3. q = [phase |-> z.at.phase + 1, round |-> 0, stage |-> "valid"]
      BY <3>1, <3>2
    <3>4. q \in Place
      BY <3>2 DEF Grows, Advisor
    <3>5. Position(q) = Position(z.at) + 1
      BY <1>1, <1>3, <1>5, <3>3, <3>4, NextRound
    <3>6. ToPhase(n)
      <4>1. z.at.phase + 1 < MaxPhases
        BY <1>2, <2>2, <2>4 DEF IsOver
      <4> QED BY <1>1, <3>1, <3>2, <3>3, <4>1 DEF ToPhase, KeepsPromise
    <3> QED BY <1>1, <3>1, <3>2, <3>5, <3>6 DEF Moves
  <2> QED BY <1>5, <2>3, <2>4
<1> QED BY <1>4, <1>5 DEF EndRound

LEMMA SettleEffects ==
  ASSUME Basics, NEW n \in Nodes, Settle(n)
  PROVE  /\ step[n] = "handle" /\ batch[n] = <<>> /\ GoTo(n, "idle")
         /\ UNCHANGED <<mailbox, batch>>
         /\ Moves(n) \/ UNCHANGED <<advisor, outbox>>
<1>1. ASSUME Leaving(n, "valid"), BeginSelect(n, advisor[n])
      PROVE  Moves(n)
  <2> DEFINE a == advisor[n]
             q == advisor'[n].at
  <2>1. /\ a \in Advisor /\ a.at \in Place /\ Running(a.at) /\ a.at.stage = "valid"
        /\ Synchronized(n, a) /\ outbox[n] = {}
        /\ a.candidates \cup a.valid \cup a.imposed \cup a.retained \subseteq Neighbors(n)
    BY <1>1, LeavingFacts
  <2>2. a.at.round < RoundsPerPhase
    BY <2>1 DEF Running
  <2>3. /\ Grows(n) /\ q = [a.at EXCEPT !.stage = "select"]
        /\ advisor'[n].started = a.started /\ advisor'[n].syncs = a.syncs
        /\ ToSelect(n)
    BY <1>1, <2>1, <2>2, BeginSelectEffects
  <2>4. q \in Place /\ SameRound(a.at, q) /\ q.stage = "select"
    BY <2>1, <2>3 DEF Grows, Advisor, Place, SameRound
  <2>5. Position(q) = Position(a.at) + 1
    BY <2>1, <2>4, NextStage DEF StageNo
  <2> QED BY <2>1, <2>3, <2>5 DEF Moves
<1>2. Moves(n) \/ UNCHANGED <<advisor, outbox>>
  BY <1>1, BeginEliminateMoves, BeginMatchingMoves, BeginCleanupMoves, EndRoundMoves
     DEF Settle, Advance
<1> QED BY <1>2 DEF Settle, At

-----------------------------------------------------------------------------
(* The ways                                                                *)

\* Taking the head off a queue takes it off what is appended to the queue.
LEMMA ConcatTail ==
  ASSUME NEW S, NEW b \in Seq(S), NEW q \in Seq(S), b # <<>>
  PROVE  /\ b \o q \in Seq(S)
         /\ b \o q # <<>>
         /\ Head(b \o q) = Head(b)
         /\ Tail(b) \o q = Tail(b \o q)
<1>1. /\ Len(b \o q) = Len(b) + Len(q) /\ b \o q \in Seq(S)
      /\ \A i \in 1..Len(b \o q) : (b \o q)[i] = IF i <= Len(b) THEN b[i] ELSE q[i - Len(b)]
  BY ConcatProperties
<1>2. Len(b) > 0 /\ Len(b) \in Nat /\ Len(q) \in Nat
  BY EmptySeq, LenProperties
<1>3. b \o q # <<>>
  BY <1>1, <1>2
<1>4. Head(b \o q) = Head(b)
  BY <1>1, <1>2, <1>3, HeadTailProperties
<1>5. /\ Tail(b) \in Seq(S) /\ Len(Tail(b)) = Len(b) - 1
      /\ \A i \in 1..Len(Tail(b)) : Tail(b)[i] = b[i + 1]
  BY HeadTailProperties
<1>6. /\ Tail(b \o q) \in Seq(S) /\ Len(Tail(b \o q)) = Len(b) + Len(q) - 1
      /\ \A i \in 1..Len(Tail(b \o q)) : Tail(b \o q)[i] = (b \o q)[i + 1]
  BY <1>1, <1>3, HeadTailProperties
<1>7. /\ Tail(b) \o q \in Seq(S) /\ Len(Tail(b) \o q) = Len(b) - 1 + Len(q)
      /\ \A i \in 1..Len(Tail(b) \o q) :
           (Tail(b) \o q)[i] = IF i <= Len(b) - 1 THEN Tail(b)[i] ELSE q[i - (Len(b) - 1)]
  BY <1>5, ConcatProperties
<1>8. \A i \in 1..Len(Tail(b) \o q) : (Tail(b) \o q)[i] = Tail(b \o q)[i]
  BY <1>1, <1>2, <1>5, <1>6, <1>7
<1>9. Tail(b) \o q = Tail(b \o q)
  BY <1>6, <1>7, <1>8, SeqEqual
<1>10. QED
  BY <1>1, <1>3, <1>4, <1>9

\* Appending to the second of two queues appends to both.
LEMMA ConcatAppend ==
  ASSUME NEW S, NEW b \in Seq(S), NEW q \in Seq(S), NEW x \in S
  PROVE  b \o Append(q, x) = Append(b \o q, x)
<1>1. Append(q, x) = q \o <<x>> /\ <<x>> \in Seq(S)
  BY AppendIsConcat
<1>2. b \o (q \o <<x>>) = (b \o q) \o <<x>>
  BY <1>1, ConcatAssociative
<1>3. b \o q \in Seq(S)
  BY ConcatProperties
<1>4. QED
  BY <1>1, <1>2, <1>3, AppendIsConcat

LEMMA WayType ==
  ASSUME Basics, NEW n \in Nodes
  PROVE  /\ batch[n] \in Seq(Message) /\ mailbox[n] \in Seq(Message)
         /\ Way(n) \in Seq(Message) /\ Len(Way(n)) \in Nat
         /\ \A i \in 1..Len(Way(n)) : Way(n)[i] \in Message
<1>1. batch[n] \in Seq(Message) /\ mailbox[n] \in Seq(Message)
  BY DEF Basics, AdvisorTypes
<1>2. Way(n) \in Seq(Message)
  BY <1>1, ConcatProperties DEF Way
<1> QED BY <1>1, <1>2, LenProperties, ElementOfSeq

\* A message handler takes the first message off the way to n.
LEMMA WayHandle ==
  ASSUME Basics, NEW n \in Nodes, Handle(n)
  PROVE  /\ Way(n) # <<>> /\ Head(Way(n)) = Head(batch[n])
         /\ Way(n)' = Tail(Way(n))
         /\ \A r \in Nodes \ {n} : Way(r)' = Way(r)
         /\ \A i \in 1..Len(Tail(Way(n))) :
              i + 1 \in 1..Len(Way(n)) /\ Way(n)[i + 1] = Tail(Way(n))[i]
<1>1. /\ batch[n] # <<>> /\ mailbox' = mailbox
      /\ batch' = [batch EXCEPT ![n] = Tail(@)]
  BY HandleEffects
<1>2. /\ batch'[n] = Tail(batch[n])
      /\ \A r \in Nodes \ {n} : batch'[r] = batch[r]
  BY <1>1 DEF Basics, AdvisorTypes
<1>3. /\ batch[n] \o mailbox[n] # <<>>
      /\ Head(batch[n] \o mailbox[n]) = Head(batch[n])
      /\ Tail(batch[n]) \o mailbox[n] = Tail(batch[n] \o mailbox[n])
  <2>1. \A b, q \in Seq(Message) : b # <<>> =>
          /\ b \o q # <<>>
          /\ Head(b \o q) = Head(b)
          /\ Tail(b) \o q = Tail(b \o q)
    BY ConcatTail
  <2> QED BY <1>1, <2>1, WayType
<1>4. Way(n) # <<>> /\ Way(n) \in Seq(Message)
  BY <1>3, WayType DEF Way
<1>5. \A i \in 1..Len(Tail(Way(n))) :
        i + 1 \in 1..Len(Way(n)) /\ Way(n)[i + 1] = Tail(Way(n))[i]
  BY <1>4, HeadTailProperties, LenProperties
<1> QED BY <1>1, <1>2, <1>3, <1>4, <1>5 DEF Way

\* A send puts one message at the end of the way to its recipient.
LEMMA WaySend ==
  ASSUME Basics, NEW n \in Nodes, Send(n)
  PROVE  \E m \in outbox[n] :
           /\ m \in Message /\ m.to \in Nodes /\ m.from = n
           /\ \A k \in outbox[n] : Turn(m) <= Turn(k)
           /\ outbox' = [outbox EXCEPT ![n] = @ \ {m}]
           /\ mailbox' = [mailbox EXCEPT ![m.to] = Append(@, m)]
           /\ Way(m.to)' = Append(Way(m.to), m)
           /\ \A r \in Nodes \ {m.to} : Way(r)' = Way(r)
           /\ \A i \in 1..Len(Append(Way(m.to), m)) :
                \/ i \in 1..Len(Way(m.to)) /\ Append(Way(m.to), m)[i] = Way(m.to)[i]
                \/ i = Len(Way(m.to)) + 1 /\ Append(Way(m.to), m)[i] = m
           /\ Len(Append(Way(m.to), m)) = Len(Way(m.to)) + 1
           /\ Append(Way(m.to), m)[Len(Way(m.to)) + 1] = m
<1>1. PICK m \in outbox[n] :
        /\ \A k \in outbox[n] : Turn(m) <= Turn(k)
        /\ mailbox' = [mailbox EXCEPT ![m.to] = Append(@, m)]
        /\ outbox' = [outbox EXCEPT ![n] = @ \ {m}]
        /\ batch' = batch
  BY DEF Send
<1>2. m \in Message /\ m.to \in Nodes /\ m.from = n
  BY DEF Basics, AdvisorTypes, Message, WaysSound
<1>3. /\ mailbox'[m.to] = Append(mailbox[m.to], m)
      /\ \A r \in Nodes \ {m.to} : mailbox'[r] = mailbox[r]
  BY <1>1, <1>2 DEF Basics, AdvisorTypes
<1>4. Way(m.to)' = Append(Way(m.to), m)
  <2>1. batch[m.to] \o Append(mailbox[m.to], m)
          = Append(batch[m.to] \o mailbox[m.to], m)
    <3>1. batch[m.to] \in Seq(Message) /\ mailbox[m.to] \in Seq(Message)
      BY <1>2, WayType
    <3>2. \A b, q \in Seq(Message) : b \o Append(q, m) = Append(b \o q, m)
      BY <1>2, ConcatAppend
    <3> QED BY <3>1, <3>2, Zenon
  <2> QED BY <1>1, <1>3, <2>1 DEF Way
<1>5. Way(m.to) \in Seq(Message) /\ Len(Way(m.to)) \in Nat
  BY <1>2, WayType
<1>6. /\ \A i \in 1..Len(Append(Way(m.to), m)) :
           \/ i \in 1..Len(Way(m.to)) /\ Append(Way(m.to), m)[i] = Way(m.to)[i]
           \/ i = Len(Way(m.to)) + 1 /\ Append(Way(m.to), m)[i] = m
      /\ Len(Append(Way(m.to), m)) = Len(Way(m.to)) + 1
      /\ Append(Way(m.to), m)[Len(Way(m.to)) + 1] = m
  BY <1>2, <1>5, AppendProperties
<1> QED BY <1>1, <1>2, <1>3, <1>4, <1>6 DEF Way

\* No other step moves a message.
LEMMA WayElse ==
  ASSUME Basics, NEW n \in Nodes, Note(n) \/ Retire(n) \/ Start(n) \/ Settle(n),
         NEW r \in Nodes
  PROVE  Way(r)' = Way(r)
<1>1. CASE Note(n)
  <2>1. /\ batch' = [batch EXCEPT ![n] = mailbox[n]]
        /\ mailbox' = [mailbox EXCEPT ![n] = <<>>]
        /\ batch[n] = <<>>
    BY <1>1 DEF Note, At, TakeMail, Basics, WellFormed
  <2>2. CASE r = n
    BY <2>1, <2>2, WayType, ConcatEmptySeq DEF Way, Basics, AdvisorTypes
  <2>3. CASE r # n
    BY <2>1, <2>3 DEF Way, Basics, AdvisorTypes
  <2> QED BY <2>2, <2>3
<1>2. CASE Retire(n) \/ Start(n) \/ Settle(n)
  BY <1>2 DEF Retire, Start, Settle, Way
<1> QED BY <1>1, <1>2

LEMMA StepGrows ==
  ASSUME Basics, NEW n \in Nodes, StepOf(n)
  PROVE  \/ Send(n) /\ UNCHANGED <<advisor, step>>
         \/ Settle(n) /\ UNCHANGED <<advisor, outbox>>
         \/ Settle(n) /\ Moves(n) /\ Grows(n)
         \/ /\ Note(n) \/ Retire(n) \/ Start(n) \/ Handle(n)
            /\ Grows(n) /\ advisor'[n].at = advisor[n].at
<1>1. CASE Send(n)
  BY <1>1 DEF Send
<1>2. CASE Settle(n)
  BY <1>2, SettleEffects DEF Moves
<1>3. CASE Note(n)
  BY <1>3, NoteEffects
<1>4. CASE Retire(n)
  BY <1>4, RetireEffects
<1>5. CASE Start(n)
  BY <1>5, StartEffects
<1>6. CASE Handle(n)
  BY <1>6, HandleEffects
<1> QED BY <1>1, <1>2, <1>3, <1>4, <1>5, <1>6 DEF StepOf

\* Advisors go forward only, and know more and more.
LEMMA Forward ==
  ASSUME Basics, NEW n \in Nodes, StepOf(n), NEW k \in Nodes
  PROVE  /\ advisor'[k] \in Advisor
         /\ k # n => advisor'[k] = advisor[k]
         /\ Position(advisor[k].at) <= Position(advisor'[k].at)
         /\ advisor[k].started => advisor'[k].started
         /\ advisor[k].gone \subseteq advisor'[k].gone
         /\ advisor[k].syncs \subseteq advisor'[k].syncs
         /\ IsFree(k)' => IsFree(k)
<1>1. advisor[k] \in Advisor /\ Position(advisor[k].at) \in Nat
  BY PositionType DEF Basics, AdvisorTypes, Advisor
<1>2. matchedTo'[k] = None => matchedTo[k] = None
  BY DEF StepOf, MatchesStay
<1>3. CASE UNCHANGED advisor
  BY <1>1, <1>2, <1>3 DEF IsFree
<1>4. CASE Grows(n)
  <2>1. k # n => advisor'[k] = advisor[k]
    BY <1>4 DEF Grows, Basics, AdvisorTypes
  <2>2. /\ advisor'[n] \in Advisor
        /\ advisor[n].started => advisor'[n].started
        /\ advisor[n].gone \subseteq advisor'[n].gone
        /\ advisor[n].syncs \subseteq advisor'[n].syncs
        /\ advisor[n].privatelyMatched => advisor'[n].privatelyMatched
    BY <1>4 DEF Grows
  <2>3. Position(advisor'[n].at) \in {Position(advisor[n].at), Position(advisor[n].at) + 1}
    BY <1>4, StepGrows DEF Moves
  <2> QED BY <1>1, <1>2, <2>1, <2>2, <2>3 DEF IsFree
<1> QED BY <1>3, <1>4, StepGrows

LEMMA OutboxFrame ==
  ASSUME Basics, NEW n \in Nodes, StepOf(n)
  PROVE  /\ \A o \in Nodes \ {n} : outbox'[o] = outbox[o]
         /\ Send(n) \/ outbox[n] = {}
<1>1. CASE Send(n)
  <2>1. PICK m \in outbox[n] : outbox' = [outbox EXCEPT ![n] = @ \ {m}]
    BY <1>1 DEF Send
  <2> QED BY <1>1, <2>1 DEF Basics, AdvisorTypes
<1>2. CASE Settle(n) /\ UNCHANGED <<advisor, outbox>>
  BY <1>2 DEF Settle, At
<1>3. CASE Grows(n)
  BY <1>3 DEF Grows, Basics, AdvisorTypes
<1> QED BY <1>1, <1>2, <1>3, StepGrows

\* A message on its way was so before, unless the step queued it.
LEMMA OnWayStep ==
  ASSUME Basics, NEW n \in Nodes, StepOf(n), NEW x \in Message,
         OnWay(x)'
  PROVE  \/ OnWay(x)
         \/ x \in outbox'[n] /\ Grows(n) /\ x.from = n
<1> USE DEF OnWay
<1>0. x.to \in Nodes /\ x.from \in Nodes
  BY DEF Message
<1>1. ASSUME ~Send(n), Travels(x)' PROVE Travels(x)
  <2>1. CASE Handle(n)
    <3>1. CASE x.to = n
      <4>1. PICK i \in 1..Len(Tail(Way(n))) : Tail(Way(n))[i] = x
        BY <1>1, <2>1, <3>1, WayHandle DEF Travels
      <4> QED BY <2>1, <3>1, <4>1, WayHandle DEF Travels
    <3>2. CASE x.to # n
      BY <1>0, <1>1, <2>1, <3>2, WayHandle DEF Travels
    <3> QED BY <3>1, <3>2
  <2>2. CASE ~Handle(n)
    BY <1>0, <1>1, <2>2, WayElse DEF Travels, StepOf
  <2> QED BY <2>1, <2>2
<1>2. CASE Send(n)
  <2>1. PICK m \in outbox[n] :
           /\ m \in Message /\ m.to \in Nodes /\ m.from = n
           /\ outbox' = [outbox EXCEPT ![n] = @ \ {m}]
           /\ Way(m.to)' = Append(Way(m.to), m)
           /\ \A r \in Nodes \ {m.to} : Way(r)' = Way(r)
           /\ \A i \in 1..Len(Append(Way(m.to), m)) :
                \/ i \in 1..Len(Way(m.to)) /\ Append(Way(m.to), m)[i] = Way(m.to)[i]
                \/ i = Len(Way(m.to)) + 1 /\ Append(Way(m.to), m)[i] = m
    BY <1>2, WaySend
  <2>2. x \in outbox'[x.from] => x \in outbox[x.from]
    BY <1>0, <2>1 DEF Basics, AdvisorTypes
  <2>3. Travels(x)' => Travels(x) \/ x = m
    BY <1>0, <2>1 DEF Travels
  <2> QED BY <2>1, <2>2, <2>3
<1>3. CASE ~Send(n)
  <2>1. CASE x.from = n /\ x \in outbox'[n]
    BY <1>3, <2>1, StepGrows DEF OnWay
  <2>2. CASE x.from # n
    BY <1>0, <1>1, <1>3, <2>2, OutboxFrame
  <2> QED BY <1>1, <1>3, <2>1, <2>2
<1> QED BY <1>2, <1>3

-----------------------------------------------------------------------------
(* What is basic is kept                                                   *)

LEMMA AdvisorTypesStep ==
  ASSUME Basics, NEW n \in Nodes, StepOf(n)
  PROVE  AdvisorTypes'
<1>1. advisor' \in [Nodes -> Advisor]
  <2>1. CASE UNCHANGED advisor
    BY <2>1 DEF Basics, AdvisorTypes
  <2>2. CASE Grows(n)
    BY <2>2 DEF Grows, Basics, AdvisorTypes
  <2> QED BY <2>1, <2>2, StepGrows
<1>2. outbox' \in [Nodes -> SUBSET Message]
  <2>1. CASE Send(n)
    BY <2>1 DEF Send, Basics, AdvisorTypes
  <2>2. CASE UNCHANGED outbox
    BY <2>2 DEF Basics, AdvisorTypes
  <2>3. CASE Grows(n)
    <3>1. outbox'[n] \in SUBSET Message
      BY <2>3 DEF Grows
    <3> QED BY <2>3, <3>1 DEF Grows, Basics, AdvisorTypes
  <2> QED BY <2>1, <2>2, <2>3, StepGrows
<1>3. step' \in [Nodes -> {"idle", "retire", "start", "handle"}]
  BY DEF StepOf, Send, Note, Retire, Start, Settle, GoTo, Handle,
         ReceiveCandidate, ReceiveSelect, ReceiveEliminate, ReceiveMatch,
         ReceiveCleanup, ReceiveSync, IgnoreMatched, Handled, Basics, AdvisorTypes
<1>4. mailbox' \in [Nodes -> Seq(Message)] /\ batch' \in [Nodes -> Seq(Message)]
  <2> USE DEF Basics, AdvisorTypes
  <2>1. CASE Send(n)
    <3>1. PICK m \in outbox[n] :
             /\ m \in Message /\ m.to \in Nodes
             /\ mailbox' = [mailbox EXCEPT ![m.to] = Append(@, m)]
      BY <2>1, WaySend
    <3>2. Append(mailbox[m.to], m) \in Seq(Message)
      BY <3>1, AppendProperties
    <3> QED BY <2>1, <3>1, <3>2 DEF Send
  <2>2. CASE Note(n)
    BY <2>2 DEF Note, TakeMail
  <2>3. CASE Handle(n)
    <3>1. batch[n] # <<>> /\ batch' = [batch EXCEPT ![n] = Tail(@)] /\ mailbox' = mailbox
      BY <2>3, HandleEffects
    <3>2. Tail(batch[n]) \in Seq(Message)
      BY <3>1, HeadTailProperties
    <3> QED BY <3>1, <3>2
  <2>4. CASE Retire(n) \/ Start(n) \/ Settle(n)
    BY <2>4 DEF Retire, Start, Settle
  <2> QED BY <2>1, <2>2, <2>3, <2>4 DEF StepOf
<1> QED BY <1>1, <1>2, <1>3, <1>4 DEF AdvisorTypes

\* An advisor that moves is well placed.
LEMMA MovedPlace ==
  ASSUME Basics, NEW n \in Nodes, Moves(n)
  PROVE  LET b == advisor'[n] IN
         /\ \/ Running(b.at) /\ b.at.phase < MaxPhases
            \/ b.terminal /\ b.at.round = RoundsPerPhase
         /\ \A x \in outbox'[n] :
              /\ x.type # "MATCHED"
              /\ Staged(x) => /\ Running(b.at)
                              /\ x.type # "SYNC" => b.at.stage = StageOf(x.type)
              /\ x.type = "CLEANUP" => b.privatelyMatched
<1> DEFINE a == advisor[n]
           b == advisor'[n]
<1>1. /\ a.at \in Place /\ Running(a.at) /\ a.at.phase < MaxPhases
      /\ b.at \in Place
  BY DEF Moves, Grows, Basics, AdvisorTypes, Advisor, WellFormed, Synchronized
<1>2. CASE ToSelect(n)
  BY <1>1, <1>2 DEF ToSelect, StageOf, Staged
<1>3. CASE ToEliminate(n)
  <2>1. Running(b.at) /\ b.at.phase < MaxPhases /\ b.at.stage = "eliminate"
    BY <1>1, <1>3 DEF ToEliminate, Running, Place
  <2> QED BY <1>3, <2>1 DEF ToEliminate, StageOf, Staged
<1>4. CASE ToMatch(n)
  <2>1. Running(b.at) /\ b.at.phase < MaxPhases /\ b.at.stage = "match"
    BY <1>1, <1>4 DEF ToMatch, Running, Place
  <2> QED BY <1>4, <2>1 DEF ToMatch, StageOf, Staged, Finalizes
<1>5. CASE ToCleanup(n)
  <2>1. Running(b.at) /\ b.at.phase < MaxPhases
    BY <1>1, <1>5 DEF ToCleanup, Running, Place
  <2> QED BY <1>5, <2>1 DEF ToCleanup, StageOf, Staged
<1>6. CASE ToPhase(n)
  <2>1. Running(b.at) /\ b.at.phase < MaxPhases /\ b.at.stage = "valid"
    BY <1>1, <1>6 DEF ToPhase, Running
  <2> QED BY <1>6, <2>1 DEF ToPhase, StageOf, Staged
<1>7. CASE ToEnd(n)
  BY <1>7 DEF ToEnd
<1> QED BY <1>2, <1>3, <1>4, <1>5, <1>6, <1>7 DEF Moves

LEMMA WellFormedStep ==
  ASSUME Basics, NEW n \in Nodes, StepOf(n), NEW m \in Nodes
  PROVE  WellFormed(m)'
<1> USE DEF Basics, AdvisorTypes
<1>1. CASE m # n
  <2>1. advisor'[m] = advisor[m]
    BY <1>1, Forward
  <2>2. step'[m] = step[m]
    BY <1>1 DEF StepOf, Send, Note, Retire, Start, Settle, GoTo, Handle,
         ReceiveCandidate, ReceiveSelect, ReceiveEliminate, ReceiveMatch,
         ReceiveCleanup, ReceiveSync, IgnoreMatched, Handled
  <2>3. batch'[m] = batch[m]
    <3>1. CASE Handle(n)
      BY <1>1, <3>1, HandleEffects
    <3> QED BY <1>1, <3>1 DEF StepOf, Send, Note, TakeMail, Retire, Start, Settle
  <2> QED BY <2>1, <2>2, <2>3 DEF WellFormed
<1>2. CASE m = n
  <2> DEFINE a == advisor[n]
             b == advisor'[n]
  <2>0. WellFormed(n) /\ n \in DOMAIN step
    OBVIOUS
  <2>1. CASE Send(n)
    BY <1>2, <2>0, <2>1 DEF Send, WellFormed
  <2>2. ASSUME Grows(n)
        PROVE  b.candidates \cup b.valid \cup b.imposed \cup b.retained \subseteq Neighbors(n)
    BY <2>2 DEF Grows
  <2>3. CASE Note(n)
    <3>1. /\ b.at = a.at /\ b.started = a.started /\ b.terminal = a.terminal /\ Grows(n)
      BY <2>3, NoteEffects
    <3>2. PICK s \in {"retire", "start", "handle"} :
       /\ GoTo(n, s)
       /\ s = "start" => ~a.started
       /\ s = "handle" => a.started
      BY <2>3 DEF Note
    <3>3. step'[n] = s
      BY <2>0, <3>2 DEF GoTo
    <3> QED BY <1>2, <2>0, <2>2, <3>1, <3>2, <3>3 DEF WellFormed
  <2>4. CASE Retire(n)
    <3>1. /\ b.at = a.at /\ b.started = a.started /\ Grows(n)
          /\ a.terminal => b.terminal
      BY <2>4, RetireEffects
    <3>2. step'[n] = IF a.started THEN "handle" ELSE "start"
      BY <2>0, <2>4 DEF Retire, GoTo
    <3> QED BY <1>2, <2>0, <2>2, <3>1, <3>2 DEF WellFormed
  <2>5. CASE Start(n)
    <3>1. /\ b.at = a.at /\ b.started /\ b.terminal = a.terminal /\ Grows(n)
      BY <2>5, StartEffects
    <3>2. step'[n] = "handle"
      BY <2>0, <2>5 DEF Start, GoTo
    <3> QED BY <1>2, <2>0, <2>2, <3>1, <3>2 DEF WellFormed
  <2>6. CASE Handle(n)
    <3>1. /\ b.at = a.at /\ b.started = a.started /\ b.terminal = a.terminal
          /\ Grows(n) /\ step' = step /\ step[n] = "handle"
      BY <2>6, HandleEffects
    <3> QED BY <1>2, <2>0, <2>2, <3>1 DEF WellFormed
  <2>7. CASE Settle(n)
    <3>1. /\ step[n] = "handle" /\ batch'[n] = <<>> /\ step'[n] = "idle"
          /\ Moves(n) \/ UNCHANGED <<advisor, outbox>>
      BY <2>0, <2>7, SettleEffects DEF GoTo
    <3>2. CASE UNCHANGED <<advisor, outbox>>
      BY <1>2, <2>0, <3>1, <3>2 DEF WellFormed
    <3>3. CASE Moves(n)
      <4>1. b.started = a.started /\ a.started /\ Grows(n)
        BY <2>0, <3>1, <3>3 DEF Moves, WellFormed
      <4> QED BY <1>2, <2>2, <3>1, <3>3, <4>1, MovedPlace DEF WellFormed
    <3> QED BY <3>1, <3>2, <3>3
  <2> QED BY <2>1, <2>3, <2>4, <2>5, <2>6, <2>7 DEF StepOf
<1> QED BY <1>1, <1>2

\* What a step queues may be sent.
LEMMA QueuedSendable ==
  ASSUME Basics, NEW n \in Nodes, StepOf(n), Grows(n), NEW x \in outbox'[n]
  PROVE  Sendable(x)'
<1> DEFINE b == advisor'[n]
<1>1. /\ x \in Message /\ x.from = n /\ x.to \in Neighbors(n) /\ x.at = b.at
      /\ b \in Advisor
  BY DEF Grows
<1>2. Position(x.at) <= Position(b.at)
  BY <1>1, PositionType DEF Advisor
<1>3. SUFFICES
         /\ Staged(x) => /\ b.started /\ Running(b.at)
                         /\ x.type # "SYNC" => b.at.stage = StageOf(x.type)
         /\ x.type = "CLEANUP" => ~IsFree(n)'
         /\ x.type = "MATCHED" => matchedTo'[n] # None
  BY <1>1, <1>2 DEF Sendable
<1>4. CASE Note(n)
  BY <1>4, NoteEffects DEF Staged
<1>5. CASE Retire(n)
  <2>1. x.type = "CLEANUP" /\ matchedTo[n] # None
    BY <1>5, RetireEffects
  <2>2. matchedTo'[n] # None
    BY <2>1 DEF StepOf, MatchesStay
  <2> QED BY <2>1, <2>2 DEF Staged, IsFree
<1>6. CASE Start(n)
  <2>1. x.type \in {"CANDIDATE", "SYNC"} /\ b.started /\ b.at = NewAdvisor.at
    BY <1>6, StartEffects
  <2>2. Running(b.at) /\ b.at.stage = "valid"
    BY <2>1 DEF NewAdvisor, Running
  <2> QED BY <2>1, <2>2 DEF StageOf
<1>7. CASE Handle(n)
  <2>1. x.type = "CLEANUP" /\ b.privatelyMatched
    BY <1>7, HandleEffects DEF Finalizes
  <2> QED BY <2>1 DEF Staged, IsFree
<1>8. CASE Settle(n)
  <2>1. Moves(n)
    BY <1>1, <1>8, SettleEffects DEF Grows
  <2>2. b.started
    BY <1>8, <2>1 DEF Moves, Basics, WellFormed, Settle, At
  <2> QED BY <2>1, <2>2, MovedPlace DEF IsFree
<1>9. ~Send(n)
  BY DEF Grows, Send
<1> QED BY <1>4, <1>5, <1>6, <1>7, <1>8, <1>9 DEF StepOf

LEMMA WaysSoundStep ==
  ASSUME Basics, NEW n \in Nodes, StepOf(n)
  PROVE  WaysSound'
<1>1. ASSUME NEW x \in Message, OnWay(x)' PROVE Sendable(x)'
  <2>1. CASE OnWay(x)
    <3>1. Sendable(x) /\ x.from \in Nodes /\ x.at \in Place
      BY <2>1 DEF Basics, WaysSound, Message
    <3>2. /\ Position(x.at) \in Nat /\ Position(advisor[x.from].at) \in Nat
          /\ Position(advisor'[x.from].at) \in Nat
      BY <3>1, PositionType, Forward DEF Basics, AdvisorTypes, Advisor
    <3>3. Position(x.at) <= Position(advisor'[x.from].at)
      BY <3>1, <3>2, Forward DEF Sendable
    <3>4. /\ advisor[x.from].started => advisor'[x.from].started
          /\ ~IsFree(x.from) => ~IsFree(x.from)'
          /\ matchedTo[x.from] # None => matchedTo'[x.from] # None
      BY <3>1, Forward DEF StepOf, MatchesStay
    <3> QED BY <3>1, <3>3, <3>4 DEF Sendable
  <2>2. CASE x \in outbox'[n] /\ Grows(n)
    BY <2>2, QueuedSendable
  <2> QED BY <1>1, <2>1, <2>2, OnWayStep
<1>2. ASSUME NEW m \in Nodes, NEW x \in outbox'[m]
      PROVE  x.from = m /\ x.at = advisor'[m].at
  <2>1. CASE m # n
    BY <1>2, <2>1, OutboxFrame, Forward DEF Basics, WaysSound
  <2>2. CASE m = n /\ Send(n)
    BY <1>2, <2>2 DEF Send, Basics, WaysSound, AdvisorTypes
  <2>3. CASE m = n /\ UNCHANGED <<advisor, outbox>>
    BY <1>2, <2>3 DEF Basics, WaysSound
  <2>4. CASE m = n /\ Grows(n)
    BY <1>2, <2>4 DEF Grows
  <2> QED BY <2>1, <2>2, <2>3, <2>4, StepGrows
<1>3. ASSUME NEW m \in Nodes, NEW i \in 1..Len(Way(m)')
      PROVE  Way(m)'[i].to = m
  <2>0. \A j \in 1..Len(Way(m)) : Way(m)[j].to = m
    BY DEF Basics, WaysSound
  <2>1. CASE Handle(n)
    <3>1. CASE m = n
      BY <1>3, <2>0, <2>1, <3>1, WayHandle
    <3> QED BY <1>3, <2>0, <2>1, <3>1, WayHandle
  <2>2. CASE Send(n)
    <3>1. PICK x \in outbox[n] :
           /\ x \in Message /\ x.to \in Nodes /\ x.from = n
           /\ Way(x.to)' = Append(Way(x.to), x)
           /\ \A r \in Nodes \ {x.to} : Way(r)' = Way(r)
           /\ \A j \in 1..Len(Append(Way(x.to), x)) :
                \/ j \in 1..Len(Way(x.to)) /\ Append(Way(x.to), x)[j] = Way(x.to)[j]
                \/ j = Len(Way(x.to)) + 1 /\ Append(Way(x.to), x)[j] = x
      BY <2>2, WaySend
    <3> QED BY <1>3, <2>0, <3>1
  <2>3. CASE ~Handle(n) /\ ~Send(n)
    BY <1>3, <2>0, <2>3, WayElse DEF StepOf
  <2> QED BY <2>1, <2>2, <2>3
<1> QED BY <1>1, <1>2, <1>3 DEF WaysSound

\* Only a SYNC's handler adds a notice.
LEMMA NewSync ==
  ASSUME Basics, NEW n \in Nodes, StepOf(n), NEW m \in Nodes,
         NEW s \in advisor'[m].syncs, s \notin advisor[m].syncs
  PROVE  LET x == Head(batch[n]) IN
         /\ m = n /\ Handle(n) /\ x \in Message /\ OnWay(x) /\ x.to = n
         /\ x.type = "SYNC" /\ s = <<x.from, x.at>>
<1>1. m = n
  BY Forward
<1>2. CASE Note(n)
  BY <1>1, <1>2, NoteEffects
<1>3. CASE Retire(n)
  BY <1>1, <1>3, RetireEffects
<1>4. CASE Start(n)
  BY <1>1, <1>4, StartEffects
<1>5. CASE Settle(n)
  BY <1>1, <1>5, SettleEffects DEF Moves
<1>6. CASE Send(n)
  BY <1>1, <1>6 DEF Send
<1>7. CASE Handle(n)
  BY <1>1, <1>7, HandleEffects
<1> QED BY <1>2, <1>3, <1>4, <1>5, <1>6, <1>7 DEF StepOf

LEMMA SyncsSoundStep ==
  ASSUME Basics, NEW n \in Nodes, StepOf(n)
  PROVE  SyncsSound'
<1>1. ASSUME NEW k \in Nodes, NEW q \in Place, Position(q) <= Position(advisor[k].at),
             advisor[k].started
      PROVE  Position(q) <= Position(advisor'[k].at) /\ advisor'[k].started
  <2>1. /\ Position(q) \in Nat /\ Position(advisor[k].at) \in Nat
        /\ Position(advisor'[k].at) \in Nat
    BY PositionType, Forward DEF Basics, AdvisorTypes, Advisor
  <2> QED BY <1>1, <2>1, Forward
<1>2. ASSUME NEW m \in Nodes, NEW s \in advisor[m].syncs
      PROVE  Position(s[2]) <= Position(advisor'[s[1]].at) /\ advisor'[s[1]].started
  <2>1. s[1] \in Nodes /\ s[2] \in Place
    BY DEF Basics, AdvisorTypes, Advisor
  <2> QED BY <1>1, <2>1 DEF Basics, SyncsSound
<1>3. ASSUME NEW m \in Nodes, NEW s \in advisor'[m].syncs, s \notin advisor[m].syncs
      PROVE  Position(s[2]) <= Position(advisor'[s[1]].at) /\ advisor'[s[1]].started
  <2> DEFINE x == Head(batch[n])
  <2>3. x \in Message /\ OnWay(x) /\ x.type = "SYNC" /\ s = <<x.from, x.at>>
    BY <1>3, NewSync
  <2>4. /\ x.from \in Nodes /\ x.at \in Place
        /\ Position(x.at) <= Position(advisor[x.from].at) /\ advisor[x.from].started
    BY <2>3 DEF Basics, WaysSound, Sendable, Staged, Message
  <2> QED BY <1>1, <2>3, <2>4
<1> QED BY <1>2, <1>3 DEF SyncsSound

LEMMA BasicsStep ==
  ASSUME Basics, NEW n \in Nodes, StepOf(n)
  PROVE  Basics'
BY AdvisorTypesStep, WellFormedStep, WaysSoundStep, SyncsSoundStep DEF Basics

-----------------------------------------------------------------------------
(* The barrier                                                             *)

\* Whoever moves has notices of all it has not written off.
LEMMA MovesWithAll ==
  ASSUME Basics, NEW n \in Nodes, Moves(n), NEW m \in Neighbors(n) \ advisor[n].gone
  PROVE  /\ <<m, advisor[n].at>> \in advisor[n].syncs
         /\ Position(advisor[n].at) <= Position(advisor[m].at)
<1>1. m \in StageNotices(advisor[n])
  BY DEF Moves, Synchronized, Expected
<1>2. <<m, advisor[n].at>> \in advisor[n].syncs
  BY <1>1 DEF StageNotices
<1> QED BY <1>2 DEF Basics, SyncsSound

LEMMA InStepStep ==
  ASSUME Basics, InStep, NEW n \in Nodes, StepOf(n)
  PROVE  InStep'
<1> SUFFICES ASSUME NEW k \in Nodes, NEW m \in Neighbors(k) \ advisor'[k].gone
             PROVE  Position(advisor'[k].at) <= Position(advisor'[m].at) + 1
  BY DEF InStep
<1>1. m \in Nodes /\ m \in Neighbors(k) \ advisor[k].gone
  BY Forward DEF Neighbors
<1>2. /\ Position(advisor[k].at) <= Position(advisor[m].at) + 1
      /\ Position(advisor[k].at) \in Nat /\ Position(advisor[m].at) \in Nat
      /\ Position(advisor'[k].at) \in Nat /\ Position(advisor'[m].at) \in Nat
      /\ Position(advisor[m].at) <= Position(advisor'[m].at)
  BY <1>1, PositionType, Forward DEF InStep, Basics, AdvisorTypes, Advisor
<1>3. CASE advisor'[k].at = advisor[k].at
  BY <1>2, <1>3
<1>4. CASE k = n /\ Moves(n)
  <2>1. /\ Position(advisor[n].at) <= Position(advisor[m].at)
        /\ Position(advisor'[n].at) = Position(advisor[n].at) + 1
    BY <1>1, <1>4, MovesWithAll DEF Moves
  <2> QED BY <1>2, <1>4, <2>1
<1> QED BY <1>3, <1>4, StepGrows, Forward

-----------------------------------------------------------------------------
(* The order of messages                                                   *)

\* y is handled after x, which has the same sender and recipient.
Behind(x, y) ==
  /\ x.to = y.to /\ x.from = y.from
  /\ \/ \E i, j \in 1..Len(Way(x.to)) :
          i < j /\ Way(x.to)[i] = x /\ Way(x.to)[j] = y
     \/ Travels(x) /\ y \in outbox[y.from]

\* What comes behind a message is of no earlier stage, and of a later one if
\* the message is the SYNC of its stage; and so is all that is still to come
\* when the SYNC has been handled.
InOrder ==
  /\ \A x, y \in Message : Behind(x, y) /\ Staged(x) /\ Staged(y) =>
       /\ Position(x.at) <= Position(y.at)
       /\ x.type = "SYNC" => Position(x.at) < Position(y.at)
  /\ \A n \in Nodes : \A s \in advisor[n].syncs : \A y \in Message :
       y.to = n /\ y.from = s[1] /\ OnWay(y) /\ Staged(y) =>
         Position(s[2]) < Position(y.at)

\* Messages do not overtake each other: y is behind x since before, or the
\* step queued y while x was on its way, or it sent x before y.
LEMMA BehindStep ==
  ASSUME Basics, NEW n \in Nodes, StepOf(n),
         NEW x \in Message, NEW y \in Message, Behind(x, y)'
  PROVE  \/ Behind(x, y)
         \/ /\ OnWay(x) /\ y \in outbox'[n] /\ Grows(n)
            /\ x.from = n /\ y.from = n /\ x.to = y.to
         \/ /\ x \in outbox[n] /\ y \in outbox[n] /\ x # y /\ x.to = y.to
            /\ Turn(x) <= Turn(y)
<1>0. /\ x.to \in Nodes /\ x.from \in Nodes /\ y.from \in Nodes
      /\ x.to = y.to /\ x.from = y.from
  BY DEF Message, Behind
<1>1. ASSUME ~Send(n), Travels(x)' PROVE Travels(x)
  <2>1. CASE Handle(n)
    <3>1. CASE x.to = n
      <4>1. PICK i \in 1..Len(Tail(Way(n))) : Tail(Way(n))[i] = x
        BY <1>1, <2>1, <3>1, WayHandle DEF Travels
      <4> QED BY <2>1, <3>1, <4>1, WayHandle DEF Travels
    <3>2. CASE x.to # n
      BY <1>0, <1>1, <2>1, <3>2, WayHandle DEF Travels
    <3> QED BY <3>1, <3>2
  <2>2. CASE ~Handle(n)
    BY <1>0, <1>1, <2>2, WayElse DEF Travels, StepOf
  <2> QED BY <2>1, <2>2
<1>2. CASE Send(n)
  <2>1. PICK m \in outbox[n] :
           /\ m \in Message /\ m.to \in Nodes /\ m.from = n
           /\ \A k \in outbox[n] : Turn(m) <= Turn(k)
           /\ outbox' = [outbox EXCEPT ![n] = @ \ {m}]
           /\ Way(m.to)' = Append(Way(m.to), m)
           /\ \A r \in Nodes \ {m.to} : Way(r)' = Way(r)
           /\ \A i \in 1..Len(Append(Way(m.to), m)) :
                \/ i \in 1..Len(Way(m.to)) /\ Append(Way(m.to), m)[i] = Way(m.to)[i]
                \/ i = Len(Way(m.to)) + 1 /\ Append(Way(m.to), m)[i] = m
           /\ Len(Append(Way(m.to), m)) = Len(Way(m.to)) + 1
    BY <1>2, WaySend
  <2>2. \A z \in Message : z \in outbox'[z.from] => z \in outbox[z.from] /\ z # m
    BY <2>1 DEF Basics, AdvisorTypes, Message
  <2>3. CASE Travels(x)' /\ y \in outbox'[y.from]
    <3>1. y \in outbox[y.from] /\ y # m
      BY <2>2, <2>3
    <3>2. CASE Travels(x)
      BY <1>0, <3>1, <3>2 DEF Behind
    <3>3. CASE ~Travels(x)
      <4>1. x = m
        BY <1>0, <2>1, <2>3, <3>3 DEF Travels
      <4> QED BY <1>0, <2>1, <3>1, <4>1
    <3> QED BY <3>2, <3>3
  <2>4. CASE \E i, j \in 1..Len(Way(x.to)') :
                  i < j /\ Way(x.to)'[i] = x /\ Way(x.to)'[j] = y
    <3>1. CASE x.to = m.to
      <4> DEFINE w == Way(m.to)
      <4>1. PICK i, j \in 1..Len(Append(w, m)) :
              i < j /\ Append(w, m)[i] = x /\ Append(w, m)[j] = y
        BY <2>1, <2>4, <3>1
      <4>2. Len(w) \in Nat /\ i \in Nat /\ j \in Nat /\ j <= Len(w) + 1
        BY <2>1, <4>1, WayType
      <4>3. i \in 1..Len(w) /\ w[i] = x
        BY <2>1, <4>1, <4>2
      <4>4. CASE j \in 1..Len(w) /\ w[j] = y
        BY <1>0, <3>1, <4>1, <4>3, <4>4 DEF Behind
      <4>5. CASE y = m
        <5>1. y \in outbox[y.from]
          BY <2>1, <4>5
        <5>2. Travels(x)
          BY <3>1, <4>3 DEF Travels
        <5> QED BY <1>0, <5>1, <5>2 DEF Behind
      <4> QED BY <2>1, <4>1, <4>4, <4>5
    <3>2. CASE x.to # m.to
      BY <1>0, <2>1, <2>4, <3>2 DEF Behind
    <3> QED BY <3>1, <3>2
  <2> QED BY <2>3, <2>4 DEF Behind
<1>3. CASE ~Send(n)
  <2>1. CASE Travels(x)' /\ y \in outbox'[y.from]
    <3>1. Travels(x)
      BY <1>1, <1>3, <2>1
    <3>2. CASE y.from # n
      BY <1>0, <2>1, <3>1, <3>2, OutboxFrame DEF Behind
    <3>3. CASE y.from = n /\ Grows(n)
      BY <1>0, <2>1, <3>1, <3>3 DEF OnWay
    <3>4. CASE y.from = n /\ UNCHANGED outbox
      BY <1>0, <2>1, <3>1, <3>4 DEF Behind
    <3> QED BY <1>3, <3>2, <3>3, <3>4, StepGrows
  <2>2. CASE \E i, j \in 1..Len(Way(x.to)') :
                  i < j /\ Way(x.to)'[i] = x /\ Way(x.to)'[j] = y
    <3>1. CASE Handle(n) /\ x.to = n
      <4>1. PICK i, j \in 1..Len(Tail(Way(n))) :
              i < j /\ Tail(Way(n))[i] = x /\ Tail(Way(n))[j] = y
        BY <2>2, <3>1, WayHandle
      <4>2. /\ i + 1 < j + 1 /\ i + 1 \in 1..Len(Way(n)) /\ j + 1 \in 1..Len(Way(n))
            /\ Way(n)[i + 1] = x /\ Way(n)[j + 1] = y
        BY <3>1, <4>1, WayHandle
      <4> QED BY <1>0, <3>1, <4>2 DEF Behind
    <3>2. CASE Handle(n) /\ x.to # n
      BY <1>0, <2>2, <3>2, WayHandle DEF Behind
    <3>3. CASE ~Handle(n)
      BY <1>0, <1>3, <2>2, <3>3, WayElse DEF Behind, StepOf
    <3> QED BY <3>1, <3>2, <3>3
  <2> QED BY <2>1, <2>2 DEF Behind
<1> QED BY <1>2, <1>3

\* What is on its way to n after a handler is behind what it handled.
LEMMA RestIsBehind ==
  ASSUME Basics, NEW n \in Nodes, StepOf(n), Handle(n),
         NEW y \in Message, y.to = n, y.from = Head(batch[n]).from, OnWay(y)',
         Staged(y)
  PROVE  Behind(Head(batch[n]), y)
<1> DEFINE x == Head(batch[n])
<1>1. x \in Message /\ x.to = n /\ y.from \in Nodes
  BY HandleEffects DEF Message
<1>2. Travels(x) /\ 1 \in 1..Len(Way(n)) /\ Way(n)[1] = x
  <2>1. Way(n) \in Seq(Message) /\ Way(n) # <<>> /\ Head(Way(n)) = x
    BY WayType, WayHandle
  <2>2. Len(Way(n)) \in Nat \ {0}
    BY <2>1, EmptySeq
  <2>3. 1 \in 1..Len(Way(n))
    BY <2>2
  <2> QED BY <1>1, <2>1, <2>3 DEF Travels, Head
<1> HIDE DEF x
<1>3. CASE Travels(y)'
  <2>1. PICK j \in 1..Len(Tail(Way(n))) : Tail(Way(n))[j] = y
    BY <1>3, WayHandle DEF Travels
  <2>2. j + 1 \in 1..Len(Way(n)) /\ Way(n)[j + 1] = y /\ 1 < j + 1
    BY <2>1, WayHandle
  <2> QED BY <1>1, <1>2, <2>2 DEF Behind, x
<1>4. CASE y \in outbox'[y.from]
  <2>1. CASE y.from # n
    BY <1>1, <1>2, <1>4, <2>1, OutboxFrame DEF Behind, x
  <2>2. CASE y.from = n
    <3>1. \A z \in outbox'[n] : z.type = "CLEANUP"
      BY HandleEffects
    <3> QED BY <1>4, <2>2, <3>1 DEF Staged
  <2> QED BY <2>1, <2>2
<1> QED BY <1>3, <1>4 DEF OnWay

\* A staged message that a step queues is of a later stage than its sender's,
\* or its sender's first.
LEMMA QueuedIsLater ==
  ASSUME Basics, NEW n \in Nodes, StepOf(n), Grows(n), NEW y \in outbox'[n], Staged(y)
  PROVE  \/ Position(y.at) = Position(advisor[n].at) + 1
         \/ ~advisor[n].started
<1>1. y.at = advisor'[n].at
  BY DEF Grows
<1>2. CASE Note(n)
  BY <1>2, NoteEffects DEF Staged
<1>3. CASE Retire(n)
  BY <1>3, RetireEffects DEF Staged
<1>4. CASE Start(n)
  BY <1>4, StartEffects
<1>5. CASE Handle(n)
  BY <1>5, HandleEffects DEF Staged
<1>6. CASE Settle(n)
  <2>1. Moves(n)
    BY <1>6, SettleEffects DEF Grows
  <2> QED BY <1>1, <2>1 DEF Moves
<1>7. ~Send(n)
  BY DEF Grows, Send
<1> QED BY <1>2, <1>3, <1>4, <1>5, <1>6, <1>7 DEF StepOf

LEMMA InOrderStep ==
  ASSUME Basics, InOrder, NEW n \in Nodes, StepOf(n)
  PROVE  InOrder'
<1>1. ASSUME NEW x \in Message, NEW y \in Message, Behind(x, y)', Staged(x), Staged(y)
      PROVE  /\ Position(x.at) <= Position(y.at)
             /\ x.type = "SYNC" => Position(x.at) < Position(y.at)
  <2>0. /\ Position(x.at) \in Nat /\ Position(y.at) \in Nat
        /\ Position(advisor[n].at) \in Nat
    BY PositionType DEF Message, Basics, AdvisorTypes, Advisor
  <2>1. CASE Behind(x, y)
    BY <1>1, <2>1 DEF InOrder
  <2>2. CASE OnWay(x) /\ y \in outbox'[n] /\ Grows(n) /\ x.from = n
    <3>1. Position(x.at) <= Position(advisor[n].at) /\ advisor[n].started
      BY <1>1, <2>2 DEF Basics, WaysSound, Sendable
    <3>2. Position(y.at) = Position(advisor[n].at) + 1
      BY <1>1, <2>2, <3>1, QueuedIsLater
    <3> QED BY <2>0, <3>1, <3>2
  <2>3. CASE /\ x \in outbox[n] /\ y \in outbox[n] /\ x # y /\ x.to = y.to
             /\ Turn(x) <= Turn(y)
    <3>1. x.at = advisor[n].at /\ y.at = advisor[n].at /\ x.from = n /\ y.from = n
      BY <2>3 DEF Basics, WaysSound
    <3>2. x.type # "SYNC"
      <4> SUFFICES ASSUME x.type = "SYNC" PROVE FALSE
        OBVIOUS
      <4>1. y.type = "SYNC"
        BY <2>3 DEF Turn
      <4>2. x = y
        BY <2>3, <3>1, <4>1 DEF Message
      <4> QED BY <2>3, <4>2
    <3> QED BY <2>0, <3>1, <3>2
  <2> QED BY <1>1, <2>1, <2>2, <2>3, BehindStep
<1>2. ASSUME NEW m \in Nodes, NEW s \in advisor'[m].syncs, NEW y \in Message,
             y.to = m, y.from = s[1], OnWay(y)', Staged(y)
      PROVE  Position(s[2]) < Position(y.at)
  <2>0. s[1] \in Nodes /\ s[2] \in Place /\ y.from \in Nodes /\ y.at \in Place
    BY Forward DEF Advisor, Message
  <2>1. /\ Position(s[2]) \in Nat /\ Position(y.at) \in Nat
        /\ Position(advisor[n].at) \in Nat
    BY <2>0, PositionType DEF Basics, AdvisorTypes, Advisor
  <2>2. CASE s \in advisor[m].syncs /\ OnWay(y)
    BY <1>2, <2>2 DEF InOrder
  <2>3. CASE s \in advisor[m].syncs /\ ~OnWay(y)
    <3>1. y \in outbox'[n] /\ Grows(n) /\ y.from = n
      BY <1>2, <2>3, OnWayStep
    <3>2. Position(s[2]) <= Position(advisor[n].at) /\ advisor[n].started
      BY <1>2, <2>3, <3>1 DEF Basics, SyncsSound
    <3>3. Position(y.at) = Position(advisor[n].at) + 1
      BY <1>2, <3>1, <3>2, QueuedIsLater
    <3> QED BY <2>1, <3>2, <3>3
  <2>4. CASE s \notin advisor[m].syncs
    <3> DEFINE x == Head(batch[n])
    <3>1. /\ m = n /\ Handle(n) /\ x \in Message /\ OnWay(x) /\ x.to = n
          /\ x.type = "SYNC" /\ s = <<x.from, x.at>>
      BY <1>2, <2>4, NewSync
    <3>2. Behind(x, y)
      BY <1>2, <3>1, RestIsBehind
    <3> QED BY <1>2, <3>1, <3>2 DEF InOrder, Staged
  <2> QED BY <2>2, <2>3, <2>4
<1> QED BY <1>1, <1>2 DEF InOrder

-----------------------------------------------------------------------------
(* Retained edges                                                          *)

\* Only its handler takes a message off its way.
LEMMA Consumed ==
  ASSUME Basics, NEW n \in Nodes, StepOf(n), NEW x \in Message, OnWay(x), ~OnWay(x)'
  PROVE  Handle(n) /\ x.to = n /\ x = Head(batch[n])
<1>0. x.to \in Nodes /\ x.from \in Nodes
  BY DEF Message
<1>1. CASE x \in outbox[x.from]
  <2>1. x.from = n /\ Send(n)
    BY <1>0, <1>1, OutboxFrame DEF OnWay
  <2>2. PICK m \in outbox[n] :
           /\ m \in Message /\ m.to \in Nodes
           /\ outbox' = [outbox EXCEPT ![n] = @ \ {m}]
           /\ Way(m.to)' = Append(Way(m.to), m)
           /\ Len(Append(Way(m.to), m)) = Len(Way(m.to)) + 1
           /\ Append(Way(m.to), m)[Len(Way(m.to)) + 1] = m
    BY <2>1, WaySend
  <2>3. x = m
    BY <1>1, <2>1, <2>2 DEF OnWay, Basics, AdvisorTypes
  <2>4. Len(Way(x.to)) + 1 \in 1..Len(Append(Way(x.to), x))
    BY <1>0, <2>2, <2>3, WayType
  <2>5. Travels(x)'
    BY <2>2, <2>3, <2>4 DEF Travels
  <2> QED BY <2>5 DEF OnWay
<1>2. CASE Travels(x)
  <2>1. PICK i \in 1..Len(Way(x.to)) : Way(x.to)[i] = x
    BY <1>2 DEF Travels
  <2>2. CASE Handle(n) /\ x.to = n
    <3>1. Way(n) \in Seq(Message) /\ Way(n) # <<>> /\ Head(Way(n)) = Head(batch[n])
          /\ Way(n)' = Tail(Way(n)) /\ Len(Way(n)) \in Nat
      BY <2>2, WayType, WayHandle
    <3>2. /\ Len(Tail(Way(n))) = Len(Way(n)) - 1
          /\ \A j \in 1..Len(Tail(Way(n))) : Tail(Way(n))[j] = Way(n)[j + 1]
          /\ Head(Way(n)) = Way(n)[1]
      BY <3>1, HeadTailProperties
    <3>3. CASE i = 1
      BY <2>1, <2>2, <3>1, <3>2, <3>3
    <3>4. CASE i # 1
      <4>1. i - 1 \in 1..Len(Tail(Way(n))) /\ Tail(Way(n))[i - 1] = x
        BY <2>1, <2>2, <3>1, <3>2, <3>4
      <4> QED BY <2>2, <3>1, <4>1 DEF OnWay, Travels
    <3> QED BY <3>3, <3>4
  <2>3. CASE Handle(n) /\ x.to # n
    BY <1>0, <1>2, <2>3, WayHandle DEF OnWay, Travels
  <2>4. CASE Send(n)
    <3>1. PICK m \in outbox[n] :
           /\ m.to \in Nodes
           /\ Way(m.to)' = Append(Way(m.to), m)
           /\ \A r \in Nodes \ {m.to} : Way(r)' = Way(r)
           /\ m \in Message
      BY <2>4, WaySend
    <3>2. CASE x.to = m.to
      <4>1. Way(x.to) \in Seq(Message)
        BY <1>0, WayType
      <4>2. /\ i \in 1..Len(Append(Way(x.to), m))
            /\ Append(Way(x.to), m)[i] = x
        BY <2>1, <3>1, <4>1, AppendProperties, WayType, <1>0
      <4> QED BY <3>1, <3>2, <4>2 DEF OnWay, Travels
    <3> QED BY <1>0, <1>2, <3>1, <3>2 DEF OnWay, Travels
  <2>5. CASE ~Handle(n) /\ ~Send(n)
    BY <1>0, <1>2, <2>5, WayElse DEF OnWay, Travels, StepOf
  <2> QED BY <2>2, <2>3, <2>4, <2>5
<1> QED BY <1>1, <1>2 DEF OnWay

\* An advisor keeps what it retains until it begins another round.
LEMMA RoundStays ==
  ASSUME Basics, NEW n \in Nodes, StepOf(n), NEW m \in Nodes
  PROVE  LET a == advisor[m]
             b == advisor'[m]
         IN
         \/ /\ SameRound(a.at, b.at) /\ a.retained \subseteq b.retained
            /\ Running(b.at) /\ b.at.stage # "valid" => Running(a.at) /\ a.at.stage # "valid"
         \/ m = n /\ Moves(n) /\ (ToSelect(n) \/ ToPhase(n) \/ ToEnd(n))
<1> DEFINE a == advisor[m]
           b == advisor'[m]
<1>1. CASE advisor'[m] = advisor[m]
  BY <1>1 DEF SameRound
<1>2. CASE m = n /\ (Note(n) \/ Retire(n) \/ Start(n) \/ Handle(n))
  <2>1. b.at = a.at /\ a.retained \subseteq b.retained
    BY <1>2, NoteEffects, RetireEffects, StartEffects, HandleEffects
  <2> QED BY <2>1 DEF SameRound
<1>3. CASE m = n /\ Moves(n) /\ (ToEliminate(n) \/ ToMatch(n) \/ ToCleanup(n))
  <2>1. PICK s \in {"eliminate", "match", "cleanup"} : b.at = [a.at EXCEPT !.stage = s]
    BY <1>3 DEF ToEliminate, ToMatch, ToCleanup
  <2>2. /\ a.retained \subseteq b.retained
        /\ a.at.stage \in {"select", "eliminate", "match"}
        /\ Running(a.at) /\ a.at \in Place
    BY <1>3 DEF ToEliminate, ToMatch, ToCleanup, Moves, Basics, AdvisorTypes, Advisor
  <2>3. SameRound(a.at, b.at)
    BY <2>1, <2>2 DEF SameRound, Place
  <2> QED BY <2>2, <2>3
<1>4. CASE m = n /\ Moves(n)
  BY <1>3, <1>4 DEF Moves
<1> QED BY <1>1, <1>2, <1>4, StepGrows, Forward

\* A round begins after all places of earlier ones.
LEMMA RoundBegins ==
  ASSUME Basics, NEW n \in Nodes, Moves(n), ToSelect(n) \/ ToPhase(n)
  PROVE  /\ Running(advisor'[n].at) /\ advisor'[n].at \in Place
         /\ Position(advisor[n].at) <= Base(advisor'[n].at)
         /\ Position(advisor'[n].at) <= Base(advisor'[n].at) + 1
<1> DEFINE q == advisor'[n].at
<1>1. q \in Place
  BY DEF Moves, Grows, Advisor
<1>2. Running(q) /\ q.stage \in {"valid", "select"}
  BY DEF ToSelect, ToPhase, Running
<1>3. Position(q) = Base(q) + StageNo(q.stage) /\ Base(q) \in Nat
      /\ StageNo(q.stage) \in {0, 1}
  <2>1. StageNo(q.stage) \in {0, 1}
    BY <1>2 DEF StageNo
  <2> QED BY <1>1, <1>2, <2>1, PositionOf
<1>4. Position(q) = Position(advisor[n].at) + 1 /\ Position(advisor[n].at) \in Nat
  BY PositionType DEF Moves, Basics, AdvisorTypes, Advisor
<1> QED BY <1>1, <1>2, <1>3, <1>4

\* Where a message of one of the last three stages was sent.
LEMMA SentAt ==
  ASSUME Basics, NEW x \in Message, OnWay(x), x.type \in {"ELIMINATE", "MATCH"}
  PROVE  /\ x.at \in Place /\ Running(x.at) /\ Base(x.at) \in Nat
         /\ Position(x.at) = Base(x.at) + (IF x.type = "MATCH" THEN 3 ELSE 2)
         /\ Position(x.at) <= Position(advisor[x.from].at)
         /\ x.to \in Neighbors(x.from) /\ x.from \in Nodes /\ x.to \in Nodes
         /\ x.from \in Neighbors(x.to)
<1>1. Sendable(x) /\ x.at \in Place /\ x.from \in Nodes
  BY DEF Basics, WaysSound, Message
<1>2. Running(x.at) /\ x.at.stage = StageOf(x.type)
  BY <1>1 DEF Sendable, Staged
<1>3. StageNo(x.at.stage) = IF x.type = "MATCH" THEN 3 ELSE 2
  BY <1>2 DEF StageNo, StageOf
<1>4. x.to \in Neighbors(x.from) /\ x.from \in Neighbors(x.to) /\ x.to \in Nodes
  BY <1>1, NeighborsSymmetric DEF Sendable
<1> QED BY <1>1, <1>2, <1>3, <1>4, PositionOf DEF Sendable

\* Whoever sends an ELIMINATE retains the edge itself for the round.
EliminatesRetained ==
  \A x \in Message :
    /\ x.type = "ELIMINATE" /\ OnWay(x)
    /\ SameRound(x.at, advisor[x.from].at)
    => x.to \in advisor[x.from].retained

LEMMA EliminatesRetainedStep ==
  ASSUME Basics, EliminatesRetained, NEW n \in Nodes, StepOf(n)
  PROVE  EliminatesRetained'
<1> SUFFICES ASSUME NEW x \in Message, x.type = "ELIMINATE", OnWay(x)',
                    SameRound(x.at, advisor'[x.from].at)
             PROVE  x.to \in advisor'[x.from].retained
  BY DEF EliminatesRetained
<1> DEFINE k == x.from
<1>0. k \in Nodes
  BY DEF Message
<1>1. CASE OnWay(x)
  <2>0. /\ x.at \in Place /\ Running(x.at) /\ Base(x.at) \in Nat
        /\ Position(x.at) = Base(x.at) + 2
        /\ Position(x.at) <= Position(advisor[k].at)
    BY <1>1, SentAt
  <2>1. CASE SameRound(advisor[k].at, advisor'[k].at)
             /\ advisor[k].retained \subseteq advisor'[k].retained
    BY <1>1, <2>1 DEF EliminatesRetained, SameRound
  <2>2. CASE k = n /\ Moves(n) /\ (ToSelect(n) \/ ToPhase(n))
    <3>1. Position(advisor[k].at) <= Base(advisor'[k].at)
      BY <2>2, RoundBegins
    <3>2. Base(advisor'[k].at) = Base(x.at)
      BY SameRoundBase
    <3>3. Position(advisor[k].at) \in Nat
      BY <1>0, PositionType DEF Basics, AdvisorTypes, Advisor
    <3> QED BY <2>0, <3>1, <3>2, <3>3
  <2>3. CASE k = n /\ ToEnd(n)
    BY <2>0, <2>3 DEF ToEnd, SameRound, Running
  <2> QED BY <1>0, <2>1, <2>2, <2>3, RoundStays
<1>2. CASE x \in outbox'[n] /\ Grows(n) /\ k = n
  <2>1. Settle(n) /\ Moves(n)
    BY <1>2, StepGrows, NoteEffects, RetireEffects, StartEffects, HandleEffects
       DEF Send, Grows
  <2>2. ToEliminate(n)
    BY <1>2, <2>1 DEF Moves, ToSelect, ToMatch, ToCleanup, ToPhase, ToEnd
  <2> QED BY <1>2, <2>2 DEF ToEliminate
<1> QED BY <1>1, <1>2, OnWayStep

\* n has told m that it retains their edge, and m is still to hear it.
TellsRetained(n, m) ==
  \E x \in Message : /\ x.type = "ELIMINATE" /\ x.from = n /\ x.to = m
                     /\ SameRound(x.at, advisor[n].at) /\ OnWay(x)

\* Whoever n retains has come to this round, and retains n in it or will.
RetentionIsShared ==
  \A n \in Nodes : \A m \in advisor[n].retained \ advisor[n].gone :
    Running(advisor[n].at) /\ advisor[n].at.stage # "valid" =>
      /\ Base(advisor[n].at) + 1 <= Position(advisor[m].at)
      /\ SameRound(advisor[n].at, advisor[m].at) =>
           n \in advisor[m].retained \/ TellsRetained(n, m)

LEMMA RetentionIsSharedStep ==
  ASSUME Basics, EliminatesRetained, RetentionIsShared, NEW p \in Nodes, StepOf(p)
  PROVE  RetentionIsShared'
<1> SUFFICES ASSUME NEW n \in Nodes, NEW m \in advisor'[n].retained \ advisor'[n].gone,
                    Running(advisor'[n].at), advisor'[n].at.stage # "valid"
             PROVE  /\ Base(advisor'[n].at) + 1 <= Position(advisor'[m].at)
                    /\ SameRound(advisor'[n].at, advisor'[m].at) =>
                         n \in advisor'[m].retained \/ TellsRetained(n, m)'
  BY DEF RetentionIsShared
<1> DEFINE a == advisor[n]
           b == advisor'[n]
<1>0. a \in Advisor /\ b \in Advisor /\ a.at \in Place /\ b.at \in Place
  <2>1. a \in Advisor
    BY DEF Basics, AdvisorTypes
  <2>2. b \in Advisor
    BY Forward
  <2> QED BY <2>1, <2>2 DEF Advisor
<1>1. m \in Nodes /\ m \in Neighbors(n) /\ m \notin a.gone
  <2>1. b.retained \subseteq Neighbors(n)
    BY WellFormedStep DEF WellFormed
  <2> QED BY <2>1, Forward DEF Neighbors
<1>2. /\ Position(advisor[m].at) \in Nat /\ Position(advisor'[m].at) \in Nat
      /\ Position(advisor[m].at) <= Position(advisor'[m].at)
      /\ advisor[m].at \in Place /\ advisor'[m].at \in Place
  BY <1>1, PositionType, Forward DEF Basics, AdvisorTypes, Advisor
<1>3. Base(b.at) \in Nat
  BY <1>0, PositionOf
<1>4. CASE /\ SameRound(a.at, b.at) /\ m \in a.retained
           /\ Running(a.at) /\ a.at.stage # "valid"
  <2>0. Base(a.at) = Base(b.at)
    BY <1>4, SameRoundBase
  <2>1. /\ Base(a.at) + 1 <= Position(advisor[m].at)
        /\ SameRound(a.at, advisor[m].at) =>
             n \in advisor[m].retained \/ TellsRetained(n, m)
    BY <1>1, <1>4 DEF RetentionIsShared
  <2>2. ASSUME SameRound(b.at, advisor'[m].at)
        PROVE  n \in advisor'[m].retained \/ TellsRetained(n, m)'
    <3>1. CASE /\ SameRound(advisor[m].at, advisor'[m].at)
               /\ advisor[m].retained \subseteq advisor'[m].retained
      <4>1. SameRound(a.at, advisor[m].at)
        BY <1>4, <2>2, <3>1 DEF SameRound
      <4>2. CASE n \in advisor[m].retained
        BY <3>1, <4>2
      <4>3. ASSUME NEW x \in Message, x.type = "ELIMINATE", x.from = n, x.to = m,
                   SameRound(x.at, a.at), OnWay(x)
            PROVE  n \in advisor'[m].retained \/ TellsRetained(n, m)'
        <5>1. CASE OnWay(x)'
          <6>1. SameRound(x.at, b.at)
            BY <1>4, <4>3 DEF SameRound
          <6> QED BY <4>3, <5>1, <6>1 DEF TellsRetained
        <5>2. CASE ~OnWay(x)'
          <6>1. Handle(p) /\ p = m /\ x = Head(batch[p])
            BY <4>3, <5>2, Consumed
          <6>2. SameRound(x.at, advisor[m].at)
            BY <4>1, <4>3 DEF SameRound
          <6> QED BY <1>1, <4>3, <6>1, <6>2, HandleEffects
        <5> QED BY <5>1, <5>2
      <4> QED BY <2>1, <4>1, <4>2, <4>3 DEF TellsRetained
    <3>2. CASE m = p /\ Moves(p) /\ (ToSelect(p) \/ ToPhase(p))
      <4>1. Position(advisor[m].at) <= Base(advisor'[m].at)
        BY <3>2, RoundBegins
      <4>2. Base(advisor'[m].at) = Base(b.at)
        BY <2>2, SameRoundBase
      <4> QED BY <1>2, <1>3, <2>0, <2>1, <4>1, <4>2
    <3>3. CASE m = p /\ ToEnd(p)
      BY <2>2, <3>3 DEF ToEnd, SameRound, Running
    <3> QED BY <1>1, <3>1, <3>2, <3>3, RoundStays
  <2> QED BY <1>2, <1>3, <2>0, <2>1, <2>2
<1>5. CASE /\ SameRound(a.at, b.at) /\ m \notin a.retained /\ Handle(p) /\ n = p
  <2> DEFINE x == Head(batch[n])
  <2>1. /\ x \in Message /\ OnWay(x) /\ x.to = n /\ b.at = a.at
        /\ x.type = "ELIMINATE" /\ SameRound(x.at, a.at) /\ x.from = m
    BY <1>5, HandleEffects
  <2>2. /\ x.at \in Place /\ Running(x.at) /\ Base(x.at) \in Nat
        /\ Position(x.at) = Base(x.at) + 2
        /\ Position(x.at) <= Position(advisor[m].at)
    BY <2>1, SentAt
  <2>3. Base(x.at) = Base(b.at)
    BY <2>1, SameRoundBase
  <2>4. m # n
    <3>1. {n, m} \in Edges
      BY <1>1 DEF Neighbors
    <3>2. PICK u, v \in Nodes : u # v /\ {n, m} = {u, v}
      BY <3>1, TopologyAssumption
    <3> QED BY <3>2
  <2>5. advisor'[m] = advisor[m]
    BY <1>1, <1>5, <2>4, Forward
  <2>6. SameRound(b.at, advisor'[m].at) => n \in advisor[m].retained
    <3>1. SUFFICES ASSUME SameRound(b.at, advisor'[m].at)
                   PROVE  SameRound(x.at, advisor[x.from].at)
      BY <2>1 DEF EliminatesRetained
    <3> QED BY <2>1, <2>5, <3>1 DEF SameRound
  <2> QED BY <1>2, <2>2, <2>3, <2>5, <2>6
<1>6. CASE m \notin a.retained /\ Moves(p) /\ ToEliminate(p) /\ n = p
  <2>1. PICK x \in outbox'[n] : x.type = "ELIMINATE" /\ x.to = m
    BY <1>6 DEF ToEliminate
  <2>2. x \in Message /\ x.from = n /\ x.at = b.at
    BY <1>6, <2>1 DEF Moves, Grows
  <2>3. TellsRetained(n, m)'
    BY <2>1, <2>2 DEF TellsRetained, OnWay, SameRound
  <2>4. /\ Position(a.at) <= Position(advisor[m].at)
        /\ Position(a.at) = Base(a.at) + 1
    <3>1. Running(a.at) /\ a.at.stage = "select"
      BY <1>6 DEF Moves, ToEliminate
    <3>2. Position(a.at) = Base(a.at) + 1
      BY <1>0, <3>1, PositionOf DEF StageNo
    <3> QED BY <1>1, <1>6, <3>2, MovesWithAll
  <2>5. Base(a.at) = Base(b.at)
    <3>1. SameRound(a.at, b.at)
      BY <1>0, <1>6 DEF ToEliminate, SameRound, Place
    <3> QED BY <3>1, SameRoundBase
  <2> QED BY <1>2, <1>3, <2>3, <2>4, <2>5
<1>7. ASSUME m \notin a.retained
      PROVE  n = p /\ \/ Handle(p) /\ SameRound(a.at, b.at)
                      \/ Moves(p) /\ ToEliminate(p)
  <2>1. b # a
    BY <1>7
  <2>2. n = p
    BY <2>1, Forward
  <2>3. CASE Moves(p)
    <3>1. ~ToSelect(p)
      BY <2>2 DEF ToSelect
    <3>2. ~ToPhase(p) /\ ~ToEnd(p)
      BY <2>2 DEF ToPhase, ToEnd, Running
    <3>3. ~ToMatch(p) /\ ~ToCleanup(p)
      BY <1>7, <2>2 DEF ToMatch, ToCleanup
    <3> QED BY <2>2, <2>3, <3>1, <3>2, <3>3 DEF Moves
  <2>4. CASE Note(p) \/ Retire(p) \/ Start(p)
    <3>1. b.retained = a.retained
      BY <2>2, <2>4, NoteEffects, RetireEffects, StartEffects
    <3> QED BY <1>7, <3>1
  <2>5. CASE Handle(p)
    BY <2>2, <2>5, HandleEffects DEF SameRound
  <2> QED BY <2>1, <2>2, <2>3, <2>4, <2>5, StepGrows
<1>8. CASE m \in a.retained
  <2>1. ~(n = p /\ Moves(p) /\ (ToSelect(p) \/ ToPhase(p) \/ ToEnd(p)))
    BY DEF ToSelect, ToPhase, ToEnd, Running
  <2> QED BY <1>4, <1>8, <2>1, RoundStays
<1> QED BY <1>5, <1>6, <1>7, <1>8

\* Whoever is in the matching of a round has noted that all it expects have
\* finished the eliminations.
EliminationsRecorded ==
  \A m \in Nodes :
    Running(advisor[m].at) /\ advisor[m].at.stage \in {"match", "cleanup"} =>
      \A k \in Neighbors(m) \ advisor[m].gone :
        <<k, [advisor[m].at EXCEPT !.stage = "eliminate"]>> \in advisor[m].syncs

LEMMA EliminationsRecordedStep ==
  ASSUME Basics, EliminationsRecorded, NEW n \in Nodes, StepOf(n)
  PROVE  EliminationsRecorded'
<1> SUFFICES ASSUME NEW m \in Nodes, Running(advisor'[m].at),
                    advisor'[m].at.stage \in {"match", "cleanup"},
                    NEW k \in Neighbors(m) \ advisor'[m].gone
             PROVE  <<k, [advisor'[m].at EXCEPT !.stage = "eliminate"]>> \in advisor'[m].syncs
  BY DEF EliminationsRecorded
<1> DEFINE a == advisor[m]
           b == advisor'[m]
<1>1. /\ a.syncs \subseteq b.syncs /\ k \in Neighbors(m) \ a.gone
      /\ a.at \in Place
  BY Forward DEF Basics, AdvisorTypes, Advisor
<1>2. CASE b.at = a.at
  BY <1>1, <1>2 DEF EliminationsRecorded
<1>3. CASE m = n /\ Moves(n)
  <2>1. ToMatch(n) \/ ToCleanup(n)
    <3>1. ~ToEliminate(n)
      BY <1>1, <1>3 DEF ToEliminate, Place
    <3>2. ~ToSelect(n) /\ ~ToPhase(n) /\ ~ToEnd(n)
      BY <1>3 DEF ToSelect, ToPhase, ToEnd, Running
    <3> QED BY <1>3, <3>1, <3>2 DEF Moves
  <2>2. CASE ToMatch(n)
    <3>1. [b.at EXCEPT !.stage = "eliminate"] = a.at
      BY <1>1, <1>3, <2>2 DEF ToMatch, Place
    <3> QED BY <1>1, <1>3, <3>1, MovesWithAll
  <2>3. CASE ToCleanup(n)
    <3>1. /\ [b.at EXCEPT !.stage = "eliminate"] = [a.at EXCEPT !.stage = "eliminate"]
          /\ a.at.stage = "match" /\ Running(a.at)
      BY <1>1, <1>3, <2>3 DEF ToCleanup, Place, Moves
    <3> QED BY <1>1, <3>1 DEF EliminationsRecorded
  <2> QED BY <2>1, <2>2, <2>3
<1> QED BY <1>2, <1>3, StepGrows, Forward

\* No ELIMINATE comes late.
LEMMA NothingToHear ==
  ASSUME Basics, InOrder, EliminationsRecorded, NEW m \in Nodes,
         Running(advisor[m].at), advisor[m].at.stage \in {"match", "cleanup"},
         NEW n \in Neighbors(m) \ advisor[m].gone,
         SameRound(advisor[n].at, advisor[m].at)
  PROVE  ~TellsRetained(n, m)
<1> SUFFICES ASSUME NEW x \in Message, x.type = "ELIMINATE", x.from = n, x.to = m,
                    SameRound(x.at, advisor[n].at), OnWay(x)
             PROVE  FALSE
  BY DEF TellsRetained
<1> DEFINE q == [advisor[m].at EXCEPT !.stage = "eliminate"]
<1>1. <<n, q>> \in advisor[m].syncs
  BY DEF EliminationsRecorded
<1>2. Position(q) < Position(x.at)
  <2>1. \A s \in advisor[m].syncs : \A y \in Message :
          y.to = m /\ y.from = s[1] /\ OnWay(y) /\ Staged(y) =>
            Position(s[2]) < Position(y.at)
    BY DEF InOrder
  <2> QED BY <1>1, <2>1 DEF Staged
<1>3. q \in Place /\ Running(q) /\ SameRound(x.at, q) /\ q.stage = "eliminate"
  <2>1. advisor[m].at \in Place
    BY DEF Basics, AdvisorTypes, Advisor
  <2>2. /\ q \in Place /\ q.phase = advisor[m].at.phase
        /\ q.round = advisor[m].at.round /\ q.stage = "eliminate"
    BY <2>1 DEF Place, Stage
  <2> QED BY <2>2 DEF Running, SameRound
<1>4. Position(q) = Base(q) + 2
  BY <1>3, PositionOf DEF StageNo
<1>5. /\ x.at \in Place /\ Base(x.at) \in Nat
      /\ Position(x.at) = Base(x.at) + 2
  BY SentAt
<1>6. Base(q) = Base(x.at)
  BY <1>3, SameRoundBase
<1> QED BY <1>2, <1>4, <1>5, <1>6

LEMMA RetentionAgrees ==
  ASSUME Basics, InOrder, EliminationsRecorded, RetentionIsShared
  PROVE  RetainedIsMutual
<1> SUFFICES ASSUME NEW n \in Nodes, NEW m \in Nodes, InMatching(n), InMatching(m),
                    SameRound(advisor[n].at, advisor[m].at),
                    m \in advisor[n].retained, m \notin advisor[n].gone,
                    n \notin advisor[m].gone
             PROVE  n \in advisor[m].retained
  BY DEF RetainedIsMutual, SameRound
<1>1. Running(advisor[n].at) /\ Running(advisor[m].at)
      /\ advisor[n].at.stage \in {"match", "cleanup"}
      /\ advisor[m].at.stage \in {"match", "cleanup"}
  BY DEF InMatching, Basics, WellFormed
<1>2. n \in Neighbors(m)
  BY NeighborsSymmetric DEF Basics, WellFormed
<1>3. n \in advisor[m].retained \/ TellsRetained(n, m)
  BY <1>1 DEF RetentionIsShared
<1> QED BY <1>1, <1>2, <1>3, NothingToHear

-----------------------------------------------------------------------------
(* Matches                                                                 *)

\* A neighbour that is written off is no longer free, unless it is one of
\* those that an advisor writes off when it concludes.
GoneIsTaken ==
  \A n \in Nodes :
    /\ advisor[n].advised # None => advisor[n].privatelyMatched
    /\ \A m \in advisor[n].gone : ~IsFree(m) \/ advisor[n].advised \notin {None, m}

\* How an advisor comes by advice, and by neighbours to write off.
LEMMA Promises ==
  ASSUME Basics, NEW n \in Nodes, StepOf(n), NEW m \in Nodes
  PROVE  LET a == advisor[m]
             b == advisor'[m]
         IN
         \/ /\ b.advised = a.advised
            /\ a.privatelyMatched => b.privatelyMatched
            /\ \A k \in b.gone \ a.gone : k \in Nodes /\ ~IsFree(k)
         \/ /\ m = n /\ Finalizes(n, a, b)
            /\ Handle(n) \/ (Moves(n) /\ ToMatch(n))
<1> DEFINE a == advisor[m]
           b == advisor'[m]
<1>1. CASE b = a
  BY <1>1
<1>2. CASE m = n /\ Note(n)
  <2>1. /\ b.advised = a.advised /\ b.privatelyMatched = a.privatelyMatched
        /\ \A k \in b.gone \ a.gone : matchedTo[k] # None
    BY <1>2, NoteEffects
  <2>2. b \in Advisor
    BY Forward
  <2> QED BY <2>1, <2>2 DEF IsFree, Advisor
<1>3. CASE m = n /\ (Retire(n) \/ Start(n))
  <2>1. b.advised = a.advised /\ b.gone = a.gone
    BY <1>3, RetireEffects, StartEffects DEF KeepsPromise
  <2>2. a.privatelyMatched => b.privatelyMatched
    BY <1>3, RetireEffects, StartEffects DEF Grows
  <2> QED BY <2>1, <2>2
<1>4. CASE m = n /\ Handle(n)
  <2> DEFINE x == Head(batch[n])
  <2>1. CASE /\ b.privatelyMatched = a.privatelyMatched /\ b.advised = a.advised
             /\ \A k \in b.gone \ a.gone : x.type = "CLEANUP" /\ k = x.from
    <3>1. x \in Message /\ OnWay(x)
      BY <1>4, HandleEffects
    <3>2. x.from \in Nodes /\ (x.type = "CLEANUP" => ~IsFree(x.from))
      BY <3>1 DEF Basics, WaysSound, Sendable, Message
    <3> QED BY <2>1, <3>2
  <2> QED BY <1>4, <2>1, HandleEffects
<1>5. CASE m = n /\ Moves(n)
  <2>1. CASE ToMatch(n) /\ Finalizes(n, a, b)
    BY <1>5, <2>1
  <2>2. CASE KeepsPromise(n, a, b)
    BY <2>2 DEF KeepsPromise
  <2> QED BY <1>5, <2>1, <2>2
          DEF Moves, ToSelect, ToEliminate, ToMatch, ToCleanup, ToPhase, ToEnd
<1> QED BY <1>1, <1>2, <1>3, <1>4, <1>5, StepGrows, Forward

LEMMA GoneIsTakenStep ==
  ASSUME Basics, GoneIsTaken, NEW n \in Nodes, StepOf(n)
  PROVE  GoneIsTaken'
<1> SUFFICES ASSUME NEW m \in Nodes
             PROVE  /\ advisor'[m].advised # None => advisor'[m].privatelyMatched
                    /\ \A k \in advisor'[m].gone :
                         ~IsFree(k)' \/ advisor'[m].advised \notin {None, k}
  BY DEF GoneIsTaken
<1> DEFINE a == advisor[m]
           b == advisor'[m]
<1>0. a.gone \subseteq Nodes
  BY DEF Basics, AdvisorTypes, Advisor
<1>1. \A k \in Nodes : IsFree(k)' => IsFree(k)
  BY Forward
<1>2. CASE /\ b.advised = a.advised
           /\ a.privatelyMatched => b.privatelyMatched
           /\ \A k \in b.gone \ a.gone : k \in Nodes /\ ~IsFree(k)
  <2>1. a.advised # None => a.privatelyMatched
    BY DEF GoneIsTaken
  <2>2. \A k \in a.gone : ~IsFree(k)' \/ a.advised \notin {None, k}
    BY <1>0, <1>1 DEF GoneIsTaken
  <2> QED BY <1>1, <1>2, <2>1, <2>2
<1>3. CASE m = n /\ Finalizes(n, a, b)
  <2>1. /\ a.advised = None /\ b.privatelyMatched
        /\ b.advised \in Neighbors(n) /\ b.advised # None
        /\ b.gone = a.gone \cup (Neighbors(n) \ {b.advised})
    BY <1>3 DEF Finalizes, CanFinalize, GoneIsTaken, Neighbors
  <2>2. \A k \in a.gone : ~IsFree(k)
    BY <2>1 DEF GoneIsTaken
  <2> QED BY <1>0, <1>1, <2>1, <2>2
<1> QED BY <1>2, <1>3, Promises

\* A MATCH to an endpoint that may still take it is at most one stage ahead,
\* and in its round it is for an edge that is, or is about to be, retained.
MatchesFit ==
  \A x \in Message : x.type = "MATCH" /\ OnWay(x) /\ IsFree(x.to) =>
    /\ Position(x.at) <= Position(advisor[x.to].at) + 1
    /\ SameRound(x.at, advisor[x.to].at) =>
         \/ x.from \in advisor[x.to].retained
         \/ \E y \in Message : /\ y.type = "ELIMINATE" /\ y.from = x.from /\ y.to = x.to
                               /\ SameRound(y.at, x.at) /\ OnWay(y)

LEMMA MatchesFitStep ==
  ASSUME Basics, InStep, EliminatesRetained, RetentionIsShared, GoneIsTaken, MatchesFit,
         NEW n \in Nodes, StepOf(n)
  PROVE  MatchesFit'
<1> SUFFICES ASSUME NEW x \in Message, x.type = "MATCH", OnWay(x)', IsFree(x.to)'
             PROVE  /\ Position(x.at) <= Position(advisor'[x.to].at) + 1
                    /\ SameRound(x.at, advisor'[x.to].at) =>
                         \/ x.from \in advisor'[x.to].retained
                         \/ \E y \in Message :
                              /\ y.type = "ELIMINATE" /\ y.from = x.from /\ y.to = x.to
                              /\ SameRound(y.at, x.at) /\ OnWay(y)'
  BY DEF MatchesFit
<1> DEFINE m == x.to
           k == x.from
<1>0. m \in Nodes /\ k \in Nodes /\ x.at \in Place
  BY DEF Message
<1>1. IsFree(m)
  BY <1>0, Forward
<1>2. /\ Position(advisor[m].at) \in Nat /\ Position(advisor'[m].at) \in Nat
      /\ Position(x.at) \in Nat
      /\ Position(advisor[m].at) <= Position(advisor'[m].at)
  BY <1>0, PositionType, Forward DEF Basics, AdvisorTypes, Advisor
<1>3. CASE OnWay(x)
  <2>1. /\ Position(x.at) <= Position(advisor[m].at) + 1
        /\ SameRound(x.at, advisor[m].at) =>
             \/ k \in advisor[m].retained
             \/ \E y \in Message : /\ y.type = "ELIMINATE" /\ y.from = k /\ y.to = m
                                   /\ SameRound(y.at, x.at) /\ OnWay(y)
    BY <1>1, <1>3 DEF MatchesFit
  <2>2. /\ Running(x.at) /\ Base(x.at) \in Nat
        /\ Position(x.at) = Base(x.at) + 3
    BY <1>3, SentAt
  <2>3. ASSUME SameRound(x.at, advisor'[m].at)
        PROVE  \/ k \in advisor'[m].retained
               \/ \E y \in Message :
                    /\ y.type = "ELIMINATE" /\ y.from = k /\ y.to = m
                    /\ SameRound(y.at, x.at) /\ OnWay(y)'
    <3>1. CASE /\ SameRound(advisor[m].at, advisor'[m].at)
               /\ advisor[m].retained \subseteq advisor'[m].retained
      <4>1. SameRound(x.at, advisor[m].at)
        BY <2>3, <3>1 DEF SameRound
      <4>2. CASE k \in advisor[m].retained
        BY <3>1, <4>2
      <4>3. ASSUME NEW y \in Message, y.type = "ELIMINATE", y.from = k, y.to = m,
                   SameRound(y.at, x.at), OnWay(y)
            PROVE  k \in advisor'[m].retained \/ OnWay(y)'
        <5>1. CASE ~OnWay(y)'
          <6>1. Handle(n) /\ n = m /\ y = Head(batch[n])
            BY <4>3, <5>1, Consumed
          <6>2. SameRound(y.at, advisor[m].at)
            BY <4>1, <4>3 DEF SameRound
          <6> QED BY <1>0, <4>3, <6>1, <6>2, HandleEffects
        <5> QED BY <5>1
      <4> QED BY <2>1, <4>1, <4>2, <4>3
    <3>2. CASE m = n /\ Moves(n) /\ (ToSelect(n) \/ ToPhase(n))
      <4>1. Position(advisor[m].at) <= Base(advisor'[m].at)
        BY <3>2, RoundBegins
      <4>2. Base(advisor'[m].at) = Base(x.at)
        BY <2>3, SameRoundBase
      <4> QED BY <1>2, <2>1, <2>2, <4>1, <4>2
    <3>3. CASE m = n /\ ToEnd(n)
      BY <2>2, <2>3, <3>3 DEF ToEnd, SameRound, Running
    <3> QED BY <1>0, <3>1, <3>2, <3>3, RoundStays
  <2> QED BY <1>2, <2>1, <2>3
<1>4. CASE x \in outbox'[n] /\ Grows(n) /\ k = n
  <2> DEFINE a == advisor[n]
             b == advisor'[n]
  <2>1. Moves(n)
    <3>1. ~Send(n) /\ ~Note(n) /\ ~Retire(n) /\ ~Start(n) /\ ~Handle(n)
      BY <1>4, NoteEffects, RetireEffects, StartEffects, HandleEffects
         DEF Send, Grows
    <3> QED BY <1>4, <3>1, StepGrows DEF Grows
  <2>2. ToMatch(n)
    BY <1>4, <2>1 DEF Moves, ToSelect, ToEliminate, ToCleanup, ToPhase, ToEnd
  <2>3. /\ x.to \in Neighbors(n) /\ x.to # None /\ x.at = b.at
        /\ x.to = b.choice /\ x.to \in b.retained
        /\ CanFinalize(n, a)
        /\ b.gone = a.gone \/ b.gone = a.gone \cup (Neighbors(n) \ {x.to})
    <3>1. x.to \in Neighbors(n) /\ x.to # None /\ x.at = b.at
      BY <1>4 DEF Grows, Neighbors
    <3>2. x.to = b.choice
      BY <1>4, <2>2 DEF ToMatch
    <3>3. CanFinalize(n, a)
      BY <2>2, <3>1, <3>2 DEF ToMatch
    <3>4. x.to \in a.retained /\ b.retained = a.retained
      BY <1>4, <2>2, <3>2 DEF ToMatch
    <3> QED BY <2>2, <3>1, <3>2, <3>3, <3>4 DEF ToMatch, KeepsPromise, Finalizes
  <2>4. m \notin a.gone
    BY <1>1, <2>3 DEF GoneIsTaken, CanFinalize
  <2>5. m \notin b.gone
    BY <2>3, <2>4
  <2>6. InStep' /\ RetentionIsShared'
    BY InStepStep, RetentionIsSharedStep
  <2>7. Position(x.at) <= Position(advisor'[m].at) + 1
    BY <2>3, <2>5, <2>6 DEF InStep
  <2>8. Running(b.at) /\ b.at.stage = "match"
    <3>1. a.at \in Place /\ Running(a.at) /\ b.at = [a.at EXCEPT !.stage = "match"]
      BY <2>1, <2>2 DEF ToMatch, Moves, Basics, AdvisorTypes, Advisor
    <3> QED BY <3>1 DEF Running, Place
  <2>9. SameRound(b.at, advisor'[m].at) =>
          n \in advisor'[m].retained \/ TellsRetained(n, m)'
    BY <2>3, <2>5, <2>6, <2>8 DEF RetentionIsShared
  <2> QED BY <1>4, <2>3, <2>7, <2>9 DEF TellsRetained
<1> QED BY <1>3, <1>4, OnWayStep

\* Whoever concludes takes an edge that it retained in this round.
LEMMA ConcludesRetained ==
  ASSUME Basics, InOrder, MatchesFit, NEW n \in Nodes, StepOf(n), NEW m \in Nodes,
         advisor[m].advised = None, advisor'[m].advised # None
  PROVE  advisor'[m].advised \in advisor'[m].retained
<1> DEFINE a == advisor[m]
           b == advisor'[m]
<1>1. m = n /\ Finalizes(n, a, b) /\ (Handle(n) \/ (Moves(n) /\ ToMatch(n)))
  BY Promises
<1>2. CASE ToMatch(n)
  BY <1>1, <1>2 DEF ToMatch, KeepsPromise
<1>3. CASE Handle(n)
  <2> DEFINE x == Head(batch[n])
  <2>1. /\ x \in Message /\ x.to = n /\ OnWay(x)
        /\ x.type = "MATCH" /\ SameRound(x.at, a.at) /\ b.advised = x.from
        /\ a.retained \subseteq b.retained
    BY <1>1, <1>3, HandleEffects
  <2>2. IsFree(n)
    BY <1>1 DEF Finalizes, CanFinalize, IsFree
  <2>3. ASSUME NEW y \in Message, y.type = "ELIMINATE", y.from = x.from, y.to = n,
               SameRound(y.at, x.at), OnWay(y)
        PROVE  FALSE
    <3>1. OnWay(y)'
      BY <2>1, <2>3, Consumed
    <3>2. Behind(x, y)
      BY <1>3, <2>1, <2>3, <3>1, RestIsBehind DEF Staged
    <3>3. Position(x.at) <= Position(y.at)
      BY <2>1, <2>3, <3>2 DEF InOrder, Staged
    <3>4. Base(y.at) = Base(x.at)
      BY <2>3, SameRoundBase
    <3>5. /\ Base(x.at) \in Nat /\ Position(x.at) = Base(x.at) + 3
          /\ Position(y.at) = Base(y.at) + 2
      BY <2>1, <2>3, SentAt
    <3> QED BY <3>3, <3>4, <3>5
  <2>4. x.from \in a.retained
    BY <1>1, <2>1, <2>2, <2>3 DEF MatchesFit
  <2> QED BY <2>1, <2>4
<1> QED BY <1>1, <1>2, <1>3

-----------------------------------------------------------------------------
(* Choices                                                                 *)

\* The fields that the matching stage is about change when a message is
\* handled or a stage is left.
LEMMA ChoosingSteps ==
  ASSUME Basics, NEW n \in Nodes, StepOf(n), NEW m \in Nodes
  PROVE  LET a == advisor[m]
             b == advisor'[m]
         IN
         \/ /\ b.at = a.at /\ b.choice = a.choice /\ b.notices = a.notices
            /\ b.advised = a.advised
         \/ m = n /\ Handle(n)
         \/ m = n /\ Settle(n) /\ Moves(n)
<1>1. CASE advisor'[m] = advisor[m]
  BY <1>1
<1>2. CASE m = n /\ (Note(n) \/ Retire(n) \/ Start(n))
  BY <1>2, NoteEffects, RetireEffects, StartEffects DEF KeepsPromise
<1> QED BY <1>1, <1>2, StepGrows, Forward

\* Only an advisor that enters the matching stage chooses, for good.
LEMMA ChoiceStays ==
  ASSUME Basics, NEW n \in Nodes, StepOf(n), NEW m \in Nodes
  PROVE  \/ advisor'[m].choice = advisor[m].choice
         \/ m = n /\ Settle(n) /\ Moves(n) /\ ToMatch(n)
BY ChoosingSteps, HandleEffects
   DEF Moves, ToSelect, ToEliminate, ToCleanup, ToPhase, ToEnd

\* A MATCH is queued by a free advisor that enters the matching stage, for its
\* choice.
LEMMA QueuedMatch ==
  ASSUME Basics, NEW n \in Nodes, StepOf(n), Grows(n),
         NEW x \in outbox'[n], x.type = "MATCH"
  PROVE  /\ Settle(n) /\ Moves(n) /\ ToMatch(n) /\ IsFree(n) /\ CanFinalize(n, advisor[n])
         /\ x \in Message /\ x.from = n /\ x.at = advisor'[n].at
         /\ x.to = advisor'[n].choice /\ x.to \in Neighbors(n)
<1>1. ~Send(n) /\ ~Note(n) /\ ~Retire(n) /\ ~Start(n) /\ ~Handle(n)
  BY NoteEffects, RetireEffects, StartEffects, HandleEffects DEF Send, Grows
<1>2. Settle(n) /\ Moves(n)
  BY <1>1, StepGrows DEF StepOf, Grows
<1>3. ToMatch(n)
  BY <1>2 DEF Moves, ToSelect, ToEliminate, ToCleanup, ToPhase, ToEnd
<1>4. /\ x \in Message /\ x.from = n /\ x.at = advisor'[n].at /\ x.to \in Neighbors(n)
      /\ x.to # None
  BY DEF Grows, Neighbors
<1>5. x.to = advisor'[n].choice
  BY <1>3 DEF ToMatch
<1>6. CanFinalize(n, advisor[n])
  BY <1>3, <1>4, <1>5 DEF ToMatch
<1> QED BY <1>2, <1>3, <1>4, <1>5, <1>6 DEF CanFinalize, IsFree

\* Advice is the choice, as long as there is one.
ChoiceFits ==
  \A n \in Nodes : advisor[n].choice # None =>
    advisor[n].choice \in Neighbors(n) /\ advisor[n].advised \in {None, advisor[n].choice}

LEMMA ChoiceFitsStep ==
  ASSUME Basics, GoneIsTaken, ChoiceFits, NEW n \in Nodes, StepOf(n)
  PROVE  ChoiceFits'
<1> SUFFICES ASSUME NEW m \in Nodes, advisor'[m].choice # None
             PROVE  /\ advisor'[m].choice \in Neighbors(m)
                    /\ advisor'[m].advised \in {None, advisor'[m].choice}
  BY DEF ChoiceFits
<1> DEFINE a == advisor[m]
           b == advisor'[m]
<1>1. CASE m = n /\ Moves(n) /\ ToMatch(n)
  <2>1. CanFinalize(n, a)
    BY <1>1 DEF ToMatch
  <2>2. a.advised = None
    BY <2>1 DEF CanFinalize, GoneIsTaken
  <2>3. PICK x \in outbox'[n] : x.to = b.choice
    BY <1>1 DEF ToMatch
  <2>4. b.choice \in Neighbors(m)
    BY <1>1, <2>3 DEF Moves, Grows
  <2> QED BY <1>1, <2>2, <2>4 DEF ToMatch, KeepsPromise
<1>2. CASE b.choice = a.choice
  <2>1. b.choice \in Neighbors(m) /\ a.advised \in {None, b.choice}
    BY <1>2 DEF ChoiceFits
  <2>2. CASE b.advised = a.advised
    BY <2>1, <2>2
  <2>3. CASE m = n /\ Finalizes(n, a, b) /\ Handle(n)
    <3>1. b.advised # a.advised => b.advised = a.choice
      BY <2>3, HandleEffects
    <3> QED BY <1>2, <2>1, <3>1
  <2> QED BY <1>1, <2>2, <2>3, Promises
<1> QED BY <1>1, <1>2, ChoiceStays

InMatchStage(n) ==
  Running(advisor[n].at) /\ advisor[n].at.stage \in {"match", "cleanup"}

\* How an advisor comes to be in the matching of a round.
LEMMA MatchStageStep ==
  ASSUME Basics, NEW n \in Nodes, StepOf(n), NEW m \in Nodes, InMatchStage(m)'
  PROVE  \/ m = n /\ Settle(n) /\ Moves(n) /\ ToMatch(n)
         \/ /\ InMatchStage(m) /\ SameRound(advisor[m].at, advisor'[m].at)
            /\ advisor'[m].choice = advisor[m].choice
            /\ \/ advisor'[m].notices = advisor[m].notices
               \/ m = n /\ Handle(n)
<1> DEFINE a == advisor[m]
           b == advisor'[m]
<1>1. b.at.stage \in {"match", "cleanup"} /\ Running(b.at) /\ a.at \in Place
  BY DEF InMatchStage, Basics, AdvisorTypes, Advisor
<1>2. CASE b.at = a.at /\ b.choice = a.choice
           /\ (b.notices = a.notices \/ (m = n /\ Handle(n)))
  BY <1>2 DEF InMatchStage, SameRound
<1>3. CASE m = n /\ Settle(n) /\ Moves(n)
  <2>1. ~ToSelect(n) /\ ~ToEliminate(n) /\ ~ToPhase(n) /\ ~ToEnd(n)
    <3>1. ~ToEliminate(n)
      BY <1>1, <1>3 DEF ToEliminate, Place
    <3> QED BY <1>1, <1>3, <3>1 DEF ToSelect, ToPhase, ToEnd, Running
  <2>2. CASE ToCleanup(n)
    <3>1. /\ a.at.stage = "match" /\ Running(a.at)
          /\ b.at = [a.at EXCEPT !.stage = "cleanup"]
          /\ b.choice = a.choice /\ b.notices = a.notices
      BY <1>3, <2>2 DEF ToCleanup, Moves
    <3> QED BY <1>1, <3>1 DEF InMatchStage, SameRound, Place
  <2> QED BY <1>3, <2>1, <2>2 DEF Moves
<1> QED BY <1>2, <1>3, ChoosingSteps, HandleEffects

\* An advisor whose choice has chosen it concludes at once.
NoticedConcludes ==
  \A n \in Nodes :
    InMatchStage(n) /\ advisor[n].choice \in advisor[n].notices => ~IsFree(n)

LEMMA NoticedConcludesStep ==
  ASSUME Basics, NoticedConcludes, NEW n \in Nodes, StepOf(n)
  PROVE  NoticedConcludes'
<1> SUFFICES ASSUME NEW m \in Nodes, InMatchStage(m)',
                    advisor'[m].choice \in advisor'[m].notices, IsFree(m)'
             PROVE  FALSE
  BY DEF NoticedConcludes
<1>1. IsFree(m)
  BY Forward
<1>2. ~advisor'[m].privatelyMatched /\ matchedTo[m] = None
  BY <1>1 DEF IsFree
<1>3. CASE m = n /\ ToMatch(n)
  BY <1>2, <1>3 DEF ToMatch, Finalizes
<1>4. CASE /\ InMatchStage(m) /\ advisor'[m].choice = advisor[m].choice
           /\ advisor'[m].notices = advisor[m].notices
  BY <1>1, <1>4 DEF NoticedConcludes
<1>5. CASE /\ InMatchStage(m) /\ advisor'[m].choice = advisor[m].choice
           /\ m = n /\ Handle(n)
  <2>1. advisor[m].choice \notin advisor[m].notices
    BY <1>1, <1>5 DEF NoticedConcludes
  <2> QED BY <1>2, <1>5, <2>1, HandleEffects
<1> QED BY <1>3, <1>4, <1>5, MatchStageStep

\* A matched endpoint has no MATCH left to send.
MatchedSendsNone ==
  \A n \in Nodes : matchedTo[n] # None => \A x \in outbox[n] : x.type # "MATCH"

LEMMA MatchedSendsNoneStep ==
  ASSUME Basics, MatchedSendsNone, NEW n \in Nodes, StepOf(n)
  PROVE  MatchedSendsNone'
<1> SUFFICES ASSUME NEW m \in Nodes, matchedTo'[m] # None, NEW x \in outbox'[m],
                    x.type = "MATCH"
             PROVE  FALSE
  BY DEF MatchedSendsNone
<1>1. matchedTo[m] # None
  BY DEF StepOf, MatchesStay
<1>2. CASE x \in outbox[m]
  BY <1>1, <1>2 DEF MatchedSendsNone
<1>3. CASE m = n /\ Grows(n)
  BY <1>1, <1>3, QueuedMatch DEF CanFinalize
<1>4. CASE m = n /\ Send(n)
  <2>1. PICK y \in outbox[n] : outbox' = [outbox EXCEPT ![n] = @ \ {y}]
    BY <1>4 DEF Send
  <2>2. x \in outbox[m]
    BY <1>4, <2>1 DEF Basics, AdvisorTypes
  <2> QED BY <1>2, <2>2
<1> QED BY <1>2, <1>3, <1>4, StepGrows, OutboxFrame

\* Whoever has sent a CLEANUP sends no MATCH.
CleanupsLast ==
  \A x, y \in Message : Behind(x, y) /\ x.type = "CLEANUP" => y.type # "MATCH"

LEMMA CleanupsLastStep ==
  ASSUME Basics, CleanupsLast, NEW n \in Nodes, StepOf(n)
  PROVE  CleanupsLast'
<1> SUFFICES ASSUME NEW x \in Message, NEW y \in Message, Behind(x, y)',
                    x.type = "CLEANUP", y.type = "MATCH"
             PROVE  FALSE
  BY DEF CleanupsLast
<1>1. CASE Behind(x, y)
  BY <1>1 DEF CleanupsLast
<1>2. CASE OnWay(x) /\ y \in outbox'[n] /\ Grows(n) /\ x.from = n
  <2>1. IsFree(n)
    BY <1>2, QueuedMatch
  <2>2. ~IsFree(n)
    BY <1>2 DEF Basics, WaysSound, Sendable
  <2> QED BY <2>1, <2>2
<1>3. CASE Turn(x) <= Turn(y)
  BY <1>3 DEF Turn
<1> QED BY <1>1, <1>2, <1>3, BehindStep

\* Not drained yet.
InMail(y) ==
  y \in outbox[y.from] \/ \E i \in 1..Len(mailbox[y.to]) : mailbox[y.to][i] = y

LEMMA ConcatSecond ==
  ASSUME NEW S, NEW b \in Seq(S), NEW q \in Seq(S), NEW i \in 1..Len(q)
  PROVE  /\ Len(b) + i \in 1..Len(b \o q)
         /\ (b \o q)[Len(b) + i] = q[i]
<1>1. Len(b) \in Nat /\ Len(q) \in Nat
  BY LenProperties
<1>2. /\ Len(b \o q) = Len(b) + Len(q)
      /\ \A j \in 1..Len(b) + Len(q) :
           (b \o q)[j] = IF j <= Len(b) THEN b[j] ELSE q[j - Len(b)]
  BY ConcatProperties
<1>3. \A c, d \in Nat : \A k \in 1..d :
        c + k \in 1..c + d /\ ~(c + k <= c) /\ (c + k) - c = k
  OBVIOUS
<1>4. /\ Len(b) + i \in 1..Len(b) + Len(q)
      /\ ~(Len(b) + i <= Len(b)) /\ (Len(b) + i) - Len(b) = i
  BY <1>1, <1>3
<1> QED BY <1>2, <1>4

LEMMA MailIsOnWay ==
  ASSUME Basics', NEW y \in Message, InMail(y)'
  PROVE  OnWay(y)'
<1>1. CASE y \in outbox'[y.from]
  BY <1>1 DEF OnWay
<1>2. ASSUME NEW i \in 1..Len(mailbox'[y.to]), mailbox'[y.to][i] = y
      PROVE  OnWay(y)'
  <2>1. batch'[y.to] \in Seq(Message) /\ mailbox'[y.to] \in Seq(Message)
    BY DEF Basics, AdvisorTypes, Message
  <2>2. \A c, d \in Seq(Message) : \A j \in 1..Len(d) :
          Len(c) + j \in 1..Len(c \o d) /\ (c \o d)[Len(c) + j] = d[j]
    BY ConcatSecond
  <2> DEFINE b == batch'[y.to]
             q == mailbox'[y.to]
  <2>3. Way(y.to)' = b \o q
    BY DEF Way
  <2>4. b \in Seq(Message) /\ q \in Seq(Message) /\ i \in 1..Len(q) /\ q[i] = y
    BY <1>2, <2>1
  <2> HIDE DEF b, q
  <2>5. Len(b) + i \in 1..Len(b \o q) /\ (b \o q)[Len(b) + i] = y
    BY <2>2, <2>4
  <2>6. \E j \in 1..Len(Way(y.to)') : Way(y.to)'[j] = y
    BY <2>3, <2>5
  <2> QED BY <2>6 DEF OnWay, Travels
<1> QED BY <1>1, <1>2 DEF InMail

\* The converse holds when the batch has been handled.
LEMMA WayIsMail ==
  ASSUME Basics, NEW y \in Message, batch[y.to] = <<>>, OnWay(y)
  PROVE  InMail(y)
<1>1. mailbox[y.to] \in Seq(Message)
  BY WayType DEF Message
<1>2. Way(y.to) = mailbox[y.to]
  BY <1>1, ConcatEmptySeq DEF Way
<1> QED BY <1>2 DEF OnWay, Travels, InMail

LEMMA InMailStep ==
  ASSUME Basics, NEW n \in Nodes, StepOf(n), NEW y \in Message, InMail(y)'
  PROVE  \/ InMail(y) /\ ~(Note(n) /\ y.to = n /\ y \notin outbox[y.from])
         \/ y \in outbox'[n] /\ Grows(n) /\ y.from = n
<1>0. y.to \in Nodes /\ y.from \in Nodes
  BY DEF Message
<1>1. CASE Send(n)
  <2>1. PICK m \in outbox[n] :
           /\ m \in Message /\ m.to \in Nodes /\ m.from = n
           /\ outbox' = [outbox EXCEPT ![n] = @ \ {m}]
           /\ mailbox' = [mailbox EXCEPT ![m.to] = Append(@, m)]
    BY <1>1, WaySend
  <2>2. y \in outbox'[y.from] => y \in outbox[y.from]
    BY <1>0, <2>1 DEF Basics, AdvisorTypes
  <2>3. ~Note(n)
    BY <2>1 DEF Note, At
  <2>4. CASE y.to = m.to
    <3> DEFINE q == mailbox[y.to]
    <3>1. mailbox'[y.to] = Append(q, m) /\ q \in Seq(Message)
      BY <1>0, <2>1, <2>4 DEF Basics, AdvisorTypes
    <3>2. /\ Len(Append(q, m)) = Len(q) + 1 /\ Len(q) \in Nat
          /\ \A j \in 1..Len(q) : Append(q, m)[j] = q[j]
          /\ Append(q, m)[Len(q) + 1] = m
      BY <2>1, <3>1, AppendProperties, LenProperties
    <3>3. ASSUME NEW i \in 1..Len(Append(q, m)), Append(q, m)[i] = y
          PROVE  InMail(y)
      <4>1. CASE i \in 1..Len(q)
        BY <3>2, <3>3, <4>1 DEF InMail
      <4>2. CASE i = Len(q) + 1
        BY <2>1, <3>2, <3>3, <4>2 DEF InMail
      <4> QED BY <3>2, <4>1, <4>2
    <3> QED BY <2>2, <2>3, <3>1, <3>3 DEF InMail
  <2>5. CASE y.to # m.to
    <3>1. mailbox'[y.to] = mailbox[y.to]
      BY <1>0, <2>1, <2>5 DEF Basics, AdvisorTypes
    <3> QED BY <2>2, <2>3, <3>1 DEF InMail
  <2> QED BY <2>4, <2>5
<1>2. CASE ~Send(n) /\ y \in outbox'[y.from]
  <2>1. CASE y.from = n /\ Grows(n)
    BY <1>2, <2>1
  <2>2. CASE y \in outbox[y.from]
    BY <2>2 DEF InMail
  <2> QED BY <1>0, <1>2, <2>1, <2>2, StepGrows, OutboxFrame
<1>3. ASSUME ~Send(n), NEW i \in 1..Len(mailbox'[y.to]), mailbox'[y.to][i] = y
      PROVE  InMail(y) /\ ~(Note(n) /\ y.to = n)
  <2>1. CASE Note(n)
    <3>1. mailbox' = [mailbox EXCEPT ![n] = <<>>]
      BY <2>1 DEF Note, TakeMail
    <3>2. CASE y.to = n
      <4>1. mailbox'[y.to] = <<>>
        BY <1>0, <3>1, <3>2 DEF Basics, AdvisorTypes
      <4>2. Len(<<>>) = 0 /\ 1..0 = {}
        OBVIOUS
      <4> QED BY <1>3, <4>1, <4>2
    <3>3. CASE y.to # n
      BY <1>0, <1>3, <3>1, <3>3 DEF InMail, Basics, AdvisorTypes
    <3> QED BY <3>2, <3>3
  <2>2. CASE ~Note(n)
    <3>1. mailbox' = mailbox
      BY <1>3, <2>2, HandleEffects DEF StepOf, Retire, Start, Settle
    <3> QED BY <1>3, <2>2, <3>1 DEF InMail
  <2> QED BY <2>1, <2>2
<1> QED BY <1>1, <1>2, <1>3 DEF InMail

\* Whoever is written off has no MATCH that is not drained yet.
GoneHaveSent ==
  \A m \in Nodes : \A n \in advisor[m].gone : advisor[m].advised = None =>
    \A y \in Message : y.type = "MATCH" /\ y.from = n /\ y.to = m => ~InMail(y)

LEMMA GoneHaveSentStep ==
  ASSUME Basics, GoneIsTaken, MatchedSendsNone, CleanupsLast, GoneHaveSent,
         NEW n \in Nodes, StepOf(n)
  PROVE  GoneHaveSent'
<1> SUFFICES ASSUME NEW m \in Nodes, NEW k \in advisor'[m].gone, advisor'[m].advised = None,
                    NEW y \in Message, y.type = "MATCH", y.from = k, y.to = m, InMail(y)'
             PROVE  FALSE
  BY DEF GoneHaveSent
<1> DEFINE a == advisor[m]
           b == advisor'[m]
<1>0. k \in Nodes
  BY DEF Message
<1>1. a.advised = None
  <2>1. ASSUME Finalizes(n, a, b), m = n
        PROVE  FALSE
    BY <2>1 DEF Finalizes, Neighbors
  <2> QED BY <2>1, Promises
<1>2. CASE k \in a.gone
  <2>1. ~IsFree(k)
    BY <1>1, <1>2 DEF GoneIsTaken
  <2>2. ~InMail(y)
    BY <1>1, <1>2 DEF GoneHaveSent
  <2> QED BY <2>1, <2>2, InMailStep, QueuedMatch
<1>3. CASE k \notin a.gone
  <2>1. m = n /\ b # a
    BY <1>3, Forward
  <2>2. CASE Note(n)
    <3>1. matchedTo[k] # None
      BY <1>3, <2>1, <2>2, NoteEffects
    <3>2. y \notin outbox[k]
      BY <1>0, <3>1 DEF MatchedSendsNone
    <3>3. y \in outbox'[n] /\ Grows(n) /\ y.from = n
      BY <2>1, <2>2, <3>2, InMailStep
    <3> QED BY <2>2, <3>3, NoteEffects
  <2>3. CASE Handle(n)
    <3> DEFINE x == Head(batch[n])
    <3>1. x \in Message /\ x.type = "CLEANUP" /\ k = x.from
      <4>1. \/ \A z \in b.gone \ a.gone : x.type = "CLEANUP" /\ z = x.from
            \/ Finalizes(n, a, b)
        BY <2>1, <2>3, HandleEffects
      <4>2. ~Finalizes(n, a, b)
        BY DEF Finalizes, Neighbors
      <4> QED BY <1>3, <2>3, <4>1, <4>2, HandleEffects
    <3>2. OnWay(y)'
      <4>1. Basics'
        BY BasicsStep
      <4> QED BY <4>1, MailIsOnWay
    <3>3. Behind(x, y)
      BY <2>1, <2>3, <3>1, <3>2, RestIsBehind DEF Staged
    <3> QED BY <3>1, <3>3 DEF CleanupsLast
  <2>4. CASE Retire(n) \/ Start(n)
    BY <1>3, <2>1, <2>4, RetireEffects, StartEffects DEF KeepsPromise
  <2>5. CASE Moves(n)
    <3>1. KeepsPromise(n, a, b) \/ Finalizes(n, a, b)
      BY <2>1, <2>5 DEF Moves, ToSelect, ToEliminate, ToMatch, ToCleanup, ToPhase, ToEnd
    <3> QED BY <1>3, <3>1 DEF KeepsPromise, Finalizes, Neighbors
  <2> QED BY <2>1, <2>2, <2>3, <2>4, <2>5, StepGrows
<1> QED BY <1>2, <1>3

\* n has told m its choice, and m is still to hear it.
TellsChoice(n, m) ==
  \E x \in Message : /\ x.type = "MATCH" /\ x.from = n /\ x.to = m
                     /\ SameRound(x.at, advisor[n].at) /\ OnWay(x)

\* A free endpoint that an advisor has chosen hears of it before it has to
\* decide, or has already.
ChoiceIsTold ==
  \A n \in Nodes : LET m == advisor[n].choice IN
    InMatchStage(n) /\ m # None /\ IsFree(m) =>
      \/ TellsChoice(n, m)
      \/ /\ Base(advisor[n].at) + 2 <= Position(advisor[m].at)
         /\ SameRound(advisor[m].at, advisor[n].at) => n \in advisor[m].notices

\* What an advisor has noticed it forgets in another round only.
LEMMA NoticesStay ==
  ASSUME Basics, NEW n \in Nodes, StepOf(n), NEW m \in Nodes
  PROVE  \/ SameRound(advisor[m].at, advisor'[m].at)
            /\ advisor[m].notices \subseteq advisor'[m].notices
         \/ m = n /\ Moves(n) /\ (ToSelect(n) \/ ToPhase(n) \/ ToEnd(n))
<1>1. CASE m = n /\ Moves(n) /\ (ToEliminate(n) \/ ToMatch(n) \/ ToCleanup(n))
  BY <1>1, RoundStays DEF ToEliminate, ToMatch, ToCleanup
<1>2. CASE advisor'[m].at = advisor[m].at /\ advisor'[m].notices = advisor[m].notices
  BY <1>2 DEF SameRound
<1>3. CASE m = n /\ Handle(n)
  <2>1. advisor'[m].at = advisor[m].at /\ advisor[m].notices \subseteq advisor'[m].notices
    BY <1>3, HandleEffects
  <2> QED BY <2>1 DEF SameRound
<1> QED BY <1>1, <1>2, <1>3, ChoosingSteps DEF Moves

LEMMA ChoiceIsToldStep ==
  ASSUME Basics, GoneIsTaken, MatchesFit, ChoiceFits, ChoiceIsTold,
         NEW p \in Nodes, StepOf(p)
  PROVE  ChoiceIsTold'
<1> SUFFICES ASSUME NEW n \in Nodes, NEW m, m = advisor'[n].choice,
                    InMatchStage(n)', m # None, IsFree(m)'
             PROVE  \/ TellsChoice(n, m)'
                    \/ /\ Base(advisor'[n].at) + 2 <= Position(advisor'[m].at)
                       /\ SameRound(advisor'[m].at, advisor'[n].at) => n \in advisor'[m].notices
  BY DEF ChoiceIsTold
<1> DEFINE a == advisor[n]
           b == advisor'[n]
<1>1. CASE n = p /\ Moves(p) /\ ToMatch(p)
  <2>1. PICK x \in outbox'[n] : x.type = "MATCH" /\ x.to = m
    BY <1>1 DEF ToMatch
  <2>2. x \in Message /\ x.from = n /\ x.at = b.at
    BY <1>1, <2>1 DEF Moves, Grows
  <2> QED BY <2>1, <2>2 DEF TellsChoice, OnWay, SameRound
<1>2. CASE InMatchStage(n) /\ SameRound(a.at, b.at) /\ b.choice = a.choice
  <2>0. m \in Nodes
    BY <1>2 DEF ChoiceFits, Neighbors
  <2>1. IsFree(m)
    BY <2>0, Forward
  <2>2. Base(a.at) = Base(b.at) /\ Base(a.at) \in Nat
    <3>1. a.at \in Place /\ Running(a.at)
      BY <1>2 DEF InMatchStage, Basics, AdvisorTypes, Advisor
    <3> QED BY <1>2, <3>1, SameRoundBase, PositionOf
  <2>3. /\ Position(advisor[m].at) \in Nat /\ Position(advisor'[m].at) \in Nat
        /\ Position(advisor[m].at) <= Position(advisor'[m].at)
    BY <2>0, PositionType, Forward DEF Basics, AdvisorTypes, Advisor
  <2>4. CASE /\ Base(a.at) + 2 <= Position(advisor[m].at)
             /\ SameRound(advisor[m].at, a.at) => n \in advisor[m].notices
    <3>1. Base(b.at) + 2 <= Position(advisor'[m].at)
      BY <2>2, <2>3, <2>4
    <3>2. ASSUME SameRound(advisor'[m].at, b.at)
          PROVE  n \in advisor'[m].notices
      <4>1. CASE /\ SameRound(advisor[m].at, advisor'[m].at)
                 /\ advisor[m].notices \subseteq advisor'[m].notices
        BY <1>2, <2>4, <3>2, <4>1 DEF SameRound
      <4>2. CASE m = p /\ Moves(p) /\ (ToSelect(p) \/ ToPhase(p))
        <5>1. Position(advisor[m].at) <= Base(advisor'[m].at)
          BY <4>2, RoundBegins
        <5>2. Base(advisor'[m].at) = Base(b.at)
          BY <3>2, SameRoundBase
        <5> QED BY <2>2, <2>3, <2>4, <5>1, <5>2
      <4>3. CASE m = p /\ ToEnd(p)
        BY <3>2, <4>3 DEF ToEnd, SameRound, Running, InMatchStage
      <4> QED BY <2>0, <4>1, <4>2, <4>3, NoticesStay
    <3> QED BY <3>1, <3>2
  <2>5. ASSUME NEW x \in Message, x.type = "MATCH", x.from = n, x.to = m,
               SameRound(x.at, a.at), OnWay(x)
        PROVE  \/ TellsChoice(n, m)'
               \/ /\ Base(b.at) + 2 <= Position(advisor'[m].at)
                  /\ SameRound(advisor'[m].at, b.at) => n \in advisor'[m].notices
    <3>1. CASE OnWay(x)'
      <4>1. SameRound(x.at, b.at)
        BY <1>2, <2>5 DEF SameRound
      <4> QED BY <2>5, <3>1, <4>1 DEF TellsChoice
    <3>2. CASE ~OnWay(x)'
      <4>1. Handle(p) /\ m = p /\ x = Head(batch[p])
        BY <2>5, <3>2, Consumed
      <4>2. advisor'[m].at = advisor[m].at
        BY <4>1, HandleEffects
      <4>3. Base(b.at) + 2 <= Position(advisor[m].at)
        <5>1. Position(x.at) <= Position(advisor[m].at) + 1
          BY <2>1, <2>5 DEF MatchesFit
        <5>2. Position(x.at) = Base(x.at) + 3
          BY <2>5, SentAt
        <5>3. Base(x.at) = Base(a.at)
          BY <2>5, SameRoundBase
        <5> QED BY <2>2, <2>3, <5>1, <5>2, <5>3
      <4>4. SameRound(advisor'[m].at, b.at) => SameRound(x.at, advisor[m].at)
        BY <1>2, <2>5, <4>2 DEF SameRound
      <4>5. SameRound(x.at, advisor[m].at) => n \in advisor'[m].notices
        BY <2>5, <4>1, HandleEffects
      <4> QED BY <4>2, <4>3, <4>4, <4>5
    <3> QED BY <3>1, <3>2
  <2>6. \/ TellsChoice(n, m)
        \/ /\ Base(a.at) + 2 <= Position(advisor[m].at)
           /\ SameRound(advisor[m].at, a.at) => n \in advisor[m].notices
    BY <1>2, <2>1 DEF ChoiceIsTold
  <2> QED BY <2>4, <2>5, <2>6 DEF TellsChoice
<1> QED BY <1>1, <1>2, MatchStageStep

\* A free advisor does not leave the matching stage while its choice, in the
\* same stage or the next, has chosen it.
LEMMA Settled ==
  ASSUME Basics, InOrder, GoneIsTaken, ChoiceFits, NoticedConcludes, GoneHaveSent,
         ChoiceIsTold,
         NEW m \in Nodes, Settle(m), Moves(m), advisor[m].at.stage = "match", IsFree(m),
         NEW k \in Nodes, advisor[m].choice = k, advisor[k].choice = m,
         InMatchStage(k), SameRound(advisor[m].at, advisor[k].at)
  PROVE  FALSE
<1>0. InMatchStage(m) /\ advisor[m].at \in Place /\ m # None /\ k # None
  BY DEF InMatchStage, Moves, Basics, AdvisorTypes, Advisor
<1>1. k \notin advisor[m].notices
  BY <1>0 DEF NoticedConcludes
<1>2. PICK x \in Message : /\ x.type = "MATCH" /\ x.from = k /\ x.to = m
                           /\ SameRound(x.at, advisor[k].at) /\ OnWay(x)
  <2>1. TellsChoice(k, m)
    BY <1>0, <1>1 DEF ChoiceIsTold
  <2> QED BY <2>1 DEF TellsChoice
<1>3. InMail(x)
  BY <1>2, SettleEffects, WayIsMail
<1>4. advisor[m].advised = None
  BY DEF GoneIsTaken, IsFree
<1>5. k \in Neighbors(m) \ advisor[m].gone
  BY <1>0, <1>2, <1>3, <1>4 DEF GoneHaveSent, ChoiceFits
<1>6. <<k, advisor[m].at>> \in advisor[m].syncs
  BY <1>5, MovesWithAll
<1>7. Position(advisor[m].at) < Position(x.at)
  <2>1. \A s \in advisor[m].syncs : \A y \in Message :
          y.to = m /\ y.from = s[1] /\ OnWay(y) /\ Staged(y) =>
            Position(s[2]) < Position(y.at)
    BY DEF InOrder
  <2> QED BY <1>2, <1>6, <2>1 DEF Staged
<1>8. Position(advisor[m].at) = Base(advisor[m].at) + 3
  BY <1>0, PositionOf DEF StageNo, Moves
<1>9. Position(x.at) = Base(x.at) + 3 /\ Base(x.at) \in Nat
  BY <1>2, SentAt
<1>10. Base(x.at) = Base(advisor[m].at)
  <2>1. SameRound(x.at, advisor[m].at)
    BY <1>2 DEF SameRound
  <2> QED BY <2>1, SameRoundBase
<1> QED BY <1>7, <1>8, <1>9, <1>10

-----------------------------------------------------------------------------
(* Claims                                                                  *)

\* Nothing more will be concluded by m but in favour of k.
Done(m, k) ==
  ~IsFree(m) /\ advisor[m].advised \in {None, k} /\ advisor[m].choice \in {None, k}

\* m is done, or matching in the same round and has chosen k.
Bound(m, k) ==
  \/ Done(m, k)
  \/ /\ Running(advisor[m].at) /\ advisor[m].at.stage = "match"
     /\ advisor[m].choice = k /\ SameRound(advisor[m].at, advisor[k].at)

\* m's MATCH is on its way to k, which may still conclude by it.
HearsOf(k, m) ==
  /\ IsFree(k)
  /\ \E x \in Message : /\ x.type = "MATCH" /\ x.from = m /\ x.to = k
                        /\ SameRound(x.at, advisor[k].at) /\ OnWay(x)
  /\ advisor[k].at.stage \in {"match", "cleanup"} => advisor[k].choice = m

\* k has m's MATCH and has not chosen yet.
Heard(k, m) ==
  /\ IsFree(k) /\ advisor[k].at.stage \in {"select", "eliminate"}
  /\ m \in advisor[k].notices

\* k is advised to take m, or may be in this round without m doing anything more.
Claims(k, m) == TakesNow(k, m) \/ HearsOf(k, m) \/ Heard(k, m)

\* A neighbour that is claimed is bound to its claimant, the only one.
ClaimsHold ==
  /\ \A k, m \in Nodes : Claims(k, m) => Bound(m, k)
  /\ \A k, n, m \in Nodes : Claims(k, m) /\ Claims(n, m) => k = n

\* Where a claim comes from.
NewClaim(k, m, n) ==
  /\ m = n /\ Moves(m) /\ ToMatch(m) /\ CanFinalize(m, advisor[m])
  /\ advisor'[m].choice = k /\ SameRound(advisor'[m].at, advisor'[k].at)

OldClaim(k, m, n) ==
  /\ Claims(k, m)
  /\ \/ SameRound(advisor[k].at, advisor'[k].at)
     \/ k = n /\ Moves(k) /\ ToEnd(k) /\ TakesNow(k, m)

LEMMA TakesNowStep ==
  ASSUME Basics, GoneIsTaken, NEW n \in Nodes, StepOf(n),
         NEW k \in Nodes, NEW m \in Nodes, TakesNow(k, m)'
  PROVE  OldClaim(k, m, n)
<1> DEFINE a == advisor[k]
           b == advisor'[k]
<1>0. /\ b.advised = m /\ b.choice = m /\ b.at.stage \in {"match", "cleanup"}
      /\ m # None
  BY DEF TakesNow
<1>1. CASE b.at = a.at /\ b.choice = a.choice /\ b.advised = a.advised
  BY <1>0, <1>1 DEF TakesNow, OldClaim, Claims, SameRound
<1>2. CASE k = n /\ Handle(n)
  <2> DEFINE x == Head(batch[n])
  <2>1. b.at = a.at /\ b.choice = a.choice
    BY <1>2, HandleEffects
  <2>2. CASE b.advised = a.advised
    BY <1>1, <2>1, <2>2
  <2>3. CASE b.advised # a.advised
    <3>1. /\ x \in Message /\ x.to = k /\ OnWay(x) /\ x.type = "MATCH"
          /\ SameRound(x.at, a.at) /\ x.from = m /\ CanFinalize(k, a)
      BY <1>0, <1>2, <2>1, <2>3, HandleEffects DEF Finalizes
    <3>2. IsFree(k)
      BY <3>1 DEF CanFinalize, IsFree
    <3>3. HearsOf(k, m)
      BY <1>0, <2>1, <3>1, <3>2 DEF HearsOf
    <3> QED BY <2>1, <3>3 DEF OldClaim, Claims, SameRound
  <2> QED BY <2>2, <2>3
<1>3. CASE k = n /\ Moves(n)
  <2>0. a.at \in Place /\ b.at \in Place
    BY <1>3 DEF Moves, Grows, Basics, AdvisorTypes, Advisor
  <2>1. ~ToSelect(n) /\ ~ToEliminate(n) /\ ~ToPhase(n)
    BY <1>0, <1>3, <2>0 DEF ToSelect, ToEliminate, ToPhase, Place
  <2>2. CASE ToMatch(n)
    <3>1. CanFinalize(n, a)
      BY <1>0, <1>3, <2>2 DEF ToMatch
    <3>2. a.advised = None /\ IsFree(k)
      BY <1>3, <3>1 DEF CanFinalize, GoneIsTaken, IsFree
    <3>3. m \in a.notices /\ a.at.stage = "eliminate" /\ b.at = [a.at EXCEPT !.stage = "match"]
      BY <1>0, <1>3, <2>2, <3>2 DEF ToMatch, KeepsPromise
    <3>4. Heard(k, m)
      BY <3>2, <3>3 DEF Heard
    <3>5. SameRound(a.at, b.at)
      BY <2>0, <3>3 DEF SameRound, Place
    <3> QED BY <3>4, <3>5 DEF OldClaim, Claims
  <2>3. CASE ToCleanup(n)
    <3>1. /\ a.at.stage = "match" /\ b.at = [a.at EXCEPT !.stage = "cleanup"]
          /\ b.choice = a.choice /\ b.advised = a.advised
      BY <1>3, <2>3 DEF ToCleanup, KeepsPromise
    <3>2. SameRound(a.at, b.at)
      BY <2>0, <3>1 DEF SameRound, Place
    <3> QED BY <1>0, <3>1, <3>2 DEF TakesNow, OldClaim, Claims
  <2>4. CASE ToEnd(n)
    <3>1. a.at.stage = "cleanup" /\ b.choice = a.choice /\ b.advised = a.advised
      BY <1>3, <2>4 DEF ToEnd, KeepsPromise
    <3> QED BY <1>0, <1>3, <2>4, <3>1 DEF TakesNow, OldClaim, Claims
  <2> QED BY <1>3, <2>1, <2>2, <2>3, <2>4 DEF Moves
<1> QED BY <1>1, <1>2, <1>3, ChoosingSteps

LEMMA HearsOfStep ==
  ASSUME Basics, GoneIsTaken, MatchesFit, NEW n \in Nodes, StepOf(n),
         NEW k \in Nodes, NEW m \in Nodes, HearsOf(k, m)'
  PROVE  OldClaim(k, m, n) \/ NewClaim(k, m, n)
<1> DEFINE a == advisor[k]
           b == advisor'[k]
<1>0. IsFree(k) /\ (b.at.stage \in {"match", "cleanup"} => b.choice = m)
  BY Forward DEF HearsOf
<1>1. PICK x \in Message : /\ x.type = "MATCH" /\ x.from = m /\ x.to = k
                           /\ SameRound(x.at, b.at) /\ OnWay(x)'
  BY DEF HearsOf
<1>2. CASE x \in outbox'[n] /\ Grows(n) /\ x.from = n
  <2>1. /\ Moves(n) /\ ToMatch(n) /\ CanFinalize(n, advisor[n]) /\ x.at = advisor'[n].at
        /\ k = advisor'[n].choice
    BY <1>1, <1>2, QueuedMatch
  <2> QED BY <1>1, <1>2, <2>1 DEF NewClaim
<1>3. CASE OnWay(x)
  <2>0. a.at \in Place /\ b.at \in Place /\ Position(a.at) \in Nat
    BY PositionType, Forward DEF Basics, AdvisorTypes, Advisor
  <2>1. Running(x.at) /\ Base(x.at) \in Nat /\ Position(x.at) = Base(x.at) + 3
    BY <1>3, <1>1, SentAt
  <2>2. CASE b.at = a.at /\ b.choice = a.choice
    <3>1. HearsOf(k, m)
      BY <1>0, <1>1, <1>3, <2>2 DEF HearsOf
    <3> QED BY <2>2, <3>1 DEF OldClaim, Claims, SameRound
  <2>3. CASE k = n /\ Moves(n) /\ (ToEliminate(n) \/ ToMatch(n) \/ ToCleanup(n))
    <3>1. PICK s \in {"eliminate", "match", "cleanup"} : b.at = [a.at EXCEPT !.stage = s]
      BY <2>3 DEF ToEliminate, ToMatch, ToCleanup
    <3>2. SameRound(a.at, b.at) /\ b.at.stage = s
      BY <2>0, <3>1 DEF SameRound, Place
    <3>3. a.at.stage \in {"match", "cleanup"} => b.at.stage = "cleanup" /\ a.choice = b.choice
      BY <2>0, <2>3 DEF ToEliminate, ToMatch, ToCleanup, Place
    <3>4. SameRound(x.at, a.at)
      BY <1>1, <3>2 DEF SameRound
    <3>5. HearsOf(k, m)
      BY <1>0, <1>1, <1>3, <3>3, <3>4 DEF HearsOf
    <3> QED BY <3>2, <3>5 DEF OldClaim, Claims
  <2>4. ~(k = n /\ Moves(n) /\ (ToSelect(n) \/ ToPhase(n)))
    <3> SUFFICES ASSUME k = n, Moves(n), ToSelect(n) \/ ToPhase(n) PROVE FALSE
      OBVIOUS
    <3>1. Position(a.at) <= Base(b.at)
      BY RoundBegins
    <3>2. Base(b.at) = Base(x.at)
      BY <1>1, SameRoundBase
    <3>3. Position(x.at) <= Position(a.at) + 1
      BY <1>0, <1>1, <1>3 DEF MatchesFit
    <3> QED BY <2>0, <2>1, <3>1, <3>2, <3>3
  <2>5. ~(k = n /\ ToEnd(n))
    BY <1>1, <2>1 DEF ToEnd, SameRound, Running
  <2> QED BY <2>2, <2>3, <2>4, <2>5, ChoosingSteps, HandleEffects DEF Moves
<1> QED BY <1>1, <1>2, <1>3, OnWayStep

LEMMA HeardStep ==
  ASSUME Basics, NEW n \in Nodes, StepOf(n),
         NEW k \in Nodes, NEW m \in Nodes, Heard(k, m)'
  PROVE  OldClaim(k, m, n)
<1> DEFINE a == advisor[k]
           b == advisor'[k]
<1>0. IsFree(k) /\ b.at.stage \in {"select", "eliminate"} /\ m \in b.notices
  BY Forward DEF Heard
<1>1. CASE b.at = a.at /\ b.notices = a.notices
  BY <1>0, <1>1 DEF Heard, OldClaim, Claims, SameRound
<1>2. CASE k = n /\ Handle(n)
  <2> DEFINE x == Head(batch[n])
  <2>1. b.at = a.at
    BY <1>2, HandleEffects
  <2>2. CASE m \in a.notices
    BY <1>0, <2>1, <2>2 DEF Heard, OldClaim, Claims, SameRound
  <2>3. CASE m \notin a.notices
    <3>1. /\ x \in Message /\ x.to = k /\ OnWay(x) /\ x.type = "MATCH"
          /\ SameRound(x.at, a.at) /\ x.from = m
      BY <1>0, <1>2, <2>3, HandleEffects
    <3>2. HearsOf(k, m)
      BY <1>0, <2>1, <3>1 DEF HearsOf
    <3> QED BY <2>1, <3>2 DEF OldClaim, Claims, SameRound
  <2> QED BY <2>2, <2>3
<1>3. CASE k = n /\ Moves(n)
  <2>0. a.at \in Place /\ b.at \in Place
    BY <1>3 DEF Moves, Grows, Basics, AdvisorTypes, Advisor
  <2>1. ToEliminate(n)
    <3>1. ~ToSelect(n)
      BY <1>0, <1>3 DEF ToSelect
    <3>2. ~ToMatch(n) /\ ~ToCleanup(n) /\ ~ToPhase(n) /\ ~ToEnd(n)
      BY <1>0, <1>3, <2>0 DEF ToMatch, ToCleanup, ToPhase, ToEnd, Place
    <3> QED BY <1>3, <3>1, <3>2 DEF Moves
  <2>2. /\ a.at.stage = "select" /\ b.at = [a.at EXCEPT !.stage = "eliminate"]
        /\ b.notices = a.notices
    BY <1>3, <2>1 DEF ToEliminate
  <2>3. SameRound(a.at, b.at)
    BY <2>0, <2>2 DEF SameRound, Place
  <2> QED BY <1>0, <2>2, <2>3 DEF Heard, OldClaim, Claims
<1> QED BY <1>1, <1>2, <1>3, ChoosingSteps

LEMMA ClaimStep ==
  ASSUME Basics, GoneIsTaken, MatchesFit, NEW n \in Nodes, StepOf(n),
         NEW k \in Nodes, NEW m \in Nodes, Claims(k, m)'
  PROVE  OldClaim(k, m, n) \/ NewClaim(k, m, n)
BY TakesNowStep, HearsOfStep, HeardStep DEF Claims

LEMMA DoneStays ==
  ASSUME Basics, NEW n \in Nodes, StepOf(n), NEW m \in Nodes, NEW k, Done(m, k)
  PROVE  Done(m, k)'
<1> DEFINE a == advisor[m]
           b == advisor'[m]
<1>1. ~IsFree(m) /\ ~CanFinalize(m, a)
  BY DEF Done, IsFree, CanFinalize
<1>2. ~IsFree(m)'
  BY <1>1, Forward
<1>3. b.advised = a.advised
  BY <1>1, Promises DEF Finalizes
<1>4. b.choice \in {None, a.choice}
  <2>1. CASE m = n /\ ToMatch(n)
    BY <1>1, <2>1 DEF ToMatch
  <2> QED BY <2>1, ChoiceStays
<1> QED BY <1>2, <1>3, <1>4 DEF Done

\* A choice that is not free any more is done.
LEMMA ChosenIsDone ==
  ASSUME ChoiceFits, NEW m \in Nodes, ~IsFree(m), NEW k \in Nodes, advisor[m].choice = k
  PROVE  Done(m, k)
BY DEF ChoiceFits, Done

\* Whoever is bound to a claimant stays so.
LEMMA BoundStays ==
  ASSUME Basics, InStep, InOrder, GoneIsTaken, ChoiceFits, NoticedConcludes,
         GoneHaveSent, ChoiceIsTold,
         NEW n \in Nodes, StepOf(n), NEW k \in Nodes, NEW m \in Nodes,
         OldClaim(k, m, n), Bound(m, k)
  PROVE  Bound(m, k)'
<1> DEFINE a == advisor[m]
           b == advisor'[m]
<1>1. CASE Done(m, k)
  BY <1>1, DoneStays DEF Bound
<1>2. CASE ~Done(m, k)
  <2>1. /\ a.at.stage = "match" /\ a.choice = k /\ SameRound(a.at, advisor[k].at)
        /\ IsFree(m) /\ a.advised = None /\ Running(a.at)
    <3>1. /\ a.at.stage = "match" /\ a.choice = k /\ SameRound(a.at, advisor[k].at)
          /\ Running(a.at)
      BY <1>2 DEF Bound
    <3>2. IsFree(m)
      BY <1>2, <3>1, ChosenIsDone
    <3> QED BY <3>1, <3>2 DEF GoneIsTaken, IsFree
  <2>2. /\ a.at \in Place /\ Running(a.at) /\ advisor[k].at \in Place
        /\ Position(a.at) = Base(a.at) + 3 /\ Base(a.at) \in Nat
        /\ Base(advisor[k].at) = Base(a.at) /\ Running(advisor[k].at)
        /\ Position(advisor[k].at) = Base(a.at) + StageNo(advisor[k].at.stage)
    <3>1. a.at \in Place /\ advisor[k].at \in Place
      BY DEF Basics, AdvisorTypes, Advisor
    <3>2. Running(a.at)
      BY <2>1
    <3>3. Position(a.at) = Base(a.at) + 3 /\ Base(a.at) \in Nat
      BY <2>1, <3>1, <3>2, PositionOf DEF StageNo
    <3>4. Base(advisor[k].at) = Base(a.at)
      BY <2>1, SameRoundBase
    <3>5. Running(advisor[k].at)
      BY <2>1, <3>2 DEF Basics, WellFormed, Running, SameRound
    <3>6. Position(advisor[k].at) = Base(a.at) + StageNo(advisor[k].at.stage)
      BY <3>1, <3>4, <3>5, PositionOf
    <3> QED BY <3>1, <3>2, <3>3, <3>4, <3>5, <3>6
  <2>3. k \in Neighbors(m) /\ k # None
    BY <2>1 DEF ChoiceFits
  <2>4. SameRound(advisor[k].at, advisor'[k].at)
    <3> SUFFICES ASSUME k = n, Moves(k), ToEnd(k), TakesNow(k, m) PROVE FALSE
      BY DEF OldClaim
    <3>1. advisor[k].at.stage = "cleanup"
      BY DEF ToEnd
    <3>2. m \notin advisor[k].gone
      BY <2>1 DEF TakesNow, GoneIsTaken
    <3>3. m \in Neighbors(k)
      BY <2>3, NeighborsSymmetric
    <3>4. Position(advisor[k].at) <= Position(a.at)
      BY <3>2, <3>3, MovesWithAll
    <3>5. Position(advisor[k].at) = Base(a.at) + 4
      BY <2>2, <3>1 DEF StageNo
    <3> QED BY <2>2, <3>4, <3>5
  <2>5. CASE b.at = a.at /\ b.choice = a.choice
    BY <2>1, <2>4, <2>5 DEF Bound, SameRound
  <2>6. ASSUME m = n, Settle(n), Moves(n)
        PROVE  FALSE
    <3>1. CASE IsFree(k)
      <4>1. k \in Neighbors(m) \ a.gone
        BY <2>1, <2>3, <3>1 DEF GoneIsTaken
      <4>2. Position(a.at) <= Position(advisor[k].at)
        BY <2>6, <4>1, MovesWithAll
      <4>3. StageNo(advisor[k].at.stage) \in 0..4 /\ StageNo(advisor[k].at.stage) >= 3
        BY <2>2, <4>2, PositionOf
      <4>4. advisor[k].at.stage \in {"match", "cleanup"}
        BY <2>2, <4>3 DEF StageNo, Place, Stage
      <4>5. advisor[k].choice = m
        BY <4>4 DEF OldClaim, Claims, TakesNow, HearsOf, Heard
      <4> QED BY <2>1, <2>2, <2>6, <4>4, <4>5, Settled DEF InMatchStage
    <3>2. CASE ~IsFree(k)
      <4>1. TakesNow(k, m)
        BY <3>2 DEF OldClaim, Claims, HearsOf, Heard
      <4> QED BY <2>1, <2>2, <2>6, <4>1, Settled DEF InMatchStage, TakesNow
    <3> QED BY <3>1, <3>2
  <2>7. CASE m = n /\ Handle(n)
    BY <2>5, <2>7, HandleEffects
  <2> QED BY <2>5, <2>6, <2>7, ChoosingSteps
<1> QED BY <1>1, <1>2

LEMMA ClaimsHoldStep ==
  ASSUME Basics, InStep, InOrder, GoneIsTaken, MatchesFit, ChoiceFits,
         NoticedConcludes, GoneHaveSent, ChoiceIsTold, ClaimsHold,
         NEW n \in Nodes, StepOf(n)
  PROVE  ClaimsHold'
<1>1. ASSUME NEW k \in Nodes, NEW m \in Nodes, Claims(k, m)'
      PROVE  Bound(m, k)'
  <2>1. CASE OldClaim(k, m, n)
    <3>1. Bound(m, k)
      BY <2>1 DEF OldClaim, ClaimsHold
    <3> QED BY <2>1, <3>1, BoundStays
  <2>2. CASE NewClaim(k, m, n)
    <3>1. Running(advisor'[m].at) /\ advisor'[m].at.stage = "match"
      <4>1. advisor[m].at \in Place
        BY DEF Basics, AdvisorTypes, Advisor
      <4>2. /\ Running(advisor[m].at)
            /\ advisor'[m].at = [advisor[m].at EXCEPT !.stage = "match"]
        BY <2>2 DEF NewClaim, Moves, ToMatch
      <4> QED BY <4>1, <4>2 DEF Running, Place
    <3> QED BY <2>2, <3>1 DEF NewClaim, Bound
  <2> QED BY <1>1, <2>1, <2>2, ClaimStep
<1>2. ASSUME NEW k \in Nodes, NEW j \in Nodes, NEW m \in Nodes,
             OldClaim(k, m, n), NewClaim(j, m, n)
      PROVE  FALSE
  <2>1. Bound(m, k)
    BY <1>2 DEF OldClaim, ClaimsHold
  <2>2. advisor[m].at.stage = "eliminate" /\ IsFree(m)
    BY <1>2 DEF NewClaim, ToMatch, CanFinalize, IsFree
  <2> QED BY <2>1, <2>2 DEF Bound, Done
<1>3. ASSUME NEW k \in Nodes, NEW j \in Nodes, NEW m \in Nodes,
             Claims(k, m)', Claims(j, m)'
      PROVE  k = j
  <2>1. CASE OldClaim(k, m, n) /\ OldClaim(j, m, n)
    BY <2>1 DEF OldClaim, ClaimsHold
  <2>2. CASE NewClaim(k, m, n) /\ NewClaim(j, m, n)
    BY <2>2 DEF NewClaim
  <2> QED BY <1>2, <1>3, <2>1, <2>2, ClaimStep
<1> QED BY <1>1, <1>3 DEF ClaimsHold

LEMMA ClaimsAgree ==
  ASSUME ChoiceFits, ClaimsHold
  PROVE  AdviceAgrees
<1> SUFFICES ASSUME NEW n \in Nodes, NEW m \in Nodes, TakesNow(n, m)
             PROVE  /\ advisor[m].advised \in {None, n}
                    /\ \A k \in Nodes \ {n} : ~TakesNow(k, m)
  BY DEF AdviceAgrees
<1>1. Bound(m, n)
  BY DEF Claims, ClaimsHold
<1>2. advisor[m].advised \in {None, n}
  BY <1>1 DEF Bound, Done, ChoiceFits
<1> QED BY <1>2 DEF Claims, ClaimsHold

-----------------------------------------------------------------------------
(* The advisors of a run                                                   *)

\* The inductive invariant, as far as it is about the advisors.
Kept ==
  /\ Basics /\ InStep /\ InOrder
  /\ EliminatesRetained /\ RetentionIsShared /\ EliminationsRecorded
  /\ GoneIsTaken /\ MatchesFit
  /\ ChoiceFits /\ NoticedConcludes /\ MatchedSendsNone /\ CleanupsLast
  /\ GoneHaveSent /\ ChoiceIsTold /\ ClaimsHold

LEMMA KeptStep ==
  ASSUME Kept, NEW n \in Nodes, StepOf(n)
  PROVE  Kept'
BY BasicsStep, InStepStep, InOrderStep, EliminatesRetainedStep,
   RetentionIsSharedStep, EliminationsRecordedStep, GoneIsTakenStep,
   MatchesFitStep, ChoiceFitsStep, NoticedConcludesStep, MatchedSendsNoneStep,
   CleanupsLastStep, GoneHaveSentStep, ChoiceIsToldStep, ClaimsHoldStep
   DEF Kept

\* Nothing is sent and nobody knows anything yet.
LEMMA KeptInit ==
  ASSUME AdvisorInit, matchedTo \in [Nodes -> Nodes \cup {None}]
  PROVE  Kept
<1> USE DEF AdvisorInit
<1>1. NewAdvisor \in Advisor /\ NewAdvisor.at \in Place
  <2>1. 0 \in 0..MaxPhases /\ 0 \in 0..RoundsPerPhase
    OBVIOUS
  <2>2. [phase |-> 0, round |-> 0, stage |-> "valid"] \in Place
    BY <2>1 DEF Place, Stage
  <2> QED BY <2>2 DEF NewAdvisor, Advisor
<1>2. \A n \in Nodes : /\ advisor[n] = NewAdvisor /\ outbox[n] = {}
                       /\ batch[n] = <<>> /\ mailbox[n] = <<>> /\ step[n] = "idle"
  OBVIOUS
<1>3. AdvisorTypes
  BY <1>1 DEF AdvisorTypes
<1>4. \A n \in Nodes : Way(n) = <<>>
  <2>1. <<>> \o <<>> = <<>>
    BY ConcatEmptySeq, EmptySeq
  <2> QED BY <1>2, <2>1 DEF Way
<1>5. \A x \in Message : ~OnWay(x)
  <2>1. Len(<<>>) = 0
    OBVIOUS
  <2>2. \A x \in Message : 1..Len(Way(x.to)) = {}
    BY <1>4, <2>1 DEF Message
  <2> QED BY <1>2, <2>2 DEF OnWay, Travels, Message
<1>6. WaysSound
  <2>1. \A n \in Nodes : 1..Len(Way(n)) = {}
    <3>1. Len(<<>>) = 0 /\ 1..0 = {}
      OBVIOUS
    <3> QED BY <1>4, <3>1
  <2> QED BY <1>2, <1>5, <2>1 DEF WaysSound
<1>7. Basics
  <2>1. /\ NewAdvisor.syncs = {} /\ Running(NewAdvisor.at) /\ NewAdvisor.at.phase < MaxPhases
        /\ ~NewAdvisor.started
        /\ NewAdvisor.candidates \cup NewAdvisor.valid \cup NewAdvisor.imposed
             \cup NewAdvisor.retained = {}
    BY DEF NewAdvisor, Running
  <2>2. \A n \in Nodes : WellFormed(n)
    BY <1>2, <2>1 DEF WellFormed
  <2>3. SyncsSound
    BY <1>2, <2>1 DEF SyncsSound
  <2> QED BY <1>3, <1>6, <2>2, <2>3 DEF Basics
<1>8. InStep
  <2>1. Position(NewAdvisor.at) \in Nat
    BY <1>1, PositionType
  <2>2. Position(NewAdvisor.at) <= Position(NewAdvisor.at) + 1
    BY <2>1
  <2> QED BY <1>2, <2>2 DEF InStep, Neighbors
<1>9. InOrder
  <2>1. NewAdvisor.syncs = {}
    BY DEF NewAdvisor
  <2>2. \A x, y \in Message : ~Behind(x, y)
    <3>1. \A x \in Message : 1..Len(Way(x.to)) = {}
      <4>1. Len(<<>>) = 0
        OBVIOUS
      <4> QED BY <1>4, <4>1 DEF Message
    <3>2. \A x \in Message : ~Travels(x)
      BY <1>5 DEF OnWay
    <3> QED BY <3>1, <3>2 DEF Behind
  <2> QED BY <1>2, <2>1, <2>2 DEF InOrder
<1>10. EliminatesRetained /\ MatchesFit
  BY <1>5 DEF EliminatesRetained, MatchesFit
<1>11. RetentionIsShared /\ EliminationsRecorded /\ GoneIsTaken
  BY <1>2 DEF RetentionIsShared, EliminationsRecorded, GoneIsTaken, NewAdvisor
<1>12. /\ ChoiceFits /\ NoticedConcludes /\ MatchedSendsNone /\ GoneHaveSent
       /\ ChoiceIsTold
  BY <1>2 DEF ChoiceFits, NoticedConcludes, MatchedSendsNone, GoneHaveSent,
              ChoiceIsTold, InMatchStage, NewAdvisor
<1>13. CleanupsLast
  <2>1. \A x, y \in Message : ~Behind(x, y)
    <3>1. \A x \in Message : 1..Len(Way(x.to)) = {}
      <4>1. Len(<<>>) = 0 /\ 1..0 = {}
        OBVIOUS
      <4> QED BY <1>4, <4>1 DEF Message
    <3>2. \A x \in Message : ~Travels(x)
      BY <1>5 DEF OnWay
    <3> QED BY <3>1, <3>2 DEF Behind
  <2> QED BY <2>1 DEF CleanupsLast
<1>14. ClaimsHold
  <2>1. \A k, m \in Nodes : ~TakesNow(k, m) /\ ~Heard(k, m)
    BY <1>2 DEF TakesNow, Heard, NewAdvisor
  <2>2. \A k, m \in Nodes : ~HearsOf(k, m)
    BY <1>5 DEF HearsOf
  <2> QED BY <2>1, <2>2 DEF ClaimsHold, Claims
<1> QED BY <1>7, <1>8, <1>9, <1>10, <1>11, <1>12, <1>13, <1>14 DEF Kept

\* Nothing happens to the advisors, though their endpoints may commit.
LEMMA KeptAside ==
  ASSUME Kept, MatchesStay, UNCHANGED <<mailbox, batch, outbox, step, advisor>>
  PROVE  Kept'
<1>1. /\ \A n : Way(n)' = Way(n)
      /\ \A n \in Nodes : IsFree(n)' => IsFree(n)
      /\ \A n \in Nodes : matchedTo[n] # None => matchedTo'[n] # None
  BY DEF Way, IsFree, MatchesStay
<1>2. \A x : (Travels(x)' <=> Travels(x)) /\ (OnWay(x)' <=> OnWay(x))
  BY <1>1 DEF Travels, OnWay
<1>3. \A x : Sendable(x) => Sendable(x)'
  BY <1>1 DEF Sendable, Message
<1>4. \A x, y : Behind(x, y)' <=> Behind(x, y)
  BY <1>1, <1>2 DEF Behind
<1>5. Basics'
  <2>1. AdvisorTypes' /\ (\A n \in Nodes : WellFormed(n)') /\ SyncsSound'
    BY DEF Kept, Basics, AdvisorTypes, WellFormed, SyncsSound
  <2>2. WaysSound'
    BY <1>1, <1>2, <1>3 DEF Kept, Basics, WaysSound
  <2> QED BY <2>1, <2>2 DEF Basics
<1>6. InStep' /\ EliminationsRecorded'
  BY DEF Kept, InStep, EliminationsRecorded
<1>7. GoneIsTaken'
  <2>1. \A n \in Nodes : advisor[n].gone \subseteq Nodes
    BY DEF Kept, Basics, AdvisorTypes, Advisor
  <2> QED BY <1>1, <2>1 DEF Kept, GoneIsTaken
<1>8. InOrder'
  BY <1>2, <1>4 DEF Kept, InOrder
<1>9. EliminatesRetained'
  BY <1>2 DEF Kept, EliminatesRetained
<1>10. RetentionIsShared'
  <2>1. \A n, m : TellsRetained(n, m)' <=> TellsRetained(n, m)
    BY <1>2 DEF TellsRetained
  <2> QED BY <2>1 DEF Kept, RetentionIsShared
<1>11. MatchesFit'
  BY <1>1, <1>2 DEF Kept, MatchesFit, Message
<1>12. ChoiceFits' /\ NoticedConcludes' /\ CleanupsLast'
  BY <1>1, <1>4 DEF Kept, ChoiceFits, NoticedConcludes, InMatchStage, CleanupsLast
<1>13. MatchedSendsNone'
  BY DEF Kept, MatchedSendsNone, MatchesStay
<1>14. GoneHaveSent'
  <2>1. \A y : InMail(y)' <=> InMail(y)
    BY DEF InMail
  <2> QED BY <2>1 DEF Kept, GoneHaveSent
<1>15. ChoiceIsTold'
  <2>1. \A n, m : TellsChoice(n, m)' <=> TellsChoice(n, m)
    BY <1>2 DEF TellsChoice
  <2>2. \A n : InMatchStage(n)' <=> InMatchStage(n)
    BY DEF InMatchStage
  <2>3. \A n \in Nodes : advisor[n].choice \in Nodes \cup {None}
    BY DEF Kept, Basics, AdvisorTypes, Advisor
  <2> QED BY <1>1, <2>1, <2>2, <2>3 DEF Kept, ChoiceIsTold
<1>16. ClaimsHold'
  <2>1. \A k, m \in Nodes : Claims(k, m)' => Claims(k, m)
    <3>1. \A k, m : TakesNow(k, m)' <=> TakesNow(k, m)
      BY DEF TakesNow
    <3>2. \A k, m \in Nodes : Heard(k, m)' => Heard(k, m)
      BY <1>1 DEF Heard
    <3>3. \A k, m \in Nodes : HearsOf(k, m)' => HearsOf(k, m)
      BY <1>1, <1>2 DEF HearsOf
    <3> QED BY <3>1, <3>2, <3>3 DEF Claims
  <2>2. \A k, m \in Nodes : Bound(m, k) => Bound(m, k)'
    BY <1>1 DEF Bound, Done
  <2> QED BY <2>1, <2>2 DEF Kept, ClaimsHold
<1> QED BY <1>5, <1>6, <1>7, <1>8, <1>9, <1>10, <1>11, <1>12, <1>13, <1>14, <1>15, <1>16
        DEF Kept

\* Senders of MATCHED messages are matched, so draining notes only those.
LEMMA DrainNotes ==
  ASSUME TypeOK, Basics, NEW n \in Nodes, Drain(n)
  PROVE  /\ Note(n) /\ MatchesStay
         /\ matchedTo' \in [Nodes -> Nodes \cup {None}]
         /\ unavailable' \in [Nodes -> SUBSET Nodes] /\ finished' \subseteq Nodes
<1> DEFINE S == {mailbox[n][i].from : i \in
                      {j \in DOMAIN mailbox[n] : mailbox[n][j].type = "MATCHED"}}
           a == advisor[n]
           b == MarkUnavailable(a, S)
<1>1. /\ At(n, "idle") /\ TakeMail(n) /\ batch[n] = <<>>
      /\ mailbox[n] \in Seq(Message) /\ a \in Advisor
  BY DEF Drain, At, Basics, WellFormed, AdvisorTypes
<1>2. \A s \in S : s \in Nodes /\ matchedTo[s] # None
  <2> TAKE s \in S
  <2>1. PICK i \in DOMAIN mailbox[n] : s = mailbox[n][i].from /\ mailbox[n][i].type = "MATCHED"
    OBVIOUS
  <2> DEFINE x == mailbox[n][i]
  <2>2. Way(n) = mailbox[n] /\ i \in 1..Len(Way(n))
    BY <1>1, ConcatEmptySeq, LenProperties DEF Way
  <2>3. x \in Message /\ x.to = n
    BY <2>2, WayType DEF Basics, WaysSound
  <2>4. OnWay(x)
    BY <2>2, <2>3 DEF OnWay, Travels
  <2> QED BY <2>1, <2>3, <2>4 DEF Basics, WaysSound, Sendable, Message
<1>3. S \in SUBSET Nodes
  BY <1>2
<1> HIDE DEF S
<1>4. b.at = a.at
  BY <1>1 DEF MarkUnavailable, Advisor
<1>5. \A R : ToAll(n, b, "MATCHED", R) = ToAll(n, a, "MATCHED", R)
  BY <1>4 DEF ToAll
<1>6. unavailable' = [unavailable EXCEPT ![n] = @ \cup S] /\ finished' = finished
  BY DEF Drain, S
<1>7. CASE /\ Become(n, b, {}) /\ UNCHANGED matchedTo
           /\ GoTo(n, IF a.started THEN "handle" ELSE "start")
  <2>1. ToAll(n, a, "MATCHED", {}) = {}
    BY DEF ToAll
  <2>2. Note(n)
    <3>1. /\ {} \in SUBSET Nodes /\ {} \subseteq Neighbors(n)
          /\ Become(n, MarkUnavailable(a, S), ToAll(n, a, "MATCHED", {}))
      BY <1>7, <2>1
    <3>2. \E s \in {"retire", "start", "handle"} :
             /\ GoTo(n, s)
             /\ s = "start" => ~a.started
             /\ s = "handle" => a.started
      BY <1>7
    <3> QED BY <1>1, <1>2, <1>3, <3>1, <3>2 DEF Note
  <2> QED BY <1>3, <1>6, <1>7, <2>2 DEF MatchesStay, TypeOK
<1>8. ASSUME NEW m \in Neighbors(n), matchedTo' = [matchedTo EXCEPT ![n] = m],
             Become(n, b, ToAll(n, b, "MATCHED", Neighbors(n) \ {m})),
             GoTo(n, "retire")
      PROVE  /\ Note(n) /\ MatchesStay
             /\ matchedTo' \in [Nodes -> Nodes \cup {None}]
             /\ unavailable' \in [Nodes -> SUBSET Nodes] /\ finished' \subseteq Nodes
  <2> DEFINE R == Neighbors(n) \ {m}
  <2>1. m \in Nodes /\ m # None /\ R \in SUBSET Nodes
    BY DEF Neighbors
  <2>2. matchedTo'[n] # None /\ MatchesStay
    <3>1. b \in Advisor
      BY <1>1, <1>3 DEF MarkUnavailable, Advisor
    <3>2. outbox'[n] = ToAll(n, b, "MATCHED", R)
      BY <1>8 DEF Become, TypeOK
    <3>3. \A x \in outbox'[n] : x.type = "MATCHED"
      BY <3>1, <3>2, ToAllType
    <3>4. /\ matchedTo'[n] = m
          /\ \A k \in Nodes \ {n} : matchedTo'[k] = matchedTo[k]
      BY <1>8 DEF TypeOK
    <3> QED BY <2>1, <3>3, <3>4 DEF MatchesStay
  <2>3. Become(n, MarkUnavailable(a, S), ToAll(n, a, "MATCHED", R))
    BY <1>5, <1>8
  <2>4. Note(n)
    BY <1>1, <1>2, <1>3, <1>8, <2>1, <2>2, <2>3 DEF Note
  <2> QED BY <1>3, <1>6, <1>8, <2>1, <2>2, <2>4 DEF TypeOK
<1> QED BY <1>7, <1>8 DEF Drain, S

\* The advisor's part of the steps of a node.
LEMMA NodeStepKeeps ==
  ASSUME TypeOK, Basics, NEW n \in Nodes, NodeStep(n)
  PROVE  /\ StepOf(n)
         /\ matchedTo' \in [Nodes -> Nodes \cup {None}]
         /\ unavailable' \in [Nodes -> SUBSET Nodes] /\ finished' \subseteq Nodes
<1>1. CASE Drain(n)
  BY <1>1, DrainNotes DEF StepOf
<1>2. CASE EndTick(n)
  BY <1>2 DEF EndTick, StepOf, MatchesStay, TypeOK
<1>3. CASE UNCHANGED endpoint /\ (Send(n) \/ Retire(n) \/ Start(n) \/ Handle(n))
  BY <1>3 DEF endpoint, StepOf, MatchesStay, TypeOK
<1>4. CASE Handle(n)
  BY <1>3, <1>4, HandleEffects
<1> QED BY <1>1, <1>2, <1>3, <1>4 DEF NodeStep, Send, Retire, Start

IInv == TypeOK /\ Kept

LEMMA IInvInit ==
  ASSUME Init
  PROVE  IInv
<1>1. matchedTo \in [Nodes -> Nodes \cup {None}]
  BY DEF Init
<1>2. Kept
  BY <1>1, KeptInit DEF Init
<1> QED BY <1>1, <1>2 DEF IInv, TypeOK, Kept, Basics, AdvisorTypes, Init

LEMMA IInvNext ==
  ASSUME IInv, [Next]_vars
  PROVE  IInv'
<1>1. CASE UNCHANGED vars
  BY <1>1, KeptAside DEF IInv, TypeOK, MatchesStay, vars
<1>2. ASSUME NEW n \in Nodes, NodeStep(n)
      PROVE  IInv'
  <2>1. /\ StepOf(n)
        /\ matchedTo' \in [Nodes -> Nodes \cup {None}]
        /\ unavailable' \in [Nodes -> SUBSET Nodes] /\ finished' \subseteq Nodes
    BY <1>2, NodeStepKeeps DEF IInv, Kept
  <2>2. Kept'
    BY <2>1, KeptStep DEF IInv
  <2> QED BY <2>1, <2>2 DEF IInv, TypeOK, Kept, Basics, AdvisorTypes
<1> QED BY <1>1, <1>2 DEF Next, IdleTick, Terminated

LEMMA SpecKeeps == Spec => []IInv
<1>1. Init => IInv
  BY IInvInit
<1>2. IInv /\ [Next]_vars => IInv'
  BY IInvNext
<1> QED BY <1>1, <1>2, PTL DEF Spec

-----------------------------------------------------------------------------
(* Theorems                                                                *)

\* The variables of the model are of their types.
THEOREM TypeCorrect == Spec => []TypeOK
<1>1. IInv => TypeOK
  BY DEF IInv
<1> QED BY <1>1, SpecKeeps, PTL

\* The SYNCs are a barrier between the stages of neighbours
\* (_advance_if_synchronized).
THEOREM InStepCorrect == Spec => []InStep
<1>1. IInv => InStep
  BY DEF IInv, Kept
<1> QED BY <1>1, SpecKeeps, PTL

\* The ends of an edge agree on retaining it: an ELIMINATE is handled before
\* its recipient leaves the eliminate stage (begin_elimination, handle_elimination).
THEOREM RetainedIsMutualCorrect == Spec => []RetainedIsMutual
<1>1. IInv => RetainedIsMutual
  BY RetentionAgrees DEF IInv, Kept
<1> QED BY <1>1, SpecKeeps, PTL

\* _finalize_match is only called for an edge of this round's matching graph,
\* though match_choice may be that of an earlier round.
THEOREM AdvisedIsRetainedCorrect == Spec => AdvisedIsRetained
<1>1. ASSUME IInv, [Next]_vars
      PROVE  [\A n \in Nodes : advisor[n].advised = None /\ advisor'[n].advised # None
                 => advisor'[n].advised \in advisor'[n].retained]_vars
  <2>1. CASE UNCHANGED vars
    BY <2>1
  <2>2. ASSUME NEW n \in Nodes, NodeStep(n), NEW m \in Nodes,
               advisor[m].advised = None, advisor'[m].advised # None
        PROVE  advisor'[m].advised \in advisor'[m].retained
    <3>1. StepOf(n)
      BY <1>1, <2>2, NodeStepKeeps DEF IInv, Kept
    <3> QED BY <1>1, <2>2, <3>1, ConcludesRetained DEF IInv, Kept
  <2> QED BY <1>1, <2>1, <2>2 DEF Next, IdleTick, Terminated
<1>2. IInv /\ [Next]_vars
        => [\A n \in Nodes : advisor[n].advised = None /\ advisor'[n].advised # None
               => advisor'[n].advised \in advisor'[n].retained]_vars
  BY <1>1
<1> HIDE DEF IInv, Next, vars
<1> QED BY <1>2, SpecKeeps, PTL DEF Spec, AdvisedIsRetained

\* While a round lasts its advice does not conflict (_finalize_match,
\* retire_from_shared_matcher), however late a MATCH arrives.
THEOREM AdviceAgreesCorrect == Spec => []AdviceAgrees
<1>1. IInv => AdviceAgrees
  BY ClaimsAgree DEF IInv, Kept
<1> QED BY <1>1, SpecKeeps, PTL

=============================================================================
