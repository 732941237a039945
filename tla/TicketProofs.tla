---------------------------- MODULE TicketProofs ----------------------------
(***************************************************************************)
(* Two specifications that write tickets and their board from an earlier   *)
(* read.  First TicketUpdate: what interleaved updates may do to the       *)
(* labels of a ticket, what they leave on its board, and what a batch      *)
(* answers, for any callers, arguments, labels and rules.  Then            *)
(* BoardColumns: what providing a column keeps of the board.               *)
(*                                                                         *)
(* The snapshots are the difficulty: an update writes what it read, however*)
(* long ago.  So each invariant on the server's labels or columns is       *)
(* strengthened to the snapshots, out of which the next state may come.    *)
(* The values an update leaves on the board are the last of a list, so     *)
(* BoardInv says that those written so far, followed by those still to     *)
(* write, end as the whole list does.                                      *)
(***************************************************************************)
EXTENDS TicketUpdate, BoardColumns, TLAPS, WellFoundedInduction, SequenceTheorems

-----------------------------------------------------------------------------
(* LastValue returns what some write of the list gives the field.          *)
LEMMA LastWriteExists ==
    ASSUME NEW writes \in Seq(Fields \X Values), NEW f,
           \E i \in DOMAIN writes : writes[i][1] = f
    PROVE  \E i \in DOMAIN writes :
             /\ writes[i][1] = f
             /\ \A j \in DOMAIN writes : writes[j][1] = f => j <= i
<1> DEFINE n == Len(writes)
           T == {k \in 0..n : n - k \in 1..n /\ writes[n - k][1] = f}
           R == OpToRel(<, Nat)
<1>1. n \in Nat /\ DOMAIN writes = 1..n
  BY LenProperties
<1>2. T \subseteq Nat /\ T # {}
  <2>1. PICK i \in 1..n : writes[i][1] = f
    BY <1>1
  <2>2. n - i \in 0..n /\ n - (n - i) = i
    BY <1>1
  <2>3. n - i \in T
    BY <1>1, <2>1, <2>2
  <2>4. T \subseteq Nat
    BY <1>1
  <2> HIDE DEF T
  <2> QED
    BY <2>3, <2>4
<1>3. PICK k \in T : \A m \in T : ~(<<m, k>> \in R)
  <2> HIDE DEF T
  <2> QED
    BY <1>2, NatLessThanWellFounded, WFMin
<1>4. \A m \in T : ~(m < k)
  <2> HIDE DEF T
  <2> QED
    BY <1>2, <1>3 DEF OpToRel
<1>5. n - k \in 1..n /\ writes[n - k][1] = f
  OBVIOUS
<1>6. ASSUME NEW j \in 1..n, writes[j][1] = f
      PROVE  j <= n - k
  <2>1. n - j \in T
    BY <1>1, <1>6
  <2>2. ~(n - j < k)
    BY <1>4, <2>1
  <2>3. k \in Nat
    BY <1>2
  <2> HIDE DEF T
  <2> QED
    BY <1>1, <2>2, <2>3
<1> QED
  BY <1>1, <1>5, <1>6

LEMMA LastValueIsWritten ==
    ASSUME NEW writes \in Seq(Fields \X Values), NEW f, NEW old
    PROVE  \/ \E i \in DOMAIN writes : writes[i] = <<f, LastValue(writes, f, old)>>
           \/ /\ \A i \in DOMAIN writes : writes[i][1] # f
              /\ LastValue(writes, f, old) = old
<1>1. CASE \E i \in DOMAIN writes : writes[i][1] = f
  <2> DEFINE k == CHOOSE i \in DOMAIN writes :
                    /\ writes[i][1] = f
                    /\ \A j \in DOMAIN writes : writes[j][1] = f => j <= i
  <2>1. k \in DOMAIN writes /\ writes[k][1] = f
    BY <1>1, LastWriteExists
  <2>2. LastValue(writes, f, old) = writes[k][2]
    BY <1>1 DEF LastValue
  <2>3. writes[k] \in Fields \X Values
    BY <2>1, ElementOfSeq, LenProperties
  <2> HIDE DEF k
  <2>4. writes[k] = <<writes[k][1], writes[k][2]>>
    BY <2>3
  <2> QED
    BY <2>1, <2>2, <2>4
<1>2. CASE ~\E i \in DOMAIN writes : writes[i][1] = f
  BY <1>2 DEF LastValue
<1> QED
  BY <1>1, <1>2

(* A field that keeps or gets a value of the board has one.                *)
LEMMA LastValueType ==
    ASSUME NEW writes \in Seq(Fields \X Values), NEW f, NEW old, NEW S,
           old \in S, Values \subseteq S
    PROVE  LastValue(writes, f, old) \in S
<1>1. CASE \E i \in DOMAIN writes : writes[i] = <<f, LastValue(writes, f, old)>>
  <2>1. PICK i \in DOMAIN writes : writes[i] = <<f, LastValue(writes, f, old)>>
    BY <1>1
  <2>2. writes[i] \in Fields \X Values
    BY ElementOfSeq, LenProperties
  <2> QED
    BY <2>1, <2>2
<1>2. CASE LastValue(writes, f, old) = old
  BY <1>2
<1> QED
  BY <1>1, <1>2, LastValueIsWritten

-----------------------------------------------------------------------------
(* Types of what an update computes.                                       *)
LEMMA RequestType ==
    ASSUME TypeOK, NEW c \in Callers
    PROVE  req[c] \in Arguments
<1>1. <<>> \in Seq(Fields \X Values)
  BY EmptySeq
<1>2. NoRequest \in Arguments
  BY <1>1 DEF NoRequest, Arguments, States
<1> QED
  BY <1>2, UpdateConstants DEF TypeOK

LEMMA MoveLabelsType ==
    ASSUME NEW r \in Arguments
    PROVE  /\ MoveLabels(r) \subseteq Labels
           /\ MoveLabels(r) \subseteq
                UNION {OnMove[k] : k \in {k \in Columns :
                  \E i \in DOMAIN r.fields : r.fields[i] = <<"column", k>>}}
<1>1. ASSUME NEW k \in Columns, FirstColumn(r, k)
      PROVE  \E i \in DOMAIN r.fields : r.fields[i] = <<"column", k>>
  BY <1>1 DEF FirstColumn
<1>2. ASSUME NEW k \in Columns
      PROVE  OnMove[k] \subseteq Labels
  BY UpdateConstants
<1> QED
  BY <1>1, <1>2 DEF MoveLabels

LEMMA LabelTypes ==
    ASSUME TypeOK, NEW c \in Callers
    PROVE  /\ Merged(c) \subseteq Labels
           /\ Stampable(c) \subseteq Labels
           /\ GitLabAdds(c) \subseteq Labels
           /\ GitLabLabels(c) \subseteq Labels
           /\ AzureLabels(c) \subseteq Labels
           /\ MergedPeople(c) \subseteq People
           /\ \A people \in AzurePeople(c) : people \subseteq People
<1>1. req[c] \in Arguments
  BY RequestType
<1>2. snap[c] \in Tickets /\ ticket \in Tickets
  BY DEF TypeOK
<1>3. /\ req[c].add \subseteq Labels /\ req[c].remove \subseteq Labels
      /\ req[c].join \subseteq People /\ req[c].leave \subseteq People
  BY <1>1 DEF Arguments
<1>4. /\ snap[c].labels \subseteq Labels /\ snap[c].people \subseteq People
      /\ ticket.labels \subseteq Labels
  BY <1>2 DEF Tickets
<1>5. MoveLabels(req[c]) \subseteq Labels
  BY <1>1, MoveLabelsType
<1>6. Gen \in Labels /\ Mod \in Labels /\ OnUpdate \subseteq Labels
  BY UpdateConstants
<1>7. Merged(c) \subseteq Labels
  BY <1>3, <1>4 DEF Merged
<1>8. Stampable(c) \subseteq Labels
  BY <1>5, <1>6 DEF Stampable
<1>9. GitLabAdds(c) \subseteq Labels
  BY <1>3, <1>6 DEF GitLabAdds
<1>10. GitLabLabels(c) \subseteq Labels
  BY <1>4, <1>9 DEF GitLabLabels
<1>11. AzureLabels(c) \subseteq Labels
  BY <1>6, <1>7 DEF AzureLabels
<1>12. MergedPeople(c) \subseteq People
  BY <1>3, <1>4 DEF MergedPeople
<1>13. \A people \in AzurePeople(c) : people \subseteq People
  BY <1>3, <1>4 DEF AzurePeople
<1> QED
  BY <1>7, <1>8, <1>9, <1>10, <1>11, <1>12, <1>13

LEMMA BoardWritesType ==
    ASSUME TypeOK, NEW c \in Callers
    PROVE  /\ MilestoneWrite(req[c]) \in Seq(Fields \X Values)
           /\ BoardWrites(c) \in Seq(Fields \X Values)
<1>1. req[c].fields \in Seq(Fields \X Values)
  BY RequestType DEF Arguments
<1>2. req[c].milestone \in Values \cup {Unset}
  BY RequestType DEF Arguments
<1>3. <<>> \in Seq(Fields \X Values)
  BY EmptySeq
<1>4. ASSUME NEW p \in Fields \X Values
      PROVE  <<p>> \in Seq(Fields \X Values)
  OBVIOUS
<1>5. MilestoneWrite(req[c]) \in Seq(Fields \X Values)
  <2>1. CASE req[c].milestone = Unset
    BY <1>3, <2>1 DEF MilestoneWrite
  <2>2. CASE req[c].milestone # Unset
    <3>1. <<"iteration", req[c].milestone>> \in Fields \X Values
      BY <1>2, <2>2 DEF Fields
    <3> QED
      BY <1>4, <2>2, <3>1 DEF MilestoneWrite
  <2> QED
    BY <2>1, <2>2
<1>6. (IF Resets(c) THEN <<<<"column", First>>>> ELSE <<>>)
        \in Seq(Fields \X Values)
  <2>1. <<"column", First>> \in Fields \X Values
    BY UpdateConstants DEF Fields, Values
  <2> QED
    BY <1>3, <1>4, <2>1
<1>7. req[c].fields \o MilestoneWrite(req[c]) \in Seq(Fields \X Values)
  BY <1>1, <1>5, ConcatProperties
<1>8. BoardWrites(c) \in Seq(Fields \X Values)
  BY <1>6, <1>7, ConcatProperties DEF BoardWrites
<1> QED
  BY <1>5, <1>8
-----------------------------------------------------------------------------
(* The types of what a step changes of its caller.                         *)
CallerTypes ==
    /\ pc \in [Callers -> PCs]
    /\ snap \in [Callers -> Tickets]
    /\ todo \in [Callers -> Seq(Fields \X Values)]
    /\ tries \in [Callers -> 0..RegetPollMaxAttempts]
    /\ results \in [Callers -> Seq(Outcomes)]
    /\ wrote \in [Callers -> [Fields -> Values \cup {Unset}]]

LEMMA BlankTypes ==
    /\ NoTicket \in Tickets
    /\ NothingWritten \in [Fields -> Values \cup {Unset}]
    /\ <<>> \in Seq(Fields \X Values)
    /\ 0 \in 0..RegetPollMaxAttempts
BY EmptySeq, UpdateConstants
   DEF NoTicket, Tickets, NothingWritten, Values, States, Marks

LEMMA ConcludeTypes ==
    ASSUME TypeOK, NEW c \in Callers, NEW outcome \in Outcomes,
           Conclude(c, outcome)
    PROVE  CallerTypes'
<1>1. Append(results[c], outcome) \in Seq(Outcomes)
  BY AppendProperties DEF TypeOK, Outcomes
<1>2. NextUp(c, outcome) \in PCs
  BY DEF NextUp, PCs
<1> QED
  BY <1>1, <1>2, BlankTypes DEF TypeOK, CallerTypes, Conclude

LEMMA FailTypes ==
    ASSUME TypeOK, NEW c \in Callers, Fails(c)
    PROVE  CallerTypes'
BY ConcludeTypes DEF Fails, Failures, Outcomes

LEMMA AnsweredTypes ==
    ASSUME TypeOK, NEW c \in Callers, NEW next \in PCs,
           NEW writes \in Seq(Fields \X Values),
           NEW board \in [Fields -> Values \cup {Unset}],
           Answered(c, next, writes, board)
    PROVE  CallerTypes'
<1>1. CASE Fails(c)
  BY <1>1, FailTypes
<1>2. CASE /\ pc' = [pc EXCEPT ![c] = next]
           /\ todo' = [todo EXCEPT ![c] = writes]
           /\ wrote' = [wrote EXCEPT ![c] = board]
           /\ UNCHANGED <<results, snap, tries>>
  BY <1>2 DEF TypeOK, CallerTypes
<1> QED
  BY <1>1, <1>2 DEF Answered

(* What a write makes of the ticket, whatever the provider.                *)
LEMMA WrittenTicketType ==
    ASSUME TypeOK, NEW c \in Callers, req[c].status # "bogus",
           NEW labels \in SUBSET Labels, NEW people \in SUBSET People,
           NEW board \in [Fields -> Values]
    PROVE  [ticket EXCEPT
              !.labels = labels, !.people = people,
              !.mark = IF req[c].body THEN NewMark(c) ELSE @,
              !.state = NewState(req[c], @), !.board = board] \in Tickets
<1>1. req[c].status \in States \cup {"none", "bogus"}
  BY RequestType DEF Arguments
<1>2. NewMark(c) \in Marks
  BY DEF NewMark, Marks
<1>3. ticket.state \in States /\ ticket.mark \in Marks
  BY DEF TypeOK, Tickets
<1>4. NewState(req[c], ticket.state) \in States
  BY <1>1, <1>3 DEF NewState
<1> QED
  BY <1>2, <1>3, <1>4 DEF TypeOK, Tickets

LEMMA WriteGitHubTypes ==
    ASSUME TypeOK, NEW c \in Callers, WriteGitHub(c)
    PROVE  TypeOK'
<1>1. PICK stamped \in SUBSET (Stampable(c) \ Merged(c)) :
        LET r      == req[c]
            labels == Merged(c) \cup stamped
            people == MergedPeople(c)
            empty  == /\ ~r.title /\ ~r.body /\ r.status = "none"
                      /\ labels = snap[c].labels /\ people = snap[c].people
        IN
        /\ IF empty
           THEN /\ pc' = [pc EXCEPT ![c] = "board"]
                /\ todo' = [todo EXCEPT ![c] = BoardWrites(c)]
                /\ UNCHANGED <<ticket, results, snap, tries, wrote>>
           ELSE /\ ticket' =
                     [ticket EXCEPT
                        !.labels = IF labels = snap[c].labels THEN @ ELSE labels,
                        !.people = IF people = snap[c].people THEN @ ELSE people,
                        !.mark   = IF r.body THEN NewMark(c) ELSE @,
                        !.state  = NewState(r, @)]
                /\ Answered(c, "board", BoardWrites(c), NothingWritten)
        /\ unstamped' = (unstamped \/ stamped # Stampable(c) \ Merged(c))
  BY DEF WriteGitHub
<1> DEFINE labels == Merged(c) \cup stamped
           people == MergedPeople(c)
           L == IF labels = snap[c].labels THEN ticket.labels ELSE labels
           Q == IF people = snap[c].people THEN ticket.people ELSE people
<1>2. labels \subseteq Labels /\ people \subseteq People
  BY LabelTypes
<1>3. ticket \in Tickets
  BY DEF TypeOK
<1>4. L \in SUBSET Labels /\ Q \in SUBSET People /\ ticket.board \in [Fields -> Values]
  BY <1>2, <1>3 DEF Tickets
<1>5. "board" \in PCs /\ BoardWrites(c) \in Seq(Fields \X Values)
  BY BoardWritesType DEF PCs
<1>6. ticket' \in Tickets /\ CallerTypes'
  <2>1. CASE ticket' = ticket /\ todo' = [todo EXCEPT ![c] = BoardWrites(c)]
             /\ pc' = [pc EXCEPT ![c] = "board"]
             /\ UNCHANGED <<results, snap, tries, wrote>>
    BY <1>3, <1>5, <2>1 DEF TypeOK, CallerTypes
  <2>2. CASE /\ ticket' =
                  [ticket EXCEPT
                     !.labels = L, !.people = Q,
                     !.mark   = IF req[c].body THEN NewMark(c) ELSE @,
                     !.state  = NewState(req[c], @)]
             /\ Answered(c, "board", BoardWrites(c), NothingWritten)
    <3>1. req[c].status # "bogus"
      BY DEF WriteGitHub
    <3>2. ticket' = [ticket EXCEPT
                       !.labels = L, !.people = Q,
                       !.mark = IF req[c].body THEN NewMark(c) ELSE @,
                       !.state = NewState(req[c], @), !.board = ticket.board]
      BY <1>3, <2>2 DEF Tickets
    <3>3. ticket' \in Tickets
      BY <1>4, <3>1, <3>2, WrittenTicketType
    <3>4. CallerTypes'
      BY <1>5, <2>2, AnsweredTypes, BlankTypes
    <3> QED
      BY <3>3, <3>4
  <2> QED
    BY <1>1, <2>1, <2>2
<1>7. unstamped' \in BOOLEAN /\ edited' \in BOOLEAN
  BY <1>1 DEF TypeOK, WriteGitHub
<1>8. UNCHANGED <<provider, cascade, edits, req, first, offered, stripped, landed>>
  BY DEF WriteGitHub
<1> QED
  BY <1>6, <1>7, <1>8 DEF TypeOK, CallerTypes

(* The board after a list of writes, and the history of those writes.      *)
LEMMA BoardAfterType ==
    ASSUME TypeOK, NEW writes \in Seq(Fields \X Values)
    PROVE  /\ [f \in Fields |-> LastValue(writes, f, ticket.board[f])]
                \in [Fields -> Values]
           /\ [f \in Fields |-> LastValue(writes, f, Unset)]
                \in [Fields -> Values \cup {Unset}]
<1>1. ASSUME NEW f \in Fields
      PROVE  ticket.board[f] \in Values
  BY DEF TypeOK, Tickets
<1>2. ASSUME NEW f \in Fields
      PROVE  /\ LastValue(writes, f, ticket.board[f]) \in Values
             /\ LastValue(writes, f, Unset) \in Values \cup {Unset}
  <2>1. LastValue(writes, f, ticket.board[f]) \in Values
    BY <1>1, LastValueType
  <2>2. LastValue(writes, f, Unset) \in Values \cup {Unset}
    <3> DEFINE S == Values \cup {Unset}
    <3>1. Unset \in S /\ Values \subseteq S
      OBVIOUS
    <3> HIDE DEF S
    <3>2. LastValue(writes, f, Unset) \in S
      BY <3>1, LastValueType
    <3> QED
      BY <3>2 DEF S
  <2> QED
    BY <2>1, <2>2
<1> QED
  BY <1>2

LEMMA WriteGitLabTypes ==
    ASSUME TypeOK, NEW c \in Callers, WriteGitLab(c)
    PROVE  TypeOK'
<1> DEFINE Q == IF req[c].join \cup req[c].leave = {} THEN ticket.people
                ELSE MergedPeople(c)
           B == [f \in Fields |->
                   LastValue(MilestoneWrite(req[c]), f, ticket.board[f])]
           W == [f \in Fields |-> LastValue(MilestoneWrite(req[c]), f, Unset)]
<1>1. ticket' = [ticket EXCEPT
                   !.labels = GitLabLabels(c), !.people = Q,
                   !.mark = IF req[c].body THEN NewMark(c) ELSE @,
                   !.state = NewState(req[c], @), !.board = B]
  BY DEF WriteGitLab
<1>2. Answered(c, "return", <<>>, W)
  BY DEF WriteGitLab
<1>3. GitLabLabels(c) \in SUBSET Labels /\ Q \in SUBSET People
  BY LabelTypes DEF TypeOK, Tickets
<1>4. B \in [Fields -> Values] /\ W \in [Fields -> Values \cup {Unset}]
  BY BoardAfterType, BoardWritesType
<1>5. ticket' \in Tickets
  <2>1. req[c].status # "bogus"
    BY DEF WriteGitLab
  <2> HIDE DEF Q, B
  <2> QED
    BY <1>1, <1>3, <1>4, <2>1, WrittenTicketType
<1>6. CallerTypes'
  <2>1. "return" \in PCs
    BY DEF PCs
  <2> HIDE DEF W
  <2> QED
    BY <1>2, <1>4, <2>1, AnsweredTypes, BlankTypes
<1>7. landed' \subseteq Labels
  BY LabelTypes DEF WriteGitLab, TypeOK
<1>8. edited' \in BOOLEAN
  BY DEF WriteGitLab
<1>9. UNCHANGED <<provider, cascade, edits, req, first, offered, stripped, unstamped>>
  BY DEF WriteGitLab
<1> QED
  BY <1>5, <1>6, <1>7, <1>8, <1>9 DEF TypeOK, CallerTypes

LEMMA WriteAzureTypes ==
    ASSUME TypeOK, NEW c \in Callers, WriteAzure(c)
    PROVE  TypeOK'
<1> DEFINE B == [f \in Fields |-> LastValue(BoardWrites(c), f, ticket.board[f])]
           W == [f \in Fields |-> LastValue(BoardWrites(c), f, Unset)]
           L == IF TouchesTags(c) THEN AzureLabels(c) ELSE ticket.labels
<1>1. PICK people \in AzurePeople(c) :
        /\ ticket' = [ticket EXCEPT
                        !.labels = IF TouchesTags(c) THEN AzureLabels(c) ELSE @,
                        !.people = IF people = snap[c].people THEN @ ELSE people,
                        !.mark   = IF req[c].body THEN NewMark(c) ELSE @,
                        !.state  = NewState(req[c], @),
                        !.board  = [f \in Fields |->
                                      LastValue(BoardWrites(c), f, @[f])]]
        /\ Answered(c, "return", <<>>, W)
  BY DEF WriteAzure
<1> DEFINE Q == IF people = snap[c].people THEN ticket.people ELSE people
<1>2. ticket' = [ticket EXCEPT
                   !.labels = L, !.people = Q,
                   !.mark = IF req[c].body THEN NewMark(c) ELSE @,
                   !.state = NewState(req[c], @), !.board = B]
  BY <1>1
<1>3. L \in SUBSET Labels /\ Q \in SUBSET People
  BY LabelTypes DEF TypeOK, Tickets
<1>4. B \in [Fields -> Values] /\ W \in [Fields -> Values \cup {Unset}]
  BY BoardAfterType, BoardWritesType
<1>5. ticket' \in Tickets
  <2>1. req[c].status # "bogus"
    BY DEF WriteAzure
  <2> HIDE DEF L, Q, B
  <2> QED
    BY <1>2, <1>3, <1>4, <2>1, WrittenTicketType
<1>6. CallerTypes'
  <2>1. "return" \in PCs
    BY DEF PCs
  <2> HIDE DEF W
  <2> QED
    BY <1>1, <1>4, <2>1, AnsweredTypes, BlankTypes
<1>7. edited' \in BOOLEAN
  BY DEF WriteAzure, TypeOK
<1>8. UNCHANGED <<provider, cascade, edits, req, first, offered, stripped,
                  landed, unstamped>>
  BY DEF WriteAzure
<1> QED
  BY <1>5, <1>6, <1>7, <1>8 DEF TypeOK, CallerTypes

LEMMA WriteBoardTypes ==
    ASSUME TypeOK, NEW c \in Callers, WriteBoard(c)
    PROVE  TypeOK'
<1> DEFINE f == Head(todo[c])[1]
           v == Head(todo[c])[2]
<1>1. /\ todo[c] \in Seq(Fields \X Values) /\ todo[c] # <<>>
      /\ f \in Fields /\ v \in Values
      /\ Tail(todo[c]) \in Seq(Fields \X Values)
  <2>1. todo[c] \in Seq(Fields \X Values) /\ todo[c] # <<>>
    BY DEF TypeOK, WriteBoard
  <2>2. Head(todo[c]) \in Fields \X Values /\ Tail(todo[c]) \in Seq(Fields \X Values)
    BY <2>1, HeadTailProperties
  <2> QED
    BY <2>1, <2>2
<1>2. \/ /\ ticket' = [ticket EXCEPT !.board[f] = v]
         /\ cascade' = (cascade \/ (f = "column" /\ v = Done))
         /\ Answered(c, "board", Tail(todo[c]), [wrote[c] EXCEPT ![f] = v])
      \/ Fails(c) /\ UNCHANGED server
  BY DEF WriteBoard
<1>3. UNCHANGED <<provider, edits, req, history>>
  BY DEF WriteBoard
<1>4. [wrote[c] EXCEPT ![f] = v] \in [Fields -> Values \cup {Unset}]
  BY <1>1 DEF TypeOK
<1>5. [ticket EXCEPT !.board[f] = v] \in Tickets
  BY <1>1 DEF TypeOK, Tickets
<1>6. "board" \in PCs
  BY DEF PCs
<1> HIDE DEF f, v
<1>7. /\ ticket' \in Tickets /\ cascade' \in BOOLEAN
      /\ CallerTypes'
  <2>1. CASE Fails(c) /\ UNCHANGED server
    BY <2>1, FailTypes DEF TypeOK, server
  <2>2. CASE /\ ticket' = [ticket EXCEPT !.board[f] = v]
             /\ cascade' = (cascade \/ (f = "column" /\ v = Done))
             /\ Answered(c, "board", Tail(todo[c]), [wrote[c] EXCEPT ![f] = v])
    <3>1. CallerTypes'
      BY <1>1, <1>4, <1>6, <2>2, AnsweredTypes
    <3> QED
      BY <1>5, <2>2, <3>1 DEF TypeOK
  <2> QED
    BY <1>2, <2>1, <2>2
<1> QED
  BY <1>3, <1>7 DEF TypeOK, CallerTypes, history

LEMMA InitTypes == Init => TypeOK
<1> SUFFICES ASSUME Init
             PROVE  TypeOK
  OBVIOUS
<1>1. PICK l \in Starts, s \in States :
        ticket = [labels |-> l, people |-> {}, state |-> s,
                  mark |-> IF Gen \in l THEN "gen" ELSE "none",
                  board |-> [f \in Fields |->
                               IF f # "column" THEN Cleared
                               ELSE IF s = "open" THEN First ELSE Done]]
  BY DEF Init
<1>2. ticket \in Tickets /\ ticket.labels \subseteq Labels
  BY <1>1, UpdateConstants DEF Tickets, Marks, Values
<1>3. <<>> \in Seq(Outcomes)
  BY EmptySeq
<1>4. CallerTypes
  BY <1>3, BlankTypes DEF CallerTypes, Init, PCs
<1> QED
  BY <1>2, <1>4 DEF Init, TypeOK, CallerTypes

(* Type correctness.                                                       *)
LEMMA StepTypes == TypeOK /\ [Next]_vars => TypeOK'
<1> SUFFICES ASSUME TypeOK, [Next]_vars
             PROVE  TypeOK'
  OBVIOUS
<1>1. CASE UNCHANGED vars
  BY <1>1 DEF TypeOK, vars, server, locals, history
<1>2. CASE Cascade
  <2>1. [ticket EXCEPT !.state = "closed"] \in Tickets
    BY DEF TypeOK, Tickets, States
  <2> QED
    BY <1>2, <2>1 DEF Cascade, TypeOK, locals, history
<1>3. CASE Outsider
  <2>1. \A l \in Handled : l \in Labels
    BY UpdateConstants
  <2>2. /\ ticket' \in Tickets
        /\ {offered', stripped', landed'} \subseteq SUBSET Labels
    <3>1. \A l \in Handled :
            /\ [ticket EXCEPT !.labels = @ \cup {l}] \in Tickets
            /\ [ticket EXCEPT !.labels = @ \ {l}] \in Tickets
      BY <2>1 DEF TypeOK, Tickets
    <3>2. \A s \in States : [ticket EXCEPT !.state = s] \in Tickets
      BY DEF TypeOK, Tickets
    <3>3. CASE \E l \in Handled :
                 /\ ticket' = [ticket EXCEPT !.labels = @ \cup {l}]
                 /\ offered' = offered \cup {l}
                 /\ landed' = landed \cup {l}
                 /\ UNCHANGED stripped
      <4>1. PICK l \in Handled : /\ ticket' \in Tickets
                                /\ offered' \subseteq offered \cup {l}
                                /\ landed' \subseteq landed \cup {l}
                                /\ stripped' \subseteq stripped \cup {l}
        BY <3>1, <3>3
      <4>2. first' = first
        BY <1>3 DEF Outsider
      <4> QED
        BY <2>1, <4>1, <4>2 DEF TypeOK
    <3>4. CASE \E l \in Handled \cap ticket.labels :
                 /\ ticket' = [ticket EXCEPT !.labels = @ \ {l}]
                 /\ stripped' = stripped \cup {l}
                 /\ UNCHANGED <<offered, landed>>
      <4>1. PICK l \in Handled : /\ ticket' \in Tickets
                                /\ offered' \subseteq offered \cup {l}
                                /\ landed' \subseteq landed \cup {l}
                                /\ stripped' \subseteq stripped \cup {l}
        BY <3>1, <3>4
      <4>2. first' = first
        BY <1>3 DEF Outsider
      <4> QED
        BY <2>1, <4>1, <4>2 DEF TypeOK
    <3>5. CASE \E s \in States \ {ticket.state} :
                 /\ ticket' = [ticket EXCEPT !.state = s]
                 /\ UNCHANGED <<offered, stripped, landed>>
      BY <1>3, <3>2, <3>5 DEF Outsider, TypeOK
    <3> QED
      BY <1>3, <3>3, <3>4, <3>5 DEF Outsider
  <2>3. edits' \in Nat
    BY <1>3 DEF Outsider, TypeOK
  <2> QED
    BY <1>3, <2>2, <2>3 DEF Outsider, TypeOK, locals
<1>4. ASSUME NEW c \in Callers, Begin(c)
      PROVE  TypeOK'
  <2>1. PICK r \in Requests :
          /\ req' = [req EXCEPT ![c] = r]
          /\ pc' = [pc EXCEPT ![c] = IF r.times = 0 THEN "end" ELSE "read"]
          /\ offered' = offered \cup r.add \cup {Mod} \cup OnUpdate
                     \cup UNION {OnMove[k] : k \in {k \in Columns :
                          \E i \in DOMAIN r.fields : r.fields[i] = <<"column", k>>}}
          /\ stripped' = stripped \cup r.remove
    BY <1>4 DEF Begin
  <2>2. r.add \subseteq Labels /\ r.remove \subseteq Labels
    BY UpdateConstants DEF Arguments
  <2>3. \A k \in Columns : OnMove[k] \subseteq Labels
    BY UpdateConstants
  <2>4. offered' \subseteq Labels /\ stripped' \subseteq Labels
    BY <2>1, <2>2, <2>3, UpdateConstants DEF TypeOK
  <2>5. pc' \in [Callers -> PCs] /\ req' \in [Callers -> Requests \cup {NoRequest}]
    BY <2>1 DEF TypeOK, PCs
  <2> QED
    BY <1>4, <2>4, <2>5 DEF Begin, TypeOK, server, locals
<1>5. ASSUME NEW c \in Callers, Proceed(c)
      PROVE  TypeOK'
  <2>1. CASE Read(c)
    BY <2>1 DEF Read, TypeOK, server, history, PCs
  <2>2. CASE Refuse(c)
    <3>1. CallerTypes'
      BY <2>2, FailTypes DEF Refuse
    <3> QED
      BY <2>2, <3>1 DEF Refuse, TypeOK, CallerTypes, server, history
  <2>3. CASE WriteGitHub(c)
    BY <2>3, WriteGitHubTypes
  <2>4. CASE WriteGitLab(c)
    BY <2>4, WriteGitLabTypes
  <2>5. CASE WriteAzure(c)
    BY <2>5, WriteAzureTypes
  <2>6. CASE WriteBoard(c)
    BY <2>6, WriteBoardTypes
  <2>7. CASE BoardDone(c)
    BY <2>7 DEF BoardDone, TypeOK, server, locals, history, PCs
  <2>8. CASE Reread(c)
    <3>1. CallerTypes'
      <4>1. CASE Fails(c)
        BY <4>1, FailTypes
      <4>2. CASE /\ tries' = [tries EXCEPT ![c] = (@ % RegetPollMaxAttempts) + 1]
                 /\ pc' = [pc EXCEPT ![c] =
                      IF ticket.state # snap[c].state \/ Budget(c)
                      THEN "return" ELSE "reread"]
                 /\ UNCHANGED <<results, snap, todo, wrote>>
        <5>1. tries[c] \in Nat
          BY DEF TypeOK
        <5>2. (tries[c] % RegetPollMaxAttempts) + 1 \in 0..RegetPollMaxAttempts
          BY <5>1, UpdateConstants
        <5> QED
          BY <4>2, <5>2 DEF TypeOK, CallerTypes, PCs
      <4> QED
        BY <2>8, <4>1, <4>2 DEF Reread
    <3> QED
      BY <2>8, <3>1 DEF Reread, TypeOK, CallerTypes, server, history
  <2>9. CASE Return(c)
    <3>1. CallerTypes'
      BY <2>9, ConcludeTypes DEF Return, Outcomes
    <3> QED
      BY <2>9, <3>1 DEF Return, TypeOK, CallerTypes, server, history
  <2> QED
    BY <1>5, <2>1, <2>2, <2>3, <2>4, <2>5, <2>6, <2>7, <2>8, <2>9 DEF Proceed
<1> QED
  BY <1>1, <1>2, <1>3, <1>4, <1>5 DEF Next

(* Callers, ticket and history keep their types through every update.      *)
THEOREM UpdateTypes == Spec => []TypeOK
BY InitTypes, StepTypes, PTL DEF Spec

-----------------------------------------------------------------------------
(* The steps, seen from the ticket's labels.                               *)

(* An update leaves its snapshot behind when it ends or goes on.           *)
LEMMA ConcludeLeaves ==
    ASSUME TypeOK, NEW c \in Callers, NEW outcome, Conclude(c, outcome)
    PROVE  /\ pc'[c] \in {"read", "end"}
           /\ \A d \in Callers \ {c} : pc'[d] = pc[d] /\ snap'[d] = snap[d]
BY DEF Conclude, NextUp, TypeOK

LEMMA FailLeaves ==
    ASSUME TypeOK, NEW c \in Callers, Fails(c)
    PROVE  /\ pc'[c] \in {"read", "end"}
           /\ \A d \in Callers \ {c} : pc'[d] = pc[d] /\ snap'[d] = snap[d]
BY ConcludeLeaves DEF Fails

LEMMA AnsweredLeaves ==
    ASSUME TypeOK, NEW c \in Callers, NEW next, next # "write",
           NEW writes, NEW board, Answered(c, next, writes, board)
    PROVE  /\ pc'[c] # "write"
           /\ \A d \in Callers \ {c} : pc'[d] = pc[d] /\ snap'[d] = snap[d]
<1>1. CASE Fails(c)
  BY <1>1, FailLeaves
<1>2. CASE /\ pc' = [pc EXCEPT ![c] = next]
           /\ UNCHANGED <<results, snap, tries>>
  BY <1>2 DEF TypeOK
<1> QED
  BY <1>1, <1>2 DEF Answered

(* What a write sends as labels, and what it leaves of the history.        *)
GitHubSends(c) ==
    /\ provider = "github"
    /\ \E stamped \in SUBSET (Stampable(c) \ Merged(c)) :
         /\ \/ ticket'.labels = Merged(c) \cup stamped
            \/ /\ Merged(c) \cup stamped = snap[c].labels
               /\ ticket'.labels = ticket.labels
         /\ unstamped' = (unstamped \/ stamped # Stampable(c) \ Merged(c))
    /\ edited' = TRUE /\ landed' = landed

GitLabSends(c) ==
    /\ provider = "gitlab"
    /\ ticket'.labels = GitLabLabels(c)
    /\ landed' = landed \cup GitLabAdds(c)
    /\ edited' = TRUE /\ unstamped' = unstamped

AzureSends(c) ==
    /\ provider = "azure"
    /\ \/ TouchesTags(c) /\ ticket'.labels = AzureLabels(c)
       \/ ticket'.labels = ticket.labels /\ edited' = edited
    /\ landed' = landed /\ unstamped' = unstamped

Sends(c) ==
    /\ pc[c] = "write" /\ pc'[c] # "write"
    /\ \A d \in Callers \ {c} : pc'[d] = pc[d] /\ snap'[d] = snap[d]
    /\ UNCHANGED <<provider, req, first, offered, stripped>>
    /\ GitHubSends(c) \/ GitLabSends(c) \/ AzureSends(c)

Begins(c) ==
    /\ pc[c] = "idle"
    /\ \E r \in Requests :
         /\ req' = [req EXCEPT ![c] = r]
         /\ offered' = offered \cup r.add \cup {Mod} \cup OnUpdate
                     \cup UNION {OnMove[k] : k \in {k \in Columns :
                          \E i \in DOMAIN r.fields : r.fields[i] = <<"column", k>>}}
         /\ stripped' = stripped \cup r.remove
    /\ pc'[c] # "write" /\ \A d \in Callers \ {c} : pc'[d] = pc[d]
    /\ UNCHANGED <<provider, ticket, snap, first, landed, edited, unstamped>>

Handles(l) ==
    /\ \/ /\ ticket'.labels = ticket.labels \cup {l}
          /\ offered' = offered \cup {l}
          /\ UNCHANGED stripped
       \/ /\ ticket'.labels = ticket.labels \ {l}
          /\ stripped' = stripped \cup {l}
          /\ UNCHANGED offered
    /\ landed' = landed \/ (landed' = landed \cup {l} /\ l \in ticket'.labels)
    /\ UNCHANGED <<provider, pc, req, snap, first, edited, unstamped>>

(* Nothing happens to the labels; somebody may have taken a snapshot.      *)
Passes ==
    /\ ticket'.labels = ticket.labels
    /\ \A d \in Callers :
         /\ pc[d] = "idle" => pc'[d] = "idle"
         /\ pc'[d] = "idle" => pc[d] = "idle"
         /\ pc'[d] = "write" =>
              \/ pc[d] = "write" /\ snap'[d] = snap[d]
              \/ pc[d] = "read" /\ snap'[d] = ticket
    /\ UNCHANGED <<provider, req, history>>

LEMMA StepKinds ==
    ASSUME TypeOK, [Next]_vars
    PROVE  \/ Passes
           \/ \E l \in Handled : Handles(l)
           \/ \E c \in Callers : Begins(c) \/ Sends(c)
<1>1. CASE UNCHANGED vars
  BY <1>1 DEF vars, server, locals, history, Passes
<1>2. CASE Cascade
  BY <1>2 DEF Cascade, Passes, locals, history, TypeOK, Tickets
<1>3. CASE Outsider
  <2>1. CASE \E l \in Handled :
               /\ ticket' = [ticket EXCEPT !.labels = @ \cup {l}]
               /\ offered' = offered \cup {l}
               /\ landed' = landed \cup {l}
               /\ UNCHANGED stripped
    <3>1. PICK l \in Handled :
               /\ ticket' = [ticket EXCEPT !.labels = @ \cup {l}]
               /\ offered' = offered \cup {l}
               /\ landed' = landed \cup {l}
               /\ UNCHANGED stripped
      BY <2>1
    <3>2. ticket'.labels = ticket.labels \cup {l}
      BY <3>1 DEF TypeOK, Tickets
    <3>3. Handles(l)
      <4>1. UNCHANGED <<provider, pc, req, snap, first, edited, unstamped>>
        BY <1>3 DEF Outsider, locals
      <4> QED
        BY <3>1, <3>2, <4>1 DEF Handles
    <3> QED
      BY <3>3
  <2>2. CASE \E l \in Handled \cap ticket.labels :
               /\ ticket' = [ticket EXCEPT !.labels = @ \ {l}]
               /\ stripped' = stripped \cup {l}
               /\ UNCHANGED <<offered, landed>>
    <3>1. PICK l \in Handled :
               /\ ticket' = [ticket EXCEPT !.labels = @ \ {l}]
               /\ stripped' = stripped \cup {l}
               /\ UNCHANGED <<offered, landed>>
      BY <2>2
    <3>2. ticket'.labels = ticket.labels \ {l}
      BY <3>1 DEF TypeOK, Tickets
    <3>3. Handles(l)
      <4>1. UNCHANGED <<provider, pc, req, snap, first, edited, unstamped>>
        BY <1>3 DEF Outsider, locals
      <4>2. /\ stripped' = stripped \cup {l}
            /\ offered' = offered /\ landed' = landed
        BY <3>1
      <4> QED
        BY <3>2, <4>1, <4>2 DEF Handles
    <3> QED
      BY <3>3
  <2>3. CASE \E s \in States \ {ticket.state} :
               /\ ticket' = [ticket EXCEPT !.state = s]
               /\ UNCHANGED <<offered, stripped, landed>>
    <3>1. ticket'.labels = ticket.labels
      BY <2>3 DEF TypeOK, Tickets
    <3> QED
      BY <1>3, <2>3, <3>1 DEF Outsider, Passes, locals, history
  <2> QED
    BY <1>3, <2>1, <2>2, <2>3 DEF Outsider
<1>4. ASSUME NEW c \in Callers, Begin(c)
      PROVE  Begins(c)
  BY <1>4 DEF Begin, Begins, TypeOK, server, locals
<1>5. ASSUME NEW c \in Callers, Proceed(c)
      PROVE  Passes \/ Sends(c)
  <2>1. CASE Read(c)
    BY <2>1 DEF Read, Passes, TypeOK, server, history
  <2>2. CASE Refuse(c)
    <3>1. Fails(c) /\ UNCHANGED <<provider, server, req, history>>
          /\ pc[c] # "idle"
      BY <2>2 DEF Refuse
    <3> QED
      BY <3>1, FailLeaves DEF Passes, server
  <2>3. CASE WriteGitHub(c)
    <3>1. PICK stamped \in SUBSET (Stampable(c) \ Merged(c)) :
            LET r      == req[c]
                labels == Merged(c) \cup stamped
                people == MergedPeople(c)
                empty  == /\ ~r.title /\ ~r.body /\ r.status = "none"
                          /\ labels = snap[c].labels /\ people = snap[c].people
            IN
            /\ IF empty
               THEN /\ pc' = [pc EXCEPT ![c] = "board"]
                    /\ todo' = [todo EXCEPT ![c] = BoardWrites(c)]
                    /\ UNCHANGED <<ticket, results, snap, tries, wrote>>
               ELSE /\ ticket' =
                         [ticket EXCEPT
                            !.labels = IF labels = snap[c].labels THEN @ ELSE labels,
                            !.people = IF people = snap[c].people THEN @ ELSE people,
                            !.mark   = IF r.body THEN NewMark(c) ELSE @,
                            !.state  = NewState(r, @)]
                    /\ Answered(c, "board", BoardWrites(c), NothingWritten)
            /\ unstamped' = (unstamped \/ stamped # Stampable(c) \ Merged(c))
      BY <2>3 DEF WriteGitHub
    <3>2. /\ \/ ticket'.labels = Merged(c) \cup stamped
             \/ /\ Merged(c) \cup stamped = snap[c].labels
                /\ ticket'.labels = ticket.labels
          /\ pc'[c] # "write"
          /\ \A d \in Callers \ {c} : pc'[d] = pc[d] /\ snap'[d] = snap[d]
      <4>1. CASE /\ Merged(c) \cup stamped = snap[c].labels
                 /\ pc' = [pc EXCEPT ![c] = "board"]
                 /\ UNCHANGED <<ticket, snap>>
        BY <4>1 DEF TypeOK
      <4>2. CASE /\ Answered(c, "board", BoardWrites(c), NothingWritten)
                 /\ ticket'.labels = IF Merged(c) \cup stamped = snap[c].labels
                                     THEN ticket.labels ELSE Merged(c) \cup stamped
        BY <4>2, AnsweredLeaves
      <4> QED
        BY <3>1, <4>1, <4>2 DEF TypeOK, Tickets
    <3>3. GitHubSends(c)
      BY <2>3, <3>1, <3>2 DEF WriteGitHub, GitHubSends
    <3> QED
      BY <2>3, <3>2, <3>3 DEF WriteGitHub, Sends
  <2>4. CASE WriteGitLab(c)
    <3>1. ticket'.labels = GitLabLabels(c)
      BY <2>4 DEF WriteGitLab, TypeOK, Tickets
    <3>2. PICK board : Answered(c, "return", <<>>, board)
      BY <2>4 DEF WriteGitLab
    <3>3. /\ pc'[c] # "write"
          /\ \A d \in Callers \ {c} : pc'[d] = pc[d] /\ snap'[d] = snap[d]
      BY <3>2, AnsweredLeaves
    <3>4. GitLabSends(c)
      BY <2>4, <3>1 DEF WriteGitLab, GitLabSends
    <3> QED
      BY <2>4, <3>3, <3>4 DEF WriteGitLab, Sends
  <2>5. CASE WriteAzure(c)
    <3>1. ticket'.labels = IF TouchesTags(c) THEN AzureLabels(c) ELSE ticket.labels
      BY <2>5 DEF WriteAzure, TypeOK, Tickets
    <3>2. PICK board : Answered(c, "return", <<>>, board)
      BY <2>5 DEF WriteAzure
    <3>3. /\ pc'[c] # "write"
          /\ \A d \in Callers \ {c} : pc'[d] = pc[d] /\ snap'[d] = snap[d]
      BY <3>2, AnsweredLeaves
    <3>4. edited' = (edited \/ TouchesTags(c)) /\ edited \in BOOLEAN
      BY <2>5 DEF WriteAzure, TypeOK
    <3>5. AzureSends(c)
      BY <2>5, <3>1, <3>4 DEF WriteAzure, AzureSends
    <3> QED
      BY <2>5, <3>3, <3>5 DEF WriteAzure, Sends
  <2>6. CASE WriteBoard(c)
    <3>1. UNCHANGED <<provider, req, history>> /\ pc[c] = "board"
      BY <2>6 DEF WriteBoard
    <3>2. ticket'.labels = ticket.labels
      BY <2>6 DEF WriteBoard, TypeOK, Tickets, server
    <3>3. /\ pc'[c] \notin {"write", "idle"}
          /\ \A d \in Callers \ {c} : pc'[d] = pc[d] /\ snap'[d] = snap[d]
      <4>1. CASE Fails(c)
        BY <4>1, FailLeaves
      <4>2. CASE /\ pc' = [pc EXCEPT ![c] = "board"]
                 /\ UNCHANGED snap
        BY <4>2 DEF TypeOK
      <4> QED
        BY <2>6, <4>1, <4>2 DEF WriteBoard, Answered
    <3> QED
      BY <3>1, <3>2, <3>3 DEF Passes
  <2>7. CASE BoardDone(c)
    BY <2>7 DEF BoardDone, Passes, TypeOK, server, locals, history
  <2>8. CASE Reread(c)
    <3>1. UNCHANGED <<provider, ticket, req, history>> /\ pc[c] = "reread"
      BY <2>8 DEF Reread, server
    <3>2. /\ pc'[c] \notin {"write", "idle"}
          /\ \A d \in Callers \ {c} : pc'[d] = pc[d] /\ snap'[d] = snap[d]
      <4>1. CASE Fails(c)
        BY <4>1, FailLeaves
      <4>2. CASE /\ pc' = [pc EXCEPT ![c] =
                      IF ticket.state # snap[c].state \/ Budget(c)
                      THEN "return" ELSE "reread"]
                 /\ UNCHANGED snap
        BY <4>2 DEF TypeOK
      <4> QED
        BY <2>8, <4>1, <4>2 DEF Reread
    <3> QED
      BY <3>1, <3>2 DEF Passes
  <2>9. CASE Return(c)
    <3>1. Conclude(c, "ok") /\ UNCHANGED <<provider, server, req, history>>
          /\ pc[c] # "idle"
      BY <2>9 DEF Return
    <3> QED
      BY <3>1, ConcludeLeaves DEF Passes, server
  <2> QED
    BY <1>5, <2>1, <2>2, <2>3, <2>4, <2>5, <2>6, <2>7, <2>8, <2>9 DEF Proceed
<1> QED
  BY <1>1, <1>2, <1>3, <1>4, <1>5 DEF Next
-----------------------------------------------------------------------------
(* LabelsSurvive: every snapshot that may be written back holds what must  *)
(* not be lost, and every removal was asked for.                           *)
SurvivalInv ==
    /\ LabelsSurvive
    /\ \A c \in Callers : pc[c] = "write" => first \ stripped \subseteq snap[c].labels
    /\ \A c \in Callers : req[c].remove \subseteq stripped

LEMMA SurvivalInit == Init => SurvivalInv
BY DEF Init, SurvivalInv, LabelsSurvive, NoRequest

LEMMA SurvivalStep == TypeOK /\ SurvivalInv /\ [Next]_vars => SurvivalInv'
<1> SUFFICES ASSUME TypeOK, SurvivalInv, [Next]_vars
             PROVE  SurvivalInv'
  OBVIOUS
<1>0. first \ stripped \subseteq ticket.labels
  BY DEF SurvivalInv, LabelsSurvive
<1>1. CASE Passes
  <2>1. LabelsSurvive'
    BY <1>1 DEF Passes, SurvivalInv, LabelsSurvive, history
  <2>2. \A c \in Callers : pc'[c] = "write" => first' \ stripped' \subseteq snap'[c].labels
    BY <1>0, <1>1 DEF Passes, SurvivalInv, history
  <2>3. \A c \in Callers : req'[c].remove \subseteq stripped'
    BY <1>1 DEF Passes, SurvivalInv, history
  <2> QED
    BY <2>1, <2>2, <2>3 DEF SurvivalInv
<1>2. CASE \E l \in Handled : Handles(l)
  BY <1>2 DEF Handles, SurvivalInv, LabelsSurvive
<1>3. CASE \E c \in Callers : Begins(c)
  <2>1. PICK c \in Callers, r \in Requests :
          /\ req' = [req EXCEPT ![c] = r]
          /\ stripped' = stripped \cup r.remove
          /\ pc'[c] # "write" /\ \A d \in Callers \ {c} : pc'[d] = pc[d]
          /\ UNCHANGED <<provider, ticket, snap, first, landed>>
    BY <1>3 DEF Begins
  <2>2. LabelsSurvive'
    BY <2>1 DEF SurvivalInv, LabelsSurvive
  <2>3. \A d \in Callers : pc'[d] = "write" => first' \ stripped' \subseteq snap'[d].labels
    BY <2>1 DEF SurvivalInv
  <2>4. \A d \in Callers : req'[d].remove \subseteq stripped'
    BY <2>1 DEF SurvivalInv, TypeOK
  <2> QED
    BY <2>2, <2>3, <2>4 DEF SurvivalInv
<1>4. CASE \E c \in Callers : Sends(c)
  <2>1. PICK c \in Callers : Sends(c)
    BY <1>4
  <2>2. first \ stripped \subseteq snap[c].labels /\ req[c].remove \subseteq stripped
    BY <2>1 DEF Sends, SurvivalInv
  <2>3. LabelsSurvive'
    <3>1. CASE GitHubSends(c)
      <4>1. first \ stripped \subseteq Merged(c)
        BY <2>2 DEF Merged
      <4> QED
        BY <1>0, <2>1, <3>1, <4>1 DEF GitHubSends, Sends, LabelsSurvive
    <3>2. CASE GitLabSends(c)
      BY <2>1, <2>2, <3>2 DEF GitLabSends, GitLabLabels, Sends, SurvivalInv, LabelsSurvive
    <3>3. CASE AzureSends(c)
      <4>1. first \ stripped \subseteq AzureLabels(c)
        BY <2>2 DEF Merged, AzureLabels
      <4> QED
        BY <1>0, <2>1, <3>3, <4>1 DEF AzureSends, Sends, LabelsSurvive
    <3> QED
      BY <2>1, <3>1, <3>2, <3>3 DEF Sends
  <2>4. \A d \in Callers : pc'[d] = "write" => first' \ stripped' \subseteq snap'[d].labels
    BY <2>1 DEF Sends, SurvivalInv
  <2>5. \A d \in Callers : req'[d].remove \subseteq stripped'
    BY <2>1 DEF Sends, SurvivalInv
  <2> QED
    BY <2>3, <2>4, <2>5 DEF SurvivalInv
<1> QED
  BY <1>1, <1>2, <1>3, <1>4, StepKinds

(* A first label nobody asked to remove outlives every interleaving of     *)
(* stale writes; on GitLab so does every label that was added.             *)
THEOREM SurvivalTheorem == Spec => []LabelsSurvive
<1>1. TypeOK /\ SurvivalInv => LabelsSurvive
  BY DEF SurvivalInv
<1> QED
  BY <1>1, InitTypes, StepTypes, SurvivalInit, SurvivalStep, PTL DEF Spec

-----------------------------------------------------------------------------
(* NoStrayLabels: no snapshot holds a stray label either, and whatever a   *)
(* call under way may add has been announced.                              *)
StrayInv ==
    /\ NoStrayLabels
    /\ \A c \in Callers : pc[c] = "write" => snap[c].labels \subseteq first \cup offered
    /\ \A c \in Callers : pc[c] # "idle" =>
         req[c].add \cup {Mod} \cup OnUpdate \cup MoveLabels(req[c]) \subseteq offered

LEMMA StrayInit == Init => StrayInv
BY DEF Init, StrayInv, NoStrayLabels

LEMMA StrayStep == TypeOK /\ StrayInv /\ [Next]_vars => StrayInv'
<1> SUFFICES ASSUME TypeOK, StrayInv, [Next]_vars
             PROVE  StrayInv'
  OBVIOUS
<1>0. ticket.labels \subseteq first \cup offered
  BY DEF StrayInv, NoStrayLabels
<1>1. CASE Passes
  <2>1. NoStrayLabels'
    BY <1>0, <1>1 DEF Passes, NoStrayLabels, history
  <2>2. \A c \in Callers : pc'[c] = "write" => snap'[c].labels \subseteq first' \cup offered'
    BY <1>0, <1>1 DEF Passes, StrayInv, history
  <2>3. \A c \in Callers : pc'[c] # "idle" =>
          req'[c].add \cup {Mod} \cup OnUpdate \cup MoveLabels(req'[c]) \subseteq offered'
    <3>1. /\ req' = req /\ offered' = offered
          /\ \A c \in Callers : pc'[c] # "idle" => pc[c] # "idle"
      BY <1>1 DEF Passes, history
    <3> QED
      BY <3>1 DEF StrayInv
  <2> QED
    BY <2>1, <2>2, <2>3 DEF StrayInv, MoveLabels, FirstColumn
<1>2. CASE \E l \in Handled : Handles(l)
  <2>1. PICK l \in Handled : Handles(l)
    BY <1>2
  <2>2. NoStrayLabels'
    BY <1>0, <2>1 DEF Handles, NoStrayLabels
  <2>3. offered \subseteq offered' /\ UNCHANGED <<pc, req, snap, first>>
    BY <2>1 DEF Handles
  <2>4. \A c \in Callers : pc'[c] = "write" => snap'[c].labels \subseteq first' \cup offered'
    BY <2>3 DEF StrayInv
  <2>5. \A c \in Callers : pc'[c] # "idle" =>
          req'[c].add \cup {Mod} \cup OnUpdate \cup MoveLabels(req'[c]) \subseteq offered'
    BY <2>3 DEF StrayInv
  <2> QED
    BY <2>2, <2>4, <2>5 DEF StrayInv, MoveLabels, FirstColumn
<1>3. CASE \E c \in Callers : Begins(c)
  <2>1. PICK c \in Callers : Begins(c)
    BY <1>3
  <2>2. PICK r \in Requests :
          /\ req' = [req EXCEPT ![c] = r]
          /\ offered' = offered \cup r.add \cup {Mod} \cup OnUpdate
                     \cup UNION {OnMove[k] : k \in {k \in Columns :
                          \E i \in DOMAIN r.fields : r.fields[i] = <<"column", k>>}}
    BY <2>1 DEF Begins
  <2>3. /\ pc'[c] # "write" /\ \A d \in Callers \ {c} : pc'[d] = pc[d]
        /\ UNCHANGED <<ticket, snap, first>>
    BY <2>1 DEF Begins
  <2>4. r \in Arguments
    BY UpdateConstants
  <2>5. r.add \cup {Mod} \cup OnUpdate \cup MoveLabels(r) \subseteq offered'
    BY <2>2, <2>4, MoveLabelsType
  <2>6. offered \subseteq offered'
    BY <2>2
  <2>7. NoStrayLabels'
    BY <1>0, <2>3, <2>6 DEF NoStrayLabels
  <2>8. \A d \in Callers : pc'[d] = "write" => snap'[d].labels \subseteq first' \cup offered'
    BY <2>3, <2>6 DEF StrayInv
  <2>9. ASSUME NEW d \in Callers, pc'[d] # "idle"
        PROVE  req'[d].add \cup {Mod} \cup OnUpdate \cup MoveLabels(req'[d]) \subseteq offered'
    <3>1. CASE d = c
      <4>1. req'[d] = r
        BY <2>2, <3>1 DEF TypeOK
      <4> QED
        BY <2>5, <4>1
    <3>2. CASE d # c
      <4>1. req'[d] = req[d] /\ pc'[d] = pc[d]
        BY <2>2, <2>3, <3>2 DEF TypeOK
      <4> QED
        BY <2>6, <2>9, <4>1 DEF StrayInv
    <3> QED
      BY <3>1, <3>2
  <2> QED
    BY <2>7, <2>8, <2>9 DEF StrayInv, MoveLabels, FirstColumn
<1>4. CASE \E c \in Callers : Sends(c)
  <2>1. PICK c \in Callers : Sends(c)
    BY <1>4
  <2>2. /\ snap[c].labels \subseteq first \cup offered
        /\ req[c].add \cup {Mod} \cup OnUpdate \cup MoveLabels(req[c]) \subseteq offered
    BY <2>1 DEF Sends, StrayInv
  <2>3. /\ Merged(c) \subseteq first \cup offered
        /\ Stampable(c) \subseteq first \cup offered
        /\ GitLabLabels(c) \subseteq first \cup offered
        /\ AzureLabels(c) \subseteq first \cup offered
    BY <1>0, <2>2 DEF Merged, Stampable, GitLabLabels, GitLabAdds, AzureLabels
  <2>4. ticket'.labels \subseteq first \cup offered
    BY <1>0, <2>1, <2>3 DEF Sends, GitHubSends, GitLabSends, AzureSends
  <2>5. UNCHANGED <<req, first, offered>>
    BY <2>1 DEF Sends
  <2>6. NoStrayLabels'
    BY <2>4, <2>5 DEF NoStrayLabels
  <2>7. \A d \in Callers : pc'[d] = "write" => snap'[d].labels \subseteq first' \cup offered'
    BY <2>1, <2>5 DEF Sends, StrayInv
  <2>8. \A d \in Callers : pc'[d] # "idle" =>
          req'[d].add \cup {Mod} \cup OnUpdate \cup MoveLabels(req'[d]) \subseteq offered'
    <3>1. \A d \in Callers : pc'[d] # "idle" => pc[d] # "idle"
      BY <2>1 DEF Sends
    <3> QED
      BY <2>5, <3>1 DEF StrayInv
  <2> QED
    BY <2>6, <2>7, <2>8 DEF StrayInv, MoveLabels, FirstColumn
<1> QED
  BY <1>1, <1>2, <1>3, <1>4, StepKinds

(* Stale snapshots never bring in a label outside what was asked for.      *)
THEOREM NoStrayTheorem == Spec => []NoStrayLabels
<1>1. TypeOK /\ StrayInv => NoStrayLabels
  BY DEF StrayInv
<1> QED
  BY <1>1, InitTypes, StepTypes, StrayInit, StrayStep, PTL DEF Spec

-----------------------------------------------------------------------------
(* EditsAreAttributed: a snapshot with an AI label is only ever held while *)
(* the ticket has one, so a write that adds none because its snapshot had  *)
(* one takes none away.                                                    *)
AI == {Gen, Mod}

HeldMark(c) == pc[c] = "write" /\ AI \cap snap[c].labels # {}

MarkInv ==
    /\ /\ ~unstamped /\ AI \cap stripped = {}
       /\ edited \/ \E c \in Callers : HeldMark(c)
       => AI \cap ticket.labels # {}
    /\ \A c \in Callers : req[c].remove \subseteq stripped

LEMMA MarkInit == Init => MarkInv
BY DEF Init, MarkInv, HeldMark, NoRequest

LEMMA MarkStep == TypeOK /\ MarkInv /\ [Next]_vars => MarkInv'
<1> SUFFICES ASSUME TypeOK, MarkInv, [Next]_vars
             PROVE  MarkInv'
  OBVIOUS
<1>1. CASE Passes
  <2>1. /\ ticket'.labels = ticket.labels /\ req' = req
        /\ UNCHANGED <<stripped, edited, unstamped>>
    BY <1>1 DEF Passes, history
  <2>2. ASSUME NEW c \in Callers, HeldMark(c)'
        PROVE  HeldMark(c) \/ AI \cap ticket.labels # {}
    BY <1>1, <2>2 DEF Passes, HeldMark, AI
  <2> QED
    BY <2>1, <2>2 DEF MarkInv, AI
<1>2. CASE \E l \in Handled : Handles(l)
  <2>1. PICK l \in Handled : Handles(l)
    BY <1>2
  <2>2. /\ UNCHANGED <<pc, req, snap, edited, unstamped>>
        /\ stripped \subseteq stripped'
        /\ AI \cap stripped' = {} => AI \cap ticket.labels \subseteq ticket'.labels
    BY <2>1 DEF Handles
  <2>3. \A c \in Callers : HeldMark(c)' => HeldMark(c)
    BY <2>2 DEF HeldMark, AI
  <2> QED
    BY <2>2, <2>3 DEF MarkInv, AI
<1>3. CASE \E c \in Callers : Begins(c)
  <2>1. PICK c \in Callers, r \in Requests :
          /\ req' = [req EXCEPT ![c] = r]
          /\ stripped' = stripped \cup r.remove
          /\ pc'[c] # "write" /\ \A d \in Callers \ {c} : pc'[d] = pc[d]
          /\ UNCHANGED <<ticket, snap, edited, unstamped>>
    BY <1>3 DEF Begins
  <2>2. \A d \in Callers : HeldMark(d)' => HeldMark(d)
    BY <2>1 DEF HeldMark, AI
  <2>3. \A d \in Callers : req'[d].remove \subseteq stripped'
    BY <2>1 DEF MarkInv, TypeOK
  <2> QED
    BY <2>1, <2>2, <2>3 DEF MarkInv, AI
<1>4. CASE \E c \in Callers : Sends(c)
  <2>1. PICK c \in Callers : Sends(c)
    BY <1>4
  <2>2. UNCHANGED <<req, stripped>> /\ pc[c] = "write" /\ req[c].remove \subseteq stripped
    BY <2>1 DEF Sends, MarkInv
  <2>3. \A d \in Callers : HeldMark(d)' => HeldMark(d)
    BY <2>1 DEF Sends, HeldMark, AI
  <2>4. ASSUME ~unstamped', AI \cap stripped = {},
               edited' \/ \E d \in Callers : HeldMark(d)'
        PROVE  AI \cap ticket'.labels # {}
    <3>1. AI \cap snap[c].labels # {} => AI \cap Merged(c) # {}
      BY <2>2, <2>4 DEF Merged
    <3>2. AI \cap snap[c].labels # {} /\ ~unstamped => AI \cap ticket.labels # {}
      BY <2>2, <2>4 DEF MarkInv, HeldMark
    <3>3. CASE GitHubSends(c)
      <4>1. PICK stamped \in SUBSET (Stampable(c) \ Merged(c)) :
              /\ \/ ticket'.labels = Merged(c) \cup stamped
                 \/ /\ Merged(c) \cup stamped = snap[c].labels
                    /\ ticket'.labels = ticket.labels
              /\ unstamped' = (unstamped \/ stamped # Stampable(c) \ Merged(c))
        BY <3>3 DEF GitHubSends
      <4>2. ~unstamped /\ stamped = Stampable(c) \ Merged(c)
        BY <2>4, <4>1 DEF TypeOK
      <4>3. AI \cap (Merged(c) \cup stamped) # {}
        BY <3>1, <4>2 DEF Stampable, AI
      <4> QED
        BY <3>2, <4>1, <4>2, <4>3
    <3>4. CASE GitLabSends(c)
      <4>1. /\ ~unstamped
            /\ ticket'.labels = (ticket.labels \cup GitLabAdds(c)) \ req[c].remove
        BY <2>4, <3>4 DEF GitLabSends, GitLabLabels
      <4>2. AI \cap (ticket.labels \cup GitLabAdds(c)) # {}
        BY <3>2, <4>1 DEF GitLabAdds, AI
      <4> QED
        BY <2>2, <2>4, <4>1, <4>2
    <3>5. CASE AzureSends(c)
      <4>1. AI \cap AzureLabels(c) # {}
        BY DEF AzureLabels, AI
      <4>2. CASE ticket'.labels = ticket.labels /\ edited' = edited
        <5>1. ~unstamped
          BY <2>4, <3>5 DEF AzureSends
        <5> QED
          BY <2>3, <2>4, <4>2, <5>1 DEF MarkInv
      <4> QED
        BY <3>5, <4>1, <4>2 DEF AzureSends
    <3> QED
      BY <2>1, <3>3, <3>4, <3>5 DEF Sends
  <2> QED
    BY <2>2, <2>4 DEF MarkInv, AI
<1> QED
  BY <1>1, <1>2, <1>3, <1>4, StepKinds

(* Attribution outlives every interleaving of stale writes.                *)
THEOREM AttributionTheorem == Spec => []EditsAreAttributed
<1>1. TypeOK /\ MarkInv => EditsAreAttributed
  BY DEF MarkInv, EditsAreAttributed, AI
<1> QED
  BY <1>1, InitTypes, StepTypes, MarkInit, MarkStep, PTL DEF Spec

-----------------------------------------------------------------------------
(* BulkIsComplete: while a batch goes on there are fewer results than ids, *)
(* and nothing was raised.                                                 *)
Unbroken(c) == \A i \in DOMAIN results[c] : results[c][i] # "raised"

BatchInv ==
    \A c \in Callers :
      /\ pc[c] = "idle" => results[c] = <<>>
      /\ pc[c] \notin {"idle", "end"} =>
           Len(results[c]) < req[c].times /\ Unbroken(c)
      /\ pc[c] = "end" =>
           \/ Len(results[c]) = req[c].times /\ Unbroken(c)
           \/ /\ results[c] # <<>> /\ results[c][Len(results[c])] = "raised"
              /\ \A i \in DOMAIN results[c] :
                    i # Len(results[c]) => results[c][i] # "raised"

LEMMA BatchInit == Init => BatchInv
BY DEF Init, BatchInv

LEMMA BatchConclude ==
    ASSUME TypeOK, BatchInv, NEW c \in Callers, NEW outcome \in Outcomes,
           pc[c] \notin {"idle", "end"}, Conclude(c, outcome), req' = req
    PROVE  BatchInv'
<1>1. results[c] \in Seq(Outcomes) /\ req[c].times \in Nat
  BY RequestType DEF TypeOK, Arguments
<1>2. results'[c] = Append(results[c], outcome) /\ pc'[c] = NextUp(c, outcome)
  BY DEF Conclude, TypeOK
<1> DEFINE n == Len(results[c])
<1>3. /\ n \in Nat /\ Len(results'[c]) = n + 1
      /\ DOMAIN results[c] = 1..n /\ DOMAIN results'[c] = 1..(n + 1)
      /\ results'[c][n + 1] = outcome
      /\ \A i \in 1..n : results'[c][i] = results[c][i]
  BY <1>1, <1>2, AppendProperties, LenProperties
<1>4. n < req[c].times /\ \A i \in 1..n : results[c][i] # "raised"
  BY <1>3 DEF BatchInv, Unbroken
<1>5. results'[c] # <<>>
  BY <1>3
<1>6. \A d \in Callers \ {c} : pc'[d] = pc[d] /\ results'[d] = results[d]
  BY DEF Conclude, TypeOK
<1> HIDE DEF n
<1>7. CASE outcome = "raised"
  <2>1. pc'[c] = "end"
    BY <1>2, <1>7 DEF NextUp
  <2> QED
    BY <1>3, <1>4, <1>5, <1>6, <1>7, <2>1 DEF BatchInv, Unbroken
<1>8. CASE outcome # "raised"
  <2>1. IF n + 1 = req[c].times THEN pc'[c] = "end"
        ELSE pc'[c] = "read" /\ n + 1 < req[c].times
    BY <1>1, <1>2, <1>3, <1>4, <1>8 DEF NextUp, n
  <2>2. \A i \in DOMAIN results'[c] : results'[c][i] # "raised"
    BY <1>3, <1>4, <1>8
  <2> QED
    BY <1>3, <1>6, <2>1, <2>2 DEF BatchInv, Unbroken
<1> QED
  BY <1>7, <1>8

LEMMA BatchFails ==
    ASSUME TypeOK, BatchInv, NEW c \in Callers,
           pc[c] \notin {"idle", "end"}, Fails(c), req' = req
    PROVE  BatchInv'
BY BatchConclude DEF Fails, Failures, Outcomes

LEMMA BatchAnswered ==
    ASSUME TypeOK, BatchInv, NEW c \in Callers, NEW next,
           next \notin {"idle", "end"}, NEW writes, NEW board,
           pc[c] \notin {"idle", "end"}, Answered(c, next, writes, board), req' = req
    PROVE  BatchInv'
<1>1. CASE Fails(c)
  BY <1>1, BatchFails
<1>2. CASE pc' = [pc EXCEPT ![c] = next] /\ UNCHANGED results
  BY <1>2 DEF BatchInv, TypeOK, Unbroken
<1> QED
  BY <1>1, <1>2 DEF Answered

LEMMA BatchStep == TypeOK /\ BatchInv /\ [Next]_vars => BatchInv'
<1> SUFFICES ASSUME TypeOK, BatchInv, [Next]_vars
             PROVE  BatchInv'
  OBVIOUS
<1>1. CASE UNCHANGED vars
  BY <1>1 DEF vars, BatchInv, Unbroken
<1>2. CASE Cascade \/ Outsider
  BY <1>2 DEF Cascade, Outsider, BatchInv, Unbroken
<1>3. ASSUME NEW c \in Callers, Begin(c)
      PROVE  BatchInv'
  <2>1. PICK r \in Requests :
          /\ req' = [req EXCEPT ![c] = r]
          /\ pc' = [pc EXCEPT ![c] = IF r.times = 0 THEN "end" ELSE "read"]
    BY <1>3 DEF Begin
  <2>2. results' = results /\ results[c] = <<>> /\ Len(results[c]) = 0
    BY <1>3 DEF Begin, BatchInv
  <2>3. r.times \in Nat
    BY UpdateConstants DEF Arguments
  <2> QED
    BY <2>1, <2>2, <2>3 DEF BatchInv, TypeOK, Unbroken
<1>4. ASSUME NEW c \in Callers, Proceed(c)
      PROVE  BatchInv'
  <2>1. CASE Read(c)
    BY <2>1 DEF Read, BatchInv, TypeOK, Unbroken
  <2>2. CASE Refuse(c)
    BY <2>2, BatchFails DEF Refuse
  <2>3. CASE WriteGitHub(c)
    <3>1. /\ pc[c] = "write" /\ req' = req
          /\ \/ Answered(c, "board", BoardWrites(c), NothingWritten)
             \/ pc' = [pc EXCEPT ![c] = "board"] /\ results' = results
      BY <2>3 DEF WriteGitHub
    <3> QED
      BY <3>1, BatchAnswered DEF BatchInv, TypeOK, Unbroken
  <2>4. CASE WriteGitLab(c)
    <3>1. pc[c] = "write" /\ req' = req /\ \E b : Answered(c, "return", <<>>, b)
      BY <2>4 DEF WriteGitLab
    <3> QED
      BY <3>1, BatchAnswered
  <2>5. CASE WriteAzure(c)
    <3>1. pc[c] = "write" /\ req' = req /\ \E b : Answered(c, "return", <<>>, b)
      BY <2>5 DEF WriteAzure
    <3> QED
      BY <3>1, BatchAnswered
  <2>6. CASE WriteBoard(c)
    <3>1. /\ pc[c] = "board" /\ req' = req
          /\ Fails(c) \/ \E w, b : Answered(c, "board", w, b)
      BY <2>6 DEF WriteBoard
    <3> QED
      BY <3>1, BatchAnswered, BatchFails
  <2>7. CASE BoardDone(c)
    BY <2>7 DEF BoardDone, BatchInv, TypeOK, Unbroken
  <2>8. CASE Reread(c)
    <3>1. /\ pc[c] = "reread" /\ req' = req
          /\ \/ Fails(c)
             \/ /\ results' = results
                /\ \E p \in {"return", "reread"} : pc' = [pc EXCEPT ![c] = p]
      BY <2>8 DEF Reread
    <3> QED
      BY <3>1, BatchFails DEF BatchInv, TypeOK, Unbroken
  <2>9. CASE Return(c)
    BY <2>9, BatchConclude DEF Return, Outcomes
  <2> QED
    BY <1>4, <2>1, <2>2, <2>3, <2>4, <2>5, <2>6, <2>7, <2>8, <2>9 DEF Proceed
<1> QED
  BY <1>1, <1>2, <1>3, <1>4 DEF Next

(* One result per id, whichever of the updates failed.                     *)
THEOREM BatchTheorem == Spec => []BulkIsComplete
<1>1. TypeOK /\ BatchInv => BulkIsComplete
  <2> SUFFICES ASSUME TypeOK, BatchInv, NEW c \in Callers
               PROVE  /\ \A i \in DOMAIN results[c] : results[c][i] = "raised" =>
                            i = Len(results[c]) /\ pc[c] = "end"
                      /\ pc[c] = "end" =>
                           \/ Len(results[c]) = req[c].times
                           \/ \E i \in DOMAIN results[c] : results[c][i] = "raised"
    BY DEF BulkIsComplete
  <2>1. results[c] \in Seq(Outcomes)
    BY DEF TypeOK
  <2>2. DOMAIN results[c] = 1..Len(results[c]) /\ Len(results[c]) \in Nat
    BY <2>1, LenProperties
  <2>3. results[c] # <<>> => Len(results[c]) \in DOMAIN results[c]
    BY <2>1, <2>2, EmptySeq
  <2>4. CASE pc[c] = "idle"
    BY <2>2, <2>4 DEF BatchInv
  <2>5. CASE pc[c] \notin {"idle", "end"}
    BY <2>5 DEF BatchInv, Unbroken
  <2>6. CASE pc[c] = "end"
    BY <2>2, <2>3, <2>6 DEF BatchInv, Unbroken
  <2> QED
    BY <2>4, <2>5, <2>6
<1> QED
  BY <1>1, InitTypes, StepTypes, BatchInit, BatchStep, PTL DEF Spec

-----------------------------------------------------------------------------
(* BoardEndsAsAsked: at every moment the values written so far, and then   *)
(* those still to be written, end in what the whole list of writes asks.   *)
IsLast(writes, f, k) ==
    /\ k \in DOMAIN writes /\ writes[k][1] = f
    /\ \A j \in DOMAIN writes : writes[j][1] = f => j <= k

LEMMA LastValueAt ==
    ASSUME NEW writes \in Seq(Fields \X Values), NEW f, NEW old, NEW k,
           IsLast(writes, f, k)
    PROVE  LastValue(writes, f, old) = writes[k][2]
<1> DEFINE last(i) == /\ writes[i][1] = f
                      /\ \A j \in DOMAIN writes : writes[j][1] = f => j <= i
<1>1. DOMAIN writes \subseteq Nat
  BY LenProperties
<1>2. k \in DOMAIN writes /\ last(k)
  BY DEF IsLast
<1>3. ASSUME NEW i \in DOMAIN writes, last(i)
      PROVE  i = k
  BY <1>1, <1>2, <1>3
<1>4. k = CHOOSE i \in DOMAIN writes : last(i)
  BY <1>2, <1>3
<1> QED
  BY <1>2, <1>4 DEF LastValue

LEMMA SomeIsLast ==
    ASSUME NEW writes \in Seq(Fields \X Values), NEW f,
           ~\A i \in DOMAIN writes : writes[i][1] # f
    PROVE  \E k : IsLast(writes, f, k)
BY LastWriteExists DEF IsLast

LEMMA NoValue ==
    ASSUME NEW writes, NEW f, NEW old,
           \A i \in DOMAIN writes : writes[i][1] # f
    PROVE  LastValue(writes, f, old) = old
BY DEF LastValue

LEMMA ValueOfNone ==
    ASSUME NEW f, NEW old
    PROVE  LastValue(<<>>, f, old) = old
BY EmptySeq, NoValue

(* The last value of two lists one after the other.                        *)
Writes == Seq(Fields \X Values)

LEMMA ValueOfBoth ==
    ASSUME NEW s \in Writes, NEW t \in Writes, NEW f, NEW old
    PROVE  LastValue(s \o t, f, old) = LastValue(t, f, LastValue(s, f, old))
<1> DEFINE w == s \o t
<1> USE DEF Writes
<1>1. /\ Len(s) \in Nat /\ Len(t) \in Nat
      /\ DOMAIN s = 1..Len(s) /\ DOMAIN t = 1..Len(t)
  BY LenProperties
<1>2. /\ w \in Seq(Fields \X Values) /\ Len(w) = Len(s) + Len(t)
      /\ \A i \in 1..Len(s) : w[i] = s[i]
      /\ \A i \in 1..Len(t) : w[Len(s) + i] = t[i]
  BY ConcatProperties
<1>3. DOMAIN w = 1..(Len(s) + Len(t))
  BY <1>2, LenProperties
<1> HIDE DEF w
<1>4. ASSUME NEW j \in DOMAIN w
      PROVE  \/ j \in DOMAIN s /\ w[j] = s[j]
             \/ j - Len(s) \in DOMAIN t /\ w[j] = t[j - Len(s)]
  <2>1. CASE j \in 1..Len(s)
    BY <1>1, <1>2, <2>1
  <2>2. CASE j \notin 1..Len(s)
    <3>1. j - Len(s) \in 1..Len(t) /\ Len(s) + (j - Len(s)) = j
      BY <1>1, <1>3, <2>2
    <3> QED
      BY <1>1, <1>2, <3>1
  <2> QED
    BY <2>1, <2>2
<1>5. CASE ~\A i \in DOMAIN t : t[i][1] # f
  <2>1. PICK k : IsLast(t, f, k)
    BY <1>5, SomeIsLast
  <2>2. k \in 1..Len(t)
    BY <1>1, <2>1 DEF IsLast
  <2>3. Len(s) + k \in DOMAIN w /\ w[Len(s) + k] = t[k]
    BY <1>1, <1>2, <1>3, <2>2
  <2>4. ASSUME NEW j \in DOMAIN w, w[j][1] = f
        PROVE  j <= Len(s) + k
    BY <1>1, <1>3, <1>4, <2>1, <2>2, <2>4 DEF IsLast
  <2>5. IsLast(w, f, Len(s) + k)
    <3>1. t[k][1] = f
      BY <2>1 DEF IsLast
    <3> QED
      BY <2>3, <2>4, <3>1 DEF IsLast
  <2>6. LastValue(w, f, old) = t[k][2]
    BY <1>2, <2>3, <2>5, LastValueAt
  <2>7. LastValue(t, f, LastValue(s, f, old)) = t[k][2]
    BY <2>1, LastValueAt
  <2> QED
    BY <2>6, <2>7 DEF w
<1>6. CASE \A i \in DOMAIN t : t[i][1] # f
  <2>1. LastValue(t, f, LastValue(s, f, old)) = LastValue(s, f, old)
    BY <1>6, NoValue
  <2>2. CASE ~\A i \in DOMAIN s : s[i][1] # f
    <3>1. PICK k : IsLast(s, f, k)
      BY <2>2, SomeIsLast
    <3>2. k \in DOMAIN w /\ w[k] = s[k]
      BY <1>1, <1>2, <1>3, <3>1 DEF IsLast
    <3>3. ASSUME NEW j \in DOMAIN w, w[j][1] = f
          PROVE  j <= k
      <4>1. j \in DOMAIN s /\ s[j][1] = f
        BY <1>4, <1>6, <3>3
      <4> QED
        BY <3>1, <4>1 DEF IsLast
    <3>4. IsLast(w, f, k)
      <4>1. s[k][1] = f
        BY <3>1 DEF IsLast
      <4> QED
        BY <3>2, <3>3, <4>1 DEF IsLast
    <3>5. LastValue(w, f, old) = s[k][2]
      <4>1. w \in Seq(Fields \X Values)
        BY <1>2
      <4>2. LastValue(w, f, old) = w[k][2]
        BY <3>4, <4>1, LastValueAt
      <4> QED
        BY <3>2, <4>2
    <3>6. LastValue(s, f, old) = s[k][2]
      BY <3>1, LastValueAt
    <3> QED
      BY <2>1, <3>5, <3>6 DEF w
  <2>3. CASE \A i \in DOMAIN s : s[i][1] # f
    <3>1. LastValue(w, f, old) = old
      BY <1>4, <1>6, <2>3, NoValue
    <3>2. LastValue(s, f, old) = old
      BY <2>3, NoValue
    <3> QED
      BY <2>1, <3>1, <3>2 DEF w
  <2> QED
    BY <2>2, <2>3
<1> QED
  BY <1>5, <1>6

LEMMA ValueOfOne ==
    ASSUME NEW p \in Fields \X Values, NEW f, NEW old
    PROVE  LastValue(<<p>>, f, old) = IF p[1] = f THEN p[2] ELSE old
<1>1. <<p>> \in Seq(Fields \X Values) /\ DOMAIN <<p>> = {1} /\ <<p>>[1] = p
  OBVIOUS
<1>2. CASE p[1] = f
  <2>1. IsLast(<<p>>, f, 1)
    BY <1>1, <1>2 DEF IsLast
  <2> QED
    BY <1>1, <1>2, <2>1, LastValueAt
<1>3. CASE p[1] # f
  BY <1>1, <1>3, NoValue
<1> QED
  BY <1>2, <1>3

(* One write done: its value is kept, the others are still to come.        *)
LEMMA ValueOfRest ==
    ASSUME NEW t \in Seq(Fields \X Values), t # <<>>, NEW f, NEW old
    PROVE  LastValue(t, f, old)
             = LastValue(Tail(t), f, IF Head(t)[1] = f THEN Head(t)[2] ELSE old)
<1>1. /\ Head(t) \in Fields \X Values /\ Tail(t) \in Seq(Fields \X Values)
      /\ Len(Tail(t)) = Len(t) - 1 /\ Len(t) \in Nat /\ Len(t) >= 1
      /\ \A i \in 1..Len(Tail(t)) : Tail(t)[i] = t[i + 1]
      /\ Head(t) = t[1]
  BY HeadTailProperties, LenProperties, EmptySeq
<1> DEFINE h == Head(t)
           rest == Tail(t)
<1>2. <<h>> \in Seq(Fields \X Values) /\ Len(<<h>>) = 1 /\ <<h>>[1] = h
  BY <1>1
<1>3. t = <<h>> \o rest
  <2>1. /\ <<h>> \o rest \in Seq(Fields \X Values)
        /\ Len(<<h>> \o rest) = 1 + Len(rest)
        /\ (<<h>> \o rest)[1] = h
        /\ \A i \in 1..Len(rest) : (<<h>> \o rest)[1 + i] = rest[i]
    <3> HIDE DEF h, rest
    <3>1. rest \in Seq(Fields \X Values)
      BY <1>1 DEF rest
    <3> QED
      BY <1>2, <3>1, ConcatProperties
  <2>2. Len(<<h>> \o rest) = Len(t)
    BY <1>1, <2>1
  <2>3. ASSUME NEW i \in 1..Len(t)
        PROVE  (<<h>> \o rest)[i] = t[i]
    <3>1. CASE i = 1
      BY <1>1, <2>1, <3>1
    <3>2. CASE i # 1
      <4>1. i - 1 \in 1..Len(rest) /\ 1 + (i - 1) = i /\ (i - 1) + 1 = i
        BY <1>1, <3>2
      <4> QED
        BY <1>1, <2>1, <4>1
    <3> QED
      BY <3>1, <3>2
  <2> DEFINE u == <<h>> \o rest
  <2>4. u \in Seq(Fields \X Values) /\ Len(u) = Len(t)
    BY <2>1, <2>2
  <2>5. \A i \in 1..Len(u) : u[i] = t[i]
    BY <2>2, <2>3
  <2> HIDE DEF u
  <2>6. u = t
    BY <2>4, <2>5, SeqEqual
  <2> QED
    BY <2>6 DEF u
<1>4. LastValue(<<h>>, f, old) = IF h[1] = f THEN h[2] ELSE old
  BY <1>1, ValueOfOne
<1>5. LastValue(<<h>> \o rest, f, old) = LastValue(rest, f, LastValue(<<h>>, f, old))
  <2> DEFINE one == <<h>>
  <2>1. rest \in Writes /\ one \in Writes
    BY <1>1, <1>2 DEF Writes
  <2> HIDE DEF h, rest, one
  <2>2. LastValue(one \o rest, f, old) = LastValue(rest, f, LastValue(one, f, old))
    BY <2>1, ValueOfBoth
  <2> QED
    BY <2>2 DEF one
<1> QED
  BY <1>3, <1>4, <1>5

(* What the writes of an update end in is what BoardEndsAsAsked says.      *)
Asked(c, f) == LastValue(BoardWrites(c), f, Unset)

LEMMA AskedIs ==
    ASSUME TypeOK, NEW c \in Callers
    PROVE  /\ Asked(c, "iteration") =
                IF req[c].milestone # Unset THEN req[c].milestone
                ELSE LastValue(req[c].fields, "iteration", Unset)
           /\ Asked(c, "column") =
                IF Resets(c) THEN First
                ELSE LastValue(req[c].fields, "column", Unset)
<1> DEFINE fields == req[c].fields
           mile   == MilestoneWrite(req[c])
           reset  == IF Resets(c) THEN <<<<"column", First>>>> ELSE <<>>
           m      == req[c].milestone
<1>1. /\ fields \in Seq(Fields \X Values) /\ mile \in Seq(Fields \X Values)
      /\ m \in Values \cup {Unset}
  BY RequestType, BoardWritesType DEF Arguments
<1>2. <<"column", First>> \in Fields \X Values
  BY UpdateConstants DEF Fields, Values
<1>3. reset \in Seq(Fields \X Values)
  BY <1>2, EmptySeq
<1>4. ASSUME NEW f, NEW old
      PROVE  LastValue(mile, f, old) = IF f = "iteration" /\ m # Unset THEN m ELSE old
  <2>1. CASE m = Unset
    BY <2>1, ValueOfNone DEF MilestoneWrite
  <2>2. CASE m # Unset
    <3> DEFINE p == <<"iteration", m>>
    <3>1. p \in Fields \X Values /\ p[1] = "iteration" /\ p[2] = m
      BY <1>1, <2>2 DEF Fields
    <3>2. mile = <<p>>
      BY <2>2 DEF MilestoneWrite
    <3> HIDE DEF p, mile, m
    <3>3. LastValue(<<p>>, f, old) = IF p[1] = f THEN p[2] ELSE old
      BY <3>1, ValueOfOne
    <3> QED
      BY <2>2, <3>1, <3>2, <3>3
  <2> QED
    BY <2>1, <2>2
<1>5. ASSUME NEW f, NEW old
      PROVE  LastValue(reset, f, old) = IF f = "column" /\ Resets(c) THEN First ELSE old
  <2>1. CASE ~Resets(c)
    BY <2>1, ValueOfNone
  <2>2. CASE Resets(c)
    <3> DEFINE p == <<"column", First>>
    <3>1. p \in Fields \X Values /\ p[1] = "column" /\ p[2] = First
      BY <1>2
    <3>2. reset = <<p>>
      BY <2>2
    <3> HIDE DEF p, reset
    <3>3. LastValue(<<p>>, f, old) = IF p[1] = f THEN p[2] ELSE old
      BY <3>1, ValueOfOne
    <3> QED
      BY <2>2, <3>1, <3>2, <3>3
  <2> QED
    BY <2>1, <2>2
<1>6. BoardWrites(c) = (fields \o mile) \o reset
  BY DEF BoardWrites
<1> HIDE DEF fields, mile, reset, m
<1>7. fields \in Writes /\ mile \in Writes /\ reset \in Writes
  BY <1>1, <1>3 DEF Writes
<1>8. fields \o mile \in Writes
  BY <1>1, ConcatProperties DEF Writes
<1>9. ASSUME NEW f
      PROVE  Asked(c, f)
               = LastValue(reset, f, LastValue(mile, f, LastValue(fields, f, Unset)))
  <2>1. LastValue(fields \o mile, f, Unset)
          = LastValue(mile, f, LastValue(fields, f, Unset))
    BY <1>7, ValueOfBoth
  <2>2. LastValue((fields \o mile) \o reset, f, Unset)
          = LastValue(reset, f, LastValue(fields \o mile, f, Unset))
    BY <1>7, <1>8, ValueOfBoth
  <2> QED
    BY <1>6, <2>1, <2>2 DEF Asked
<1>10. Asked(c, "iteration") = IF m # Unset THEN m
                              ELSE LastValue(fields, "iteration", Unset)
  BY <1>4, <1>5, <1>9
<1>11. Asked(c, "column") = IF Resets(c) THEN First
                            ELSE LastValue(fields, "column", Unset)
  BY <1>4, <1>5, <1>9
<1> QED
  BY <1>10, <1>11 DEF fields, m

(* What is written and what is still to be, at every point of an update.   *)
BoardOf(c) ==
    /\ pc[c] \in {"idle", "read", "write"} => wrote[c] = NothingWritten
    /\ pc[c] = "board" => \A f \in Fields :
          LastValue(todo[c], f, wrote[c][f]) = Asked(c, f)
    /\ pc[c] \in {"reread", "return"} => \A f \in Fields :
          wrote[c][f] = Asked(c, f)
    /\ provider = "gitlab" => req[c].fields = <<>>

BoardInv == \A c \in Callers : BoardOf(c)

LEMMA BoardInit == Init => BoardInv
BY DEF Init, BoardInv, BoardOf, NoRequest

LEMMA AskedKept ==
    ASSUME NEW c \in Callers, provider' = provider,
           req'[c] = req[c], snap'[c] = snap[c]
    PROVE  \A f : Asked(c, f)' = Asked(c, f)
BY DEF Asked, BoardWrites, MilestoneWrite, Resets, Asks, LastValue

LEMMA BoardKept ==
    ASSUME NEW c \in Callers, BoardOf(c), provider' = provider,
           req'[c] = req[c], snap'[c] = snap[c], todo'[c] = todo[c],
           wrote'[c] = wrote[c], pc'[c] = pc[c]
    PROVE  BoardOf(c)'
<1>1. \A f : Asked(c, f)' = Asked(c, f)
  BY AskedKept
<1>2. \A f : LastValue(todo[c], f, wrote[c][f])'
               = LastValue(todo[c], f, wrote[c][f])
  BY DEF LastValue
<1> QED
  BY <1>1, <1>2 DEF BoardOf

LEMMA BoardConcluded ==
    ASSUME TypeOK, NEW c \in Callers, BoardOf(c), NEW outcome,
           Conclude(c, outcome), UNCHANGED <<provider, req>>
    PROVE  BoardOf(c)'
<1>1. pc'[c] \in {"read", "end"} /\ wrote'[c] = NothingWritten
  BY DEF Conclude, NextUp, TypeOK
<1> QED
  BY <1>1 DEF BoardOf

LEMMA BoardFails ==
    ASSUME TypeOK, NEW c \in Callers, BoardOf(c), Fails(c), UNCHANGED <<provider, req>>
    PROVE  BoardOf(c)'
BY BoardConcluded DEF Fails

(* A step of one caller leaves what the others have written and will write.*)
LEMMA AnsweredIsLocal ==
    ASSUME TypeOK, NEW c \in Callers, NEW next, NEW writes, NEW board,
           Answered(c, next, writes, board), NEW d \in Callers, d # c
    PROVE  /\ pc'[d] = pc[d] /\ snap'[d] = snap[d]
           /\ todo'[d] = todo[d] /\ wrote'[d] = wrote[d]
BY DEF Answered, Fails, Conclude, TypeOK

LEMMA ProceedIsLocal ==
    ASSUME TypeOK, NEW c \in Callers, Proceed(c), NEW d \in Callers, d # c
    PROVE  /\ provider' = provider /\ req' = req
           /\ pc'[d] = pc[d] /\ snap'[d] = snap[d]
           /\ todo'[d] = todo[d] /\ wrote'[d] = wrote[d]
<1>1. CASE Read(c)
  BY <1>1 DEF Read, TypeOK
<1>2. CASE Refuse(c)
  BY <1>2 DEF Refuse, Fails, Conclude, TypeOK
<1>3. CASE WriteGitHub(c)
  <2>1. /\ provider' = provider /\ req' = req
        /\ \/ Answered(c, "board", BoardWrites(c), NothingWritten)
           \/ /\ pc' = [pc EXCEPT ![c] = "board"]
              /\ todo' = [todo EXCEPT ![c] = BoardWrites(c)]
              /\ UNCHANGED <<snap, wrote>>
    BY <1>3 DEF WriteGitHub
  <2> QED
    BY <2>1, AnsweredIsLocal DEF TypeOK
<1>4. CASE WriteGitLab(c)
  <2>1. provider' = provider /\ req' = req /\ \E b : Answered(c, "return", <<>>, b)
    BY <1>4 DEF WriteGitLab
  <2> QED
    BY <2>1, AnsweredIsLocal
<1>5. CASE WriteAzure(c)
  <2>1. provider' = provider /\ req' = req /\ \E b : Answered(c, "return", <<>>, b)
    BY <1>5 DEF WriteAzure
  <2> QED
    BY <2>1, AnsweredIsLocal
<1>6. CASE WriteBoard(c)
  <2>1. /\ provider' = provider /\ req' = req
        /\ Fails(c) \/ \E w, b : Answered(c, "board", w, b)
    BY <1>6 DEF WriteBoard
  <2>2. Fails(c) => Answered(c, "board", <<>>, NothingWritten)
    BY DEF Answered
  <2> QED
    BY <2>1, <2>2, AnsweredIsLocal
<1>7. CASE BoardDone(c)
  BY <1>7 DEF BoardDone, locals, TypeOK
<1>8. CASE Reread(c)
  <2>1. /\ provider' = provider /\ req' = req
        /\ \/ Fails(c)
           \/ /\ \E p : pc' = [pc EXCEPT ![c] = p]
              /\ UNCHANGED <<snap, todo, wrote>>
    BY <1>8 DEF Reread
  <2>2. Fails(c) => Answered(c, "return", <<>>, NothingWritten)
    BY DEF Answered
  <2> QED
    BY <2>1, <2>2, AnsweredIsLocal DEF TypeOK
<1>9. CASE Return(c)
  BY <1>9 DEF Return, Conclude, TypeOK
<1> QED
  BY <1>1, <1>2, <1>3, <1>4, <1>5, <1>6, <1>7, <1>8, <1>9 DEF Proceed

(* The write of the ticket, or of one field, takes its caller on.          *)
LEMMA BoardAnswered ==
    ASSUME TypeOK, NEW c \in Callers, BoardOf(c), UNCHANGED <<provider, req>>,
           NEW next \in {"board", "return"}, NEW writes,
           NEW board \in [Fields -> Values \cup {Unset}],
           Answered(c, next, writes, board),
           next = "board" => \A f \in Fields :
              LastValue(writes, f, board[f]) = Asked(c, f),
           next = "return" => \A f \in Fields : board[f] = Asked(c, f)
    PROVE  BoardOf(c)'
<1>1. CASE Fails(c)
  BY <1>1, BoardFails
<1>2. CASE /\ pc' = [pc EXCEPT ![c] = next]
           /\ todo' = [todo EXCEPT ![c] = writes]
           /\ wrote' = [wrote EXCEPT ![c] = board]
           /\ UNCHANGED <<results, snap, tries>>
  <2>1. pc'[c] = next /\ todo'[c] = writes /\ wrote'[c] = board
    BY <1>2 DEF TypeOK
  <2>2. \A f : Asked(c, f)' = Asked(c, f)
    BY <1>2, AskedKept
  <2>3. \A f : LastValue(todo[c], f, wrote[c][f])' = LastValue(writes, f, board[f])
    BY <2>1 DEF LastValue
  <2> QED
    BY <2>1, <2>2, <2>3 DEF BoardOf
<1> QED
  BY <1>1, <1>2 DEF Answered

LEMMA BoardProceeds ==
    ASSUME TypeOK, NEW c \in Callers, BoardOf(c), Proceed(c)
    PROVE  BoardOf(c)'
<1>1. CASE Read(c)
  <2>1. /\ pc[c] = "read" /\ pc'[c] = "write" /\ wrote'[c] = wrote[c]
        /\ provider' = provider /\ req' = req
    BY <1>1 DEF Read, TypeOK
  <2> QED
    BY <2>1 DEF BoardOf
<1>2. CASE Refuse(c)
  BY <1>2, BoardFails DEF Refuse
<1>3. CASE WriteGitHub(c)
  <2>1. /\ pc[c] = "write" /\ provider' = provider /\ req' = req
        /\ \/ Answered(c, "board", BoardWrites(c), NothingWritten)
           \/ /\ pc' = [pc EXCEPT ![c] = "board"]
              /\ todo' = [todo EXCEPT ![c] = BoardWrites(c)]
              /\ UNCHANGED <<snap, results, tries, wrote>>
    BY <1>3 DEF WriteGitHub
  <2>2. wrote[c] = NothingWritten
    BY <2>1 DEF BoardOf
  <2>3. wrote = [wrote EXCEPT ![c] = NothingWritten]
    BY <2>2 DEF TypeOK
  <2>4. Answered(c, "board", BoardWrites(c), NothingWritten)
    BY <2>1, <2>3 DEF Answered
  <2>5. \A f \in Fields : LastValue(BoardWrites(c), f, NothingWritten[f]) = Asked(c, f)
    BY DEF NothingWritten, Asked
  <2> QED
    BY <2>1, <2>4, <2>5, BlankTypes, BoardAnswered
<1>4. CASE WriteGitLab(c)
  <2> DEFINE mile == MilestoneWrite(req[c])
             board == [f \in Fields |-> LastValue(mile, f, Unset)]
  <2>1. /\ provider = "gitlab" /\ provider' = provider /\ req' = req
        /\ Answered(c, "return", <<>>, board)
    BY <1>4 DEF WriteGitLab
  <2>2. mile \in Seq(Fields \X Values)
    BY BoardWritesType
  <2>3. BoardWrites(c) = mile
    <3>1. BoardWrites(c) = (<<>> \o mile) \o <<>>
      BY <2>1 DEF BoardWrites, BoardOf, Resets
    <3> HIDE DEF mile
    <3> QED
      BY <2>2, <3>1, ConcatEmptySeq
  <2>4. \A f \in Fields : board[f] = Asked(c, f)
    BY <2>3 DEF Asked
  <2>5. board \in [Fields -> Values \cup {Unset}]
    BY <2>2, BoardAfterType
  <2> HIDE DEF board
  <2> QED
    BY <2>1, <2>4, <2>5, BoardAnswered
<1>5. CASE WriteAzure(c)
  <2> DEFINE board == [f \in Fields |-> LastValue(BoardWrites(c), f, Unset)]
  <2>1. provider' = provider /\ req' = req /\ Answered(c, "return", <<>>, board)
    BY <1>5 DEF WriteAzure
  <2>2. \A f \in Fields : board[f] = Asked(c, f)
    BY DEF Asked
  <2>3. board \in [Fields -> Values \cup {Unset}]
    BY BoardAfterType, BoardWritesType
  <2> HIDE DEF board
  <2> QED
    BY <2>1, <2>2, <2>3, BoardAnswered
<1>6. CASE WriteBoard(c)
  <2> DEFINE h == Head(todo[c])
             rest == Tail(todo[c])
             board == [wrote[c] EXCEPT ![h[1]] = h[2]]
  <2>1. /\ pc[c] = "board" /\ todo[c] # <<>>
        /\ provider' = provider /\ req' = req
        /\ Fails(c) \/ Answered(c, "board", rest, board)
    BY <1>6 DEF WriteBoard
  <2>2. todo[c] \in Seq(Fields \X Values) /\ wrote[c] \in [Fields -> Values \cup {Unset}]
    BY DEF TypeOK
  <2>3. h \in Fields \X Values
    BY <2>1, <2>2, HeadTailProperties
  <2>4. h[1] \in Fields /\ h[2] \in Values
    BY <2>3
  <2>5. ASSUME NEW f \in Fields
        PROVE  LastValue(rest, f, board[f]) = Asked(c, f)
    <3>1. board[f] = IF h[1] = f THEN h[2] ELSE wrote[c][f]
      BY <2>2
    <3>2. LastValue(todo[c], f, wrote[c][f])
            = LastValue(rest, f, IF h[1] = f THEN h[2] ELSE wrote[c][f])
      BY <2>1, <2>2, ValueOfRest
    <3>3. LastValue(todo[c], f, wrote[c][f]) = Asked(c, f)
      BY <2>1 DEF BoardOf
    <3> HIDE DEF board, h, rest
    <3> QED
      BY <3>1, <3>2, <3>3
  <2>6. board \in [Fields -> Values \cup {Unset}]
    BY <2>2, <2>4
  <2> HIDE DEF board, rest
  <2> QED
    BY <2>1, <2>5, <2>6, BoardAnswered, BoardFails
<1>7. CASE BoardDone(c)
  <2>1. /\ pc[c] = "board" /\ todo[c] = <<>> /\ pc'[c] \in {"reread", "return"}
        /\ provider' = provider /\ req' = req /\ snap' = snap /\ wrote' = wrote
    BY <1>7 DEF BoardDone, locals, TypeOK
  <2>2. \A f \in Fields : wrote[c][f] = Asked(c, f)
    BY <2>1, ValueOfNone DEF BoardOf
  <2>3. \A f : Asked(c, f)' = Asked(c, f)
    BY <2>1, AskedKept
  <2> QED
    BY <2>1, <2>2, <2>3 DEF BoardOf
<1>8. CASE Reread(c)
  <2>1. /\ provider' = provider /\ req' = req /\ pc[c] = "reread"
        /\ \/ Fails(c)
           \/ /\ \E p \in {"return", "reread"} : pc' = [pc EXCEPT ![c] = p]
              /\ UNCHANGED <<snap, wrote>>
    BY <1>8 DEF Reread
  <2>2. CASE Fails(c)
    BY <2>1, <2>2, BoardFails
  <2>3. CASE pc'[c] \in {"return", "reread"} /\ UNCHANGED <<snap, wrote>>
    <3>1. \A f : Asked(c, f)' = Asked(c, f)
      BY <2>1, <2>3, AskedKept
    <3> QED
      BY <2>1, <2>3, <3>1 DEF BoardOf
  <2> QED
    BY <2>1, <2>2, <2>3 DEF TypeOK
<1>9. CASE Return(c)
  BY <1>9, BoardConcluded DEF Return
<1> QED
  BY <1>1, <1>2, <1>3, <1>4, <1>5, <1>6, <1>7, <1>8, <1>9 DEF Proceed

LEMMA BoardStep == TypeOK /\ BoardInv /\ [Next]_vars => BoardInv'
<1> SUFFICES ASSUME TypeOK, BoardInv, [Next]_vars, NEW d \in Callers
             PROVE  BoardOf(d)'
  BY DEF BoardInv
<1>0. BoardOf(d)
  BY DEF BoardInv
<1>1. CASE UNCHANGED vars \/ Cascade \/ Outsider
  <2>1. UNCHANGED <<provider, req, snap, todo, wrote, pc>>
    BY <1>1 DEF vars, locals, Cascade, Outsider
  <2> QED
    BY <1>0, <2>1, BoardKept
<1>2. ASSUME NEW c \in Callers, Begin(c)
      PROVE  BoardOf(d)'
  <2>1. PICK r \in Requests :
          /\ Offers(r)
          /\ req' = [req EXCEPT ![c] = r]
          /\ pc' = [pc EXCEPT ![c] = IF r.times = 0 THEN "end" ELSE "read"]
    BY <1>2 DEF Begin
  <2>2. pc[c] = "idle" /\ UNCHANGED <<provider, snap, todo, wrote>>
    BY <1>2 DEF Begin, locals
  <2>3. CASE d = c
    <3>1. req'[c] = r /\ pc'[c] \in {"end", "read"}
      BY <2>1 DEF TypeOK
    <3> QED
      BY <1>0, <2>1, <2>2, <2>3, <3>1 DEF BoardOf, Offers
  <2>4. CASE d # c
    <3>1. req'[d] = req[d] /\ pc'[d] = pc[d]
      BY <2>1, <2>4 DEF TypeOK
    <3> QED
      BY <1>0, <2>2, <3>1, BoardKept
  <2> QED
    BY <2>3, <2>4
<1>3. ASSUME NEW c \in Callers, Proceed(c)
      PROVE  BoardOf(d)'
  <2>1. CASE d = c
    BY <1>0, <1>3, <2>1, BoardProceeds
  <2>2. CASE d # c
    BY <1>0, <1>3, <2>2, ProceedIsLocal, BoardKept
  <2> QED
    BY <2>1, <2>2
<1> QED
  BY <1>1, <1>2, <1>3 DEF Next

(* A successful update leaves its last write of each board field to be the *)
(* value asked for, in whatever order and however often fields were named. *)
THEOREM BoardTheorem == Spec => []BoardEndsAsAsked
<1>1. TypeOK /\ BoardInv => BoardEndsAsAsked
  <2> SUFFICES ASSUME TypeOK, BoardInv, NEW c \in Callers, pc[c] = "return"
               PROVE  /\ wrote[c]["iteration"] =
                           IF req[c].milestone # Unset THEN req[c].milestone
                           ELSE LastValue(req[c].fields, "iteration", Unset)
                      /\ wrote[c]["column"] =
                           IF /\ provider = "github" /\ req[c].status = "open"
                              /\ snap[c].state = "closed" /\ ~Asks(req[c], "column")
                           THEN First
                           ELSE LastValue(req[c].fields, "column", Unset)
    BY DEF BoardEndsAsAsked
  <2>1. \A f \in Fields : wrote[c][f] = Asked(c, f)
    BY DEF BoardInv, BoardOf
  <2>2. wrote[c]["iteration"] = Asked(c, "iteration")
        /\ wrote[c]["column"] = Asked(c, "column")
    BY <2>1 DEF Fields
  <2>3. /\ Asked(c, "iteration") =
             IF req[c].milestone # Unset THEN req[c].milestone
             ELSE LastValue(req[c].fields, "iteration", Unset)
        /\ Asked(c, "column") =
             IF Resets(c) THEN First ELSE LastValue(req[c].fields, "column", Unset)
    BY AskedIs
  <2> QED
    BY <2>2, <2>3 DEF Resets
<1> QED
  BY <1>1, InitTypes, StepTypes, BoardInit, BoardStep, PTL DEF Spec

-----------------------------------------------------------------------------
(* The columns of a board.                                                 *)

(* The list a call has read has no twins, and none of the name it adds.    *)
Distinct(cs) == \A c, d \in cs : Lower[c.name] = Lower[d.name] => c = d
WriterInv ==
    \A t \in Clients : call[t].pc = "write" =>
        Distinct(call[t].seen) /\ Named(call[t].seen, call[t].name) = {}

IInv == ColumnsTypeOK /\ NoTwins /\ WriterInv

USE BoardConstants

-----------------------------------------------------------------------------
(* A list without twins stays so when a column of a free name is added.    *)
LEMMA AddedIsDistinct ==
    ASSUME NEW cs, NEW c, Distinct(cs), Named(cs, c.name) = {}
    PROVE  Distinct(cs \cup {c})
BY DEF Distinct, Named

LEMMA NewColumn ==
    ASSUME NEW i \in Nat \ {0}, NEW n \in Names
    PROVE  Column(i, n) \in ColumnRecords /\ Column(i, n).name = n
BY DEF Column, ColumnRecords

(* Replacing the columns puts each card in its column or in none.          *)
LEMMA ReplaceTypes ==
    ASSUME ColumnsTypeOK, NEW new \in SUBSET ColumnRecords, Replace(new)
    PROVE  columns' \in SUBSET ColumnRecords /\ cards' \in [Cards -> Nat]
BY DEF ColumnsTypeOK, Replace, NoColumn

(* What the server stores of a call has no twins and holds all it had read.*)
LEMMA WrittenIsSound ==
    ASSUME IInv, NEW t \in Clients, call[t].pc = "write", Written(t)
    PROVE  /\ columns' \in SUBSET ColumnRecords /\ cards' \in [Cards -> Nat] /\ made' \in Nat
           /\ NoTwins'
           /\ call[t].seen \subseteq columns'
           /\ \A k \in Cards : cards[k] \in Ids(call[t].seen) => cards'[k] = cards[k]
<1> DEFINE seen == call[t].seen  n == call[t].name  new == Column(made + 1, n)
<1>1. seen \in SUBSET ColumnRecords /\ n \in Names /\ made \in Nat
  BY DEF IInv, ColumnsTypeOK, Calls, Idle
<1>2. new \in ColumnRecords /\ new.name = n
  <2>1. made + 1 \in Nat \ {0}
    BY <1>1
  <2>2. n \in Names
    BY <1>1
  <2> HIDE DEF n
  <2> QED
    BY <2>1, <2>2, NewColumn
<1>3. Replace(seen \cup {new}) /\ made' = made + 1
  BY DEF Written, Sent
<1>4. Distinct(seen) /\ Named(seen, n) = {}
  BY DEF IInv, WriterInv
<1> HIDE DEF seen, n, new
<1>5. Distinct(seen \cup {new})
  BY <1>2, <1>4, AddedIsDistinct
<1>6. columns' = seen \cup {new}
  BY <1>3 DEF Replace
<1>7. columns' \in SUBSET ColumnRecords /\ cards' \in [Cards -> Nat]
  BY <1>1, <1>2, <1>3, ReplaceTypes DEF IInv
<1>8. \A k \in Cards : cards[k] \in Ids(seen) => cards'[k] = cards[k]
  BY <1>3 DEF Replace, Ids
<1>9. NoTwins'
  BY <1>5, <1>6 DEF Distinct, NoTwins
<1> QED BY <1>1, <1>3, <1>6, <1>7, <1>8, <1>9 DEF seen

-----------------------------------------------------------------------------
(* People leave the calls alone and make no twins.                         *)
LEMMA PeopleKeep ==
    ASSUME IInv, Environment
    PROVE  /\ columns' \in SUBSET ColumnRecords /\ cards' \in [Cards -> Nat] /\ made' \in Nat
           /\ NoTwins' /\ call' = call /\ events' \in Nat /\ faults' \in Nat
<1>0. call' = call /\ events' \in Nat /\ faults' \in Nat
  <2>1. events \in Nat /\ faults \in Nat
    BY DEF IInv, ColumnsTypeOK
  <2>2. ASSUME NEW n \in Names, AddColumn(n)
        PROVE  call' = call /\ events' = events + 1 /\ faults' = faults
    BY <2>2 DEF AddColumn, Other
  <2>3. ASSUME NEW c \in columns,
               \/ DeleteColumn(c) \/ Restyle(c)
               \/ \E n \in Names : Rename(c, n)
               \/ \E k \in Cards : MoveCard(k, c)
        PROVE  call' = call /\ events' = events + 1 /\ faults' = faults
    <3>1. ASSUME NEW n \in Names, Rename(c, n)
          PROVE  call' = call /\ events' = events + 1 /\ faults' = faults
      BY <3>1 DEF Rename, Other
    <3>2. ASSUME NEW k \in Cards, MoveCard(k, c)
          PROVE  call' = call /\ events' = events + 1 /\ faults' = faults
      BY <3>2 DEF MoveCard, Other
    <3>3. CASE DeleteColumn(c)
      BY <3>3 DEF DeleteColumn, Other
    <3>4. CASE Restyle(c)
      BY <3>4 DEF Restyle, Other
    <3> QED BY <2>3, <3>1, <3>2, <3>3, <3>4
  <2>4. call' = call /\ events' = events + 1 /\ faults' = faults
    BY <2>2, <2>3 DEF Environment
  <2> QED BY <2>1, <2>4
<1>1. ASSUME NEW n \in Names, AddColumn(n)
      PROVE  columns' \in SUBSET ColumnRecords /\ cards' \in [Cards -> Nat] /\ made' \in Nat /\ NoTwins'
  <2>1. /\ Free(n) /\ made' = made + 1
        /\ Replace(columns \cup {Column(made + 1, n)})
    BY <1>1 DEF AddColumn, Other
  <2>2. Column(made + 1, n) \in ColumnRecords /\ Column(made + 1, n).name = n
    BY NewColumn DEF IInv, ColumnsTypeOK
  <2>3. Distinct(columns \cup {Column(made + 1, n)})
    BY <2>1, <2>2, AddedIsDistinct DEF Free, Named, Distinct, IInv, NoTwins
  <2>4. columns' = columns \cup {Column(made + 1, n)}
    BY <2>1 DEF Replace
  <2>5. columns' \in SUBSET ColumnRecords /\ cards' \in [Cards -> Nat]
    BY <2>1, <2>2, ReplaceTypes DEF IInv, ColumnsTypeOK
  <2>6. NoTwins'
    BY <2>3, <2>4 DEF Distinct, NoTwins
  <2>7. made' \in Nat
    BY <2>1 DEF IInv, ColumnsTypeOK
  <2> QED BY <2>5, <2>6, <2>7
<1>2. ASSUME NEW c \in columns, DeleteColumn(c)
      PROVE  columns' \in SUBSET ColumnRecords /\ cards' \in [Cards -> Nat] /\ made' \in Nat /\ NoTwins'
  <2>1. Replace(columns \ {c}) /\ made' = made
    BY <1>2 DEF DeleteColumn, Other
  <2>2. columns' \in SUBSET ColumnRecords /\ cards' \in [Cards -> Nat]
    BY <2>1, ReplaceTypes DEF IInv, ColumnsTypeOK
  <2> QED BY <2>1, <2>2 DEF Replace, NoTwins, IInv, ColumnsTypeOK
<1>3. ASSUME NEW c \in columns, NEW d \in ColumnRecords,
             Replace((columns \ {c}) \cup {d}), made' = made,
             Named(columns \ {c}, d.name) = {}
      PROVE  columns' \in SUBSET ColumnRecords /\ cards' \in [Cards -> Nat] /\ made' \in Nat /\ NoTwins'
  <2>1. Distinct(columns \ {c})
    BY DEF Distinct, IInv, NoTwins
  <2>2. Distinct((columns \ {c}) \cup {d})
    BY <1>3, <2>1, AddedIsDistinct
  <2>3. columns' = (columns \ {c}) \cup {d}
    BY <1>3 DEF Replace
  <2>4. columns' \in SUBSET ColumnRecords /\ cards' \in [Cards -> Nat]
    BY <1>3, ReplaceTypes DEF IInv, ColumnsTypeOK
  <2> QED BY <1>3, <2>2, <2>3, <2>4 DEF Distinct, NoTwins, IInv, ColumnsTypeOK
<1>4. ASSUME NEW c \in columns, Restyle(c)
      PROVE  columns' \in SUBSET ColumnRecords /\ cards' \in [Cards -> Nat] /\ made' \in Nat /\ NoTwins'
  <2> DEFINE d == [c EXCEPT !.look = "chosen"]
  <2>1. c \in ColumnRecords /\ d \in ColumnRecords /\ d.name = c.name
    BY DEF IInv, ColumnsTypeOK, ColumnRecords
  <2>2. Replace((columns \ {c}) \cup {d}) /\ made' = made
    BY <1>4 DEF Restyle, Other
  <2>3. Named(columns \ {c}, c.name) = {}
    BY DEF Named, IInv, NoTwins
  <2> HIDE DEF d
  <2> QED BY <1>3, <2>1, <2>2, <2>3
<1>5. ASSUME NEW c \in columns, NEW n \in Names, Rename(c, n)
      PROVE  columns' \in SUBSET ColumnRecords /\ cards' \in [Cards -> Nat] /\ made' \in Nat /\ NoTwins'
  <2> DEFINE d == [c EXCEPT !.name = n]
  <2>1. d \in ColumnRecords /\ d.name = n
    BY DEF IInv, ColumnsTypeOK, ColumnRecords
  <2>2. Free(n) /\ Replace((columns \ {c}) \cup {d}) /\ made' = made
    BY <1>5 DEF Rename, Other
  <2>3. Named(columns \ {c}, n) = {}
    BY <2>2 DEF Named, Free
  <2> HIDE DEF d
  <2> QED BY <1>3, <2>1, <2>2, <2>3
<1>6. ASSUME NEW k \in Cards, NEW c \in columns, MoveCard(k, c)
      PROVE  columns' \in SUBSET ColumnRecords /\ cards' \in [Cards -> Nat] /\ made' \in Nat /\ NoTwins'
  <2>1. cards' = [cards EXCEPT ![k] = c.id] /\ columns' = columns /\ made' = made
    BY <1>6 DEF MoveCard, Other
  <2>2. c.id \in Nat
    BY DEF IInv, ColumnsTypeOK, ColumnRecords
  <2> QED BY <2>1, <2>2 DEF IInv, ColumnsTypeOK, NoTwins
<1> QED BY <1>0, <1>1, <1>2, <1>4, <1>5, <1>6 DEF Environment

-----------------------------------------------------------------------------
LEMMA CallerKeepsInv ==
    ASSUME IInv, NEW t \in Clients, CallerNext(t)
    PROVE  IInv'
<1>1. ASSUME NEW n \in Names, Ask(t, n)
      PROVE  IInv'
  <2>1. call' = [call EXCEPT ![t] = [pc |-> "read", name |-> n]]
    BY <1>1 DEF Ask, Set
  <2>2. [pc |-> "read", name |-> n] \in Calls
    BY DEF Calls
  <2>3. UNCHANGED <<columns, cards, made, events, faults>>
    BY <1>1 DEF Ask
  <2>4. ColumnsTypeOK' /\ NoTwins'
    BY <2>1, <2>2, <2>3 DEF IInv, ColumnsTypeOK, NoTwins
  <2>5. WriterInv'
    BY <2>1 DEF IInv, ColumnsTypeOK, WriterInv, Named
  <2> QED BY <2>4, <2>5 DEF IInv
<1>2. CASE ReadColumns(t)
  <2> DEFINE n == call[t].name
             next == IF Named(columns, n) # {} THEN Idle
                     ELSE [pc |-> "write", name |-> n, seen |-> columns]
  <2>1. call' = [call EXCEPT ![t] = next]
    BY <1>2 DEF ReadColumns, Set
  <2>2. n \in Names
    BY <1>2 DEF ReadColumns, IInv, ColumnsTypeOK, Calls, Idle
  <2>3. next \in Calls
    BY <2>2 DEF Calls, IInv, ColumnsTypeOK
  <2>4. next.pc = "write" => Distinct(next.seen) /\ Named(next.seen, next.name) = {}
    BY DEF Idle, Distinct, IInv, NoTwins
  <2>5. UNCHANGED <<columns, cards, made, events, faults>>
    BY <1>2 DEF ReadColumns
  <2> HIDE DEF next
  <2>6. ColumnsTypeOK' /\ NoTwins'
    BY <2>1, <2>3, <2>5 DEF IInv, ColumnsTypeOK, NoTwins
  <2>7. WriterInv'
    BY <2>1, <2>4 DEF IInv, ColumnsTypeOK, WriterInv, Named, Distinct
  <2> QED BY <2>6, <2>7 DEF IInv
<1>3. CASE Write(t) \/ Fail(t)
  <2>1. call' = [call EXCEPT ![t] = Idle] /\ events' \in Nat /\ faults' \in Nat
    BY <1>3 DEF Write, Fail, Set, IInv, ColumnsTypeOK
  <2>2. WriterInv'
    BY <2>1 DEF IInv, ColumnsTypeOK, WriterInv, Named, Distinct, Idle
  <2>3. call' \in [Clients -> Calls]
    BY <2>1 DEF IInv, ColumnsTypeOK, Calls
  <2>4. CASE UNCHANGED <<columns, cards, made>>
    BY <2>1, <2>2, <2>3, <2>4 DEF IInv, ColumnsTypeOK, NoTwins
  <2>5. CASE call[t].pc = "write" /\ Written(t)
    BY <2>1, <2>2, <2>3, <2>5, WrittenIsSound DEF IInv, ColumnsTypeOK
  <2> QED BY <1>3, <2>4, <2>5 DEF Write, Fail
<1> QED BY <1>1, <1>2, <1>3 DEF CallerNext

LEMMA InvInit == ColumnsInit => IInv
<1> SUFFICES ASSUME ColumnsInit PROVE IInv
  OBVIOUS
<1>1. \A n \in Names : Column(1, n) \in ColumnRecords
  BY NewColumn
<1>2. ColumnsTypeOK
  BY <1>1 DEF ColumnsInit, ColumnsTypeOK, Calls, NoColumn
<1>3. NoTwins
  BY DEF ColumnsInit, NoTwins
<1>4. WriterInv
  BY DEF ColumnsInit, WriterInv, Idle
<1> QED BY <1>2, <1>3, <1>4 DEF IInv

LEMMA InvStep == IInv /\ [ColumnsNext]_columnVars => IInv'
<1> SUFFICES ASSUME IInv, [ColumnsNext]_columnVars PROVE IInv'
  OBVIOUS
<1>1. CASE UNCHANGED columnVars
  BY <1>1 DEF columnVars, IInv, ColumnsTypeOK, NoTwins, WriterInv, Named, Distinct
<1>2. CASE Environment
  <2>1. WriterInv'
    BY <1>2, PeopleKeep DEF IInv, WriterInv, Named, Distinct
  <2> QED BY <1>2, <2>1, PeopleKeep DEF IInv, ColumnsTypeOK
<1>3. CASE \E t \in Clients : CallerNext(t)
  BY <1>3, CallerKeepsInv
<1> QED BY <1>1, <1>2, <1>3 DEF ColumnsNext

(* A board never gets two columns of one name from ensure_board_column,    *)
(* however many calls overlap, fail and are repeated.                      *)
THEOREM BoardHasNoTwins == ColumnsSpec => []NoTwins
<1>1. ColumnsSpec => []IInv
  BY InvInit, InvStep, PTL DEF ColumnsSpec
<1>2. IInv => NoTwins
  BY DEF IInv
<1> QED BY <1>1, <1>2, PTL

-----------------------------------------------------------------------------
LEMMA EndOfCall ==
    ASSUME IInv, [ColumnsNext]_columnVars, NEW t \in Clients, call[t].pc = "write", call'[t] = Idle
    PROVE  /\ Ids(columns) \cap Ids(call[t].seen) \subseteq Ids(columns')
           /\ \A k \in Cards : cards[k] \in Ids(call[t].seen) => cards'[k] = cards[k]
<1>1. call'[t] # call[t]
  BY DEF Idle
<1>2. PICK u \in Clients : CallerNext(u)
  BY <1>1, PeopleKeep DEF ColumnsNext, columnVars
<1>3. u = t
  BY <1>1, <1>2 DEF CallerNext, Ask, ReadColumns, Write, Fail, Set, IInv, ColumnsTypeOK
<1>4. Write(t) \/ Fail(t)
  <2>1. CallerNext(t)
    BY <1>2, <1>3
  <2>2. ~ReadColumns(t)
    BY DEF ReadColumns
  <2>3. \A n \in Names : ~Ask(t, n)
    BY DEF Ask, Idle
  <2> QED BY <2>1, <2>2, <2>3 DEF CallerNext
<1>5. UNCHANGED <<columns, cards>> \/ Written(t)
  BY <1>4 DEF Write, Fail
<1> QED BY <1>5, WrittenIsSound DEF Ids

(* What a call had read of the board keeps its id and its cards.           *)
THEOREM ReadColumnsKept == ColumnsSpec => ReadColumnsSurvive
<1>1. ColumnsSpec => []IInv
  BY InvInit, InvStep, PTL DEF ColumnsSpec
<1>2. IInv /\ [ColumnsNext]_columnVars =>
        [\A t \in Clients :
           (call[t].pc = "write" /\ call'[t] = Idle) =>
               /\ Ids(columns) \cap Ids(call[t].seen) \subseteq Ids(columns')
               /\ \A k \in Cards :
                    cards[k] \in Ids(call[t].seen) => cards'[k] = cards[k]]_columnVars
  BY EndOfCall
<1> QED BY <1>1, <1>2, PTL DEF ColumnsSpec, ReadColumnsSurvive
=============================================================================
