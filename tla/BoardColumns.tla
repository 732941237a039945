----------------------------- MODULE BoardColumns -----------------------------
(***************************************************************************)
(* ensure_board_column of GitHub and Azure DevOps.  Neither can create one *)
(* column: the list of all columns is read, extended and written back as a *)
(* whole, without a revision, while others do the same and cards move.     *)
(***************************************************************************)
EXTENDS Naturals

CONSTANTS
    Clients,
    Names,
    Lower,          \* the lower-case form of each name
    Cards,
    MaxMade,        \* bound on the columns ever made
    MaxEvents,      \* bound on what other people do
    MaxFaults       \* bound on requests that fail

VARIABLES
    columns,        \* server: the columns of the board
    cards,          \* server: the column each card is in, by its id
    made,           \* server: the last id given to a column
    call,           \* what each caller is doing
    events, faults

columnVars == <<columns, cards, made, call, events, faults>>

ASSUME BoardConstants ==
    /\ Lower \in [Names -> Names]
    /\ MaxMade \in Nat /\ MaxEvents \in Nat /\ MaxFaults \in Nat

(* look is what else there is to a column: colour and description, limit   *)
(* and split.                                                              *)
Column(i, n) == [id |-> i, name |-> n, look |-> "default"]
ColumnRecords == [id : Nat \ {0}, name : Names, look : {"default", "chosen"}]
Ids(cs) == {c.id : c \in cs}
NoColumn == 0

Idle == [pc |-> "idle"]

(* The columns a call takes for the one it is to provide.                  *)
Named_Exactly(cs, n) == {c \in cs : c.name = n}
Named(cs, n) == {c \in cs : Lower[c.name] = Lower[n]}

Calls ==
    {Idle} \cup [pc : {"read"}, name : Names]
           \cup [pc : {"write"}, name : Names, seen : SUBSET ColumnRecords]

ColumnsTypeOK ==
    /\ columns \in SUBSET ColumnRecords
    /\ cards \in [Cards -> Nat]
    /\ made \in Nat
    /\ call \in [Clients -> Calls]
    /\ events \in Nat /\ faults \in Nat

ColumnsInit ==
    /\ columns \in {{}} \cup {{Column(1, n)} : n \in Names}
    /\ made = 1
    /\ cards = [k \in Cards |-> NoColumn]
    /\ call = [t \in Clients |-> Idle]
    /\ events = 0 /\ faults = 0

(* A card whose column is gone is in none.                                 *)
Replace(new) ==
    /\ columns' = new
    /\ cards' = [k \in Cards |-> IF cards[k] \in Ids(new) THEN cards[k] ELSE NoColumn]

-----------------------------------------------------------------------------
(* A call.                                                                 *)

Set(t, new) == call' = [call EXCEPT ![t] = new]

Ask(t, n) ==
    /\ call[t] = Idle
    /\ Set(t, [pc |-> "read", name |-> n])
    /\ UNCHANGED <<columns, cards, made, events, faults>>

(* A name that is there in any case is the answer.                         *)
ReadColumns(t) ==
    /\ call[t].pc = "read"
    /\ LET n == call[t].name
       IN  Set(t, IF Named(columns, n) # {} THEN Idle
                  ELSE [pc |-> "write", name |-> n, seen |-> columns])
    /\ UNCHANGED <<columns, cards, made, events, faults>>

(* Each column that was read is sent with its id and its looks.            *)
Sent_WithoutIds(seen) == {[c EXCEPT !.id = @ + made] : c \in seen}
Sent(seen) == seen

Written(t) ==
    /\ made < MaxMade
    /\ made' = made + 1
    /\ Replace(Sent(call[t].seen) \cup {Column(made + 1, call[t].name)})

(* A column that has been deleted meanwhile comes back, unless the server  *)
(* refuses the list; it may do so for reasons of its own.                  *)
Write(t) ==
    /\ call[t].pc = "write"
    /\ \/ Written(t)
       \/ UNCHANGED <<columns, cards, made>>
    /\ Set(t, Idle)
    /\ UNCHANGED <<events, faults>>

(* Without an answer the write may have taken effect.                      *)
Fail(t) ==
    /\ call[t].pc \in {"read", "write"}
    /\ faults < MaxFaults /\ faults' = faults + 1
    /\ \/ UNCHANGED <<columns, cards, made>>
       \/ call[t].pc = "write" /\ Written(t)
    /\ Set(t, Idle)
    /\ UNCHANGED events

-----------------------------------------------------------------------------
(* Everybody else.  No person makes a column of a name that is taken.      *)

Other(change) ==
    /\ events < MaxEvents /\ events' = events + 1
    /\ change
    /\ UNCHANGED <<call, faults>>

Free(n) == \A c \in columns : Lower[c.name] # Lower[n]

AddColumn(n) == Other(
    /\ Free(n) /\ made < MaxMade /\ made' = made + 1
    /\ Replace(columns \cup {Column(made + 1, n)}))
DeleteColumn(c) == Other(Replace(columns \ {c}) /\ UNCHANGED made)
Rename(c, n) == Other(
    /\ Free(n) /\ Replace((columns \ {c}) \cup {[c EXCEPT !.name = n]})
    /\ UNCHANGED made)
Restyle(c) == Other(
    /\ Replace((columns \ {c}) \cup {[c EXCEPT !.look = "chosen"]})
    /\ UNCHANGED made)
MoveCard(k, c) == Other(
    cards' = [cards EXCEPT ![k] = c.id] /\ UNCHANGED <<columns, made>>)

Environment ==
    \/ \E n \in Names : AddColumn(n)
    \/ \E c \in columns :
         \/ DeleteColumn(c) \/ Restyle(c)
         \/ \E n \in Names : Rename(c, n)
         \/ \E k \in Cards : MoveCard(k, c)

CallerNext(t) == (\E n \in Names : Ask(t, n)) \/ ReadColumns(t) \/ Write(t) \/ Fail(t)

ColumnsNext == (\E t \in Clients : CallerNext(t)) \/ Environment

ColumnsSpec == ColumnsInit /\ [][ColumnsNext]_columnVars

-----------------------------------------------------------------------------
(* However many calls overlap, fail and are repeated, and whatever people  *)
(* rename and add meanwhile, ensure_board_column never leaves two columns  *)
(* of one name: a retry finds the first, and of two calls that both found  *)
(* none the later one's list takes the place of the earlier one's.         *)
NoTwins ==
    \A c, d \in columns : Lower[c.name] = Lower[d.name] => c = d

(* For the same reason a call does destroy columns, with the cards in      *)
(* them, but only those that were made after it had read the board: what   *)
(* it had read keeps its id, and every card in it stays.                   *)
ReadColumnsSurvive == [][
    \A t \in Clients :
        (call[t].pc = "write" /\ call'[t] = Idle) =>
            /\ Ids(columns) \cap Ids(call[t].seen) \subseteq Ids(columns')
            /\ \A k \in Cards :
                 cards[k] \in Ids(call[t].seen) => cards'[k] = cards[k]
    ]_columnVars
=============================================================================
