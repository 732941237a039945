---------------------- MODULE ReviewAndListingProofs ----------------------
(***************************************************************************)
(* Two components that share no state.  First the pending-review flow: its *)
(* commits, cleanups and orphans, for any number of callers, commits,      *)
(* reviews, calls and abandoned requests.  Then the listings: what a page, *)
(* a cursor and a walk through the pages leave out and repeat, for any     *)
(* number of items, page size, limit and acts of others meanwhile.         *)
(***************************************************************************)
EXTENDS ReviewDraft, Listing, TLAPS, FiniteSetTheorems, SequenceTheorems

(* Where a caller's draft is, and whose.                                   *)
Holds(c) == \/ pc[c] \in {"attach", "submit"}
            \/ pc[c] = "ok" /\ req[c].kind = "submit"

Aimed(c) ==
    /\ draft[c] # 0 => draft[c] \in DOMAIN reviews
    /\ pc[c] = "attach" => draft[c] # 0
    /\ pc[c] = "ok" /\ req[c].kind = "submit" => draft[c] # 0
    /\ Holds(c) /\ draft[c] # 0 =>
         req[c].commit \in {NoCommit, reviews[draft[c]].commit}
    /\ created[c] => /\ draft[c] # 0 /\ reviews[draft[c]].maker = c
                     /\ pc[c] \notin {"find", "anchor", "create", "submit"}
                     /\ (pc[c] = "attach" => req[c].kind = "reply")
    /\ pc[c] = "anchor" => req[c].kind = "reply"
    /\ pc[c] = "create" => req[c].kind # "submit"
    /\ pc[c] = "confirm" => req[c].kind = "thread"
    /\ pc[c] \in {"verify", "delete"} => created[c]
    /\ pc[c] = "delete" => reviews[draft[c]].comments \subseteq gapped

(* What an abandoned write will do if it lands.                            *)
Harmless(w) ==
    /\ w.kind \in {"attach", "delete"} => w.review \in DOMAIN reviews
    /\ w.kind = "attach" => \A x \in w.comments :
         x.asked \in {NoCommit, reviews[w.review].commit}
    /\ w.kind \in {"create", "publish"} => \A x \in w.comments :
         x.asked \in {NoCommit, w.commit}
    /\ w.kind = "delete" => /\ reviews[w.review].maker = w.by
                            /\ reviews[w.review].comments \subseteq gapped

OnCommit == \A r \in DOMAIN reviews : \A x \in reviews[r].comments :
              x.asked \in {NoCommit, reviews[r].commit}

DraftInv ==
    /\ TypeOK /\ OnCommit /\ NoOrphan /\ CleanupIsCareful
    /\ \A c \in Callers : Aimed(c)
    /\ \A w \in late : Harmless(w)
-----------------------------------------------------------------------------
(* What a write that lands does to the reviews.                            *)

Creates(w) == w.kind \in {"create", "publish"}

LEMMA WriteTyped ==
    ASSUME TypeOK, NEW c \in Callers,
           pc[c] \in {"create", "attach", "submit", "delete"}
    PROVE  WriteOf(c) \in Writes /\ WriteOf(c).by = c
           /\ WriteOf(c).review = draft[c] /\ WriteOf(c).commit = req[c].commit
BY DEF TypeOK, WriteOf, Writes, Comment, Comments, Wanted, Requests

LEMMA LandedNew ==
    ASSUME TypeOK, NEW w \in Writes, Lands(w), Creates(w)
    PROVE  /\ reviews' \in Seq(Reviews)
           /\ DOMAIN reviews' = DOMAIN reviews \cup {Len(reviews) + 1}
           /\ Len(reviews) + 1 \notin DOMAIN reviews
           /\ \A r \in DOMAIN reviews : reviews'[r] = reviews[r]
           /\ reviews'[Len(reviews) + 1] = NewReview(w)
           /\ gapped' = gapped
<1>1. reviews' = Append(reviews, NewReview(w)) /\ gapped' = gapped
  BY DEF Lands, Applied, Creates
<1>2. NewReview(w) \in Reviews
  BY DEF NewReview, Reviews, Writes, Wanted, TypeOK
<1>3. reviews \in Seq(Reviews)
  BY DEF TypeOK
<1> QED
  BY <1>1, <1>2, <1>3

(* Writing one review leaves the others and the length alone.              *)
LEMMA OneRewritten ==
    ASSUME NEW rs \in Seq(Reviews), NEW i \in DOMAIN rs, NEW row \in Reviews
    PROVE  LET new == [rs EXCEPT ![i] = row]
           IN  /\ new \in Seq(Reviews) /\ DOMAIN new = DOMAIN rs
               /\ new[i] = row
               /\ \A r \in DOMAIN rs : r # i => new[r] = rs[r]
OBVIOUS

LEMMA LandedOld ==
    ASSUME TypeOK, NEW w \in Writes, Lands(w), ~Creates(w)
    PROVE  /\ reviews' \in Seq(Reviews) /\ DOMAIN reviews' = DOMAIN reviews
           /\ w.review \in Pending
           /\ \A r \in DOMAIN reviews :
                /\ reviews'[r].commit = reviews[r].commit
                /\ reviews'[r].maker = reviews[r].maker
                /\ r # w.review => reviews'[r] = reviews[r]
           /\ reviews'[w.review].comments =
                IF w.kind = "attach" THEN reviews[w.review].comments \cup w.comments
                                     ELSE reviews[w.review].comments
           /\ w.kind = "attach" => reviews'[w.review].status = "pending"
           /\ w.kind = "submit" => reviews'[w.review].status = "submitted"
           /\ w.kind = "delete" => /\ reviews'[w.review].status = "deleted"
                                   /\ reviews'[w.review].remover = {w.by}
<1>1. reviews \in Seq(Reviews) /\ w.review \in Pending
  BY DEF TypeOK, Lands, Accepts, Creates
<1>2. w.review \in DOMAIN reviews /\ reviews[w.review] \in Reviews
  BY <1>1 DEF Pending
<1>3. w.kind \in {"attach", "submit", "delete"} /\ w.by \in Callers
      /\ w.comments \in SUBSET Comments
  BY DEF Writes, Creates
<1>4. CASE w.kind = "attach"
  <2> DEFINE fuller == [reviews[w.review] EXCEPT !.comments = @ \cup w.comments]
  <2>1. reviews' = [reviews EXCEPT ![w.review] = fuller]
    BY <1>4 DEF Lands, Applied
  <2>2. /\ fuller \in Reviews
        /\ fuller.commit = reviews[w.review].commit
        /\ fuller.maker = reviews[w.review].maker
        /\ fuller.comments = reviews[w.review].comments \cup w.comments
        /\ fuller.status = reviews[w.review].status
    BY <1>2, <1>3 DEF Reviews
  <2>3. reviews[w.review].status = "pending"
    BY <1>1 DEF Pending
  <2> HIDE DEF fuller
  <2> QED
    BY <1>1, <1>2, <1>4, <2>1, <2>2, <2>3, OneRewritten
<1>5. CASE w.kind = "submit"
  <2> DEFINE sent == [reviews[w.review] EXCEPT !.status = "submitted"]
  <2>1. reviews' = [reviews EXCEPT ![w.review] = sent]
    BY <1>5 DEF Lands, Applied
  <2>2. /\ sent \in Reviews
        /\ sent.commit = reviews[w.review].commit
        /\ sent.maker = reviews[w.review].maker
        /\ sent.comments = reviews[w.review].comments
        /\ sent.status = "submitted"
    BY <1>2 DEF Reviews
  <2> HIDE DEF sent
  <2> QED
    BY <1>1, <1>2, <1>5, <2>1, <2>2, OneRewritten
<1>6. CASE w.kind = "delete"
  <2> DEFINE gone == [reviews[w.review] EXCEPT !.status = "deleted",
                                               !.remover = {w.by}]
  <2>1. reviews' = [reviews EXCEPT ![w.review].status = "deleted",
                                   ![w.review].remover = {w.by}]
    BY <1>6 DEF Lands, Applied
  <2>2. /\ gone \in Reviews
        /\ gone.commit = reviews[w.review].commit
        /\ gone.maker = reviews[w.review].maker
        /\ gone.comments = reviews[w.review].comments
        /\ gone.status = "deleted" /\ gone.remover = {w.by}
    BY <1>2, <1>3 DEF Reviews
  <2>3. reviews' = [reviews EXCEPT ![w.review] = gone]
    BY <1>1, <1>2, <2>1
  <2> HIDE DEF gone
  <2> QED
    BY <1>1, <1>2, <1>6, <2>2, <2>3, OneRewritten
<1> QED
  BY <1>3, <1>4, <1>5, <1>6

(* A comment that lands in a condemned draft is remembered.                *)
LEMMA LandedGap ==
    ASSUME TypeOK, NEW w \in Writes, Lands(w)
    PROVE  /\ gapped \subseteq gapped' /\ gapped' \subseteq Comments
           /\ w.kind = "attach" /\ w.review \in Condemned =>
                w.comments \subseteq gapped'
BY DEF Lands, Writes, TypeOK

(* A harmless write that lands disturbs neither the invariants of the      *)
(* server, nor other abandoned writes, nor callers that do not move.       *)
LEMMA LandKeeps ==
    ASSUME DraftInv, NEW w \in Writes, Harmless(w), Lands(w)
    PROVE  /\ OnCommit' /\ CleanupIsCareful'
           /\ \A v \in late : Harmless(v)'
           /\ \A d \in Callers :
                /\ pc'[d] = pc[d] /\ draft'[d] = draft[d]
                /\ created'[d] = created[d] /\ req'[d] = req[d]
                => Aimed(d)'
<1> USE DEF DraftInv
<1>0. /\ gapped \subseteq gapped'
      /\ \A d \in Callers : pc[d] = "delete" => draft[d] \in Condemned
      /\ \A v \in late : v.kind = "delete" => v.review \in Condemned
  BY LandedGap DEF Condemned
<1>1. CASE Creates(w)
  <2>1. /\ DOMAIN reviews' = DOMAIN reviews \cup {Len(reviews) + 1}
        /\ \A r \in DOMAIN reviews : reviews'[r] = reviews[r]
        /\ reviews'[Len(reviews) + 1] = NewReview(w)
        /\ gapped' = gapped
    BY <1>1, LandedNew
  <2>2. OnCommit'
    <3>1. \A x \in NewReview(w).comments : x.asked \in {NoCommit, NewReview(w).commit}
      BY <1>1 DEF Harmless, NewReview, Creates
    <3> QED
      BY <2>1, <3>1 DEF OnCommit
  <2>3. CleanupIsCareful'
    BY <2>1 DEF CleanupIsCareful, NewReview
  <2>4. \A v \in late : Harmless(v)'
    BY <2>1 DEF Harmless
  <2>5. ASSUME NEW d \in Callers, pc'[d] = pc[d], draft'[d] = draft[d],
               created'[d] = created[d], req'[d] = req[d]
        PROVE  Aimed(d)'
    BY <2>1, <2>5 DEF Aimed, Holds
  <2> QED
    BY <2>2, <2>3, <2>4, <2>5
<1>2. CASE ~Creates(w)
  <2>1. /\ DOMAIN reviews' = DOMAIN reviews /\ w.review \in DOMAIN reviews
        /\ reviews[w.review].status = "pending"
        /\ \A r \in DOMAIN reviews :
             /\ reviews'[r].commit = reviews[r].commit
             /\ reviews'[r].maker = reviews[r].maker
             /\ r # w.review => reviews'[r] = reviews[r]
        /\ reviews'[w.review].comments =
             IF w.kind = "attach" THEN reviews[w.review].comments \cup w.comments
                                  ELSE reviews[w.review].comments
        /\ w.kind = "attach" => reviews'[w.review].status = "pending"
        /\ w.kind = "submit" => reviews'[w.review].status = "submitted"
        /\ w.kind = "delete" => /\ reviews'[w.review].status = "deleted"
                                /\ reviews'[w.review].remover = {w.by}
    BY <1>2, LandedOld DEF Pending
  <2>2. w.kind \in {"attach", "submit", "delete"}
    BY <1>2 DEF Creates, Writes
  <2>3. \A r \in Condemned \cap DOMAIN reviews :
          reviews[r].comments \subseteq gapped => reviews'[r].comments \subseteq gapped'
    BY <1>0, <2>1, LandedGap
  <2>4. OnCommit'
    BY <2>1, <2>2 DEF OnCommit, Harmless
  <2>5. CleanupIsCareful'
    <3>1. w.kind = "delete" => /\ reviews[w.review].maker = w.by
                               /\ reviews[w.review].comments \subseteq gapped
      BY DEF Harmless
    <3> QED
      BY <1>0, <2>1, <2>2, <3>1 DEF CleanupIsCareful
  <2>6. \A v \in late : Harmless(v)'
    BY <1>0, <2>1, <2>3 DEF Harmless
  <2>7. ASSUME NEW d \in Callers, pc'[d] = pc[d], draft'[d] = draft[d],
               created'[d] = created[d], req'[d] = req[d]
        PROVE  Aimed(d)'
    BY <1>0, <2>1, <2>3, <2>7 DEF Aimed, Holds
  <2> QED
    BY <2>4, <2>5, <2>6, <2>7
<1> QED
  BY <1>1, <1>2

(* Likewise a step that leaves the reviews alone.                          *)
LEMMA QuietKeeps ==
    ASSUME DraftInv, UNCHANGED <<reviews, gapped>>
    PROVE  /\ OnCommit' /\ CleanupIsCareful'
           /\ \A v \in late : Harmless(v)'
           /\ \A d \in Callers :
                /\ pc'[d] = pc[d] /\ draft'[d] = draft[d]
                /\ created'[d] = created[d] /\ req'[d] = req[d]
                => Aimed(d)'
BY DEF DraftInv, OnCommit, CleanupIsCareful, Harmless, Aimed, Holds

(* The makers of the empty drafts, when one caller moves.                  *)
Tends(c) == created[c] /\ pc[c] \in {"attach", "verify", "delete"}

LEMMA OrphanKeeps ==
    ASSUME DraftInv, NEW c \in Callers, excused \subseteq excused',
           \A d \in Callers \ {c} : pc'[d] = pc[d] /\ draft'[d] = draft[d]
                                    /\ created'[d] = created[d],
           \A r \in Pending' : reviews'[r].comments = {} =>
              \/ r \in Pending /\ reviews[r].comments = {}
              \/ r \in excused'
              \/ draft'[c] = r /\ Tends(c)',
           Tends(c) =>
              \/ draft[c] \notin Pending'
              \/ reviews'[draft[c]].comments # {}
              \/ draft[c] \in excused'
              \/ Tends(c)' /\ draft'[c] = draft[c]
    PROVE  NoOrphan'
BY DEF DraftInv, NoOrphan, Tends

LEMMA DraftInit == Init => DraftInv
BY DEF Init, DraftInv, TypeOK, OnCommit, NoOrphan, CleanupIsCareful, Aimed,
       Holds, Requests, Wanted, Pending, PCs, Over
-----------------------------------------------------------------------------
(* The steps of a caller that leave the reviews alone.                     *)

LEMMA MoveKeeps ==
    ASSUME DraftInv, NEW c \in Callers, UNCHANGED <<reviews, gapped, late>>,
           \A d \in Callers \ {c} : /\ pc'[d] = pc[d] /\ draft'[d] = draft[d]
                                    /\ created'[d] = created[d] /\ req'[d] = req[d],
           TypeOK', Aimed(c)', excused \subseteq excused',
           Tends(c) => \/ draft[c] \notin Pending
                       \/ reviews[draft[c]].comments # {}
                       \/ draft[c] \in excused'
                       \/ Tends(c)' /\ draft'[c] = draft[c]
    PROVE  DraftInv'
<1>1. Pending' = Pending
  BY DEF Pending
<1>2. NoOrphan'
  BY <1>1, OrphanKeeps
<1>3. OnCommit' /\ CleanupIsCareful' /\ \A w \in late' : Harmless(w)'
  BY QuietKeeps
<1>4. \A d \in Callers : Aimed(d)'
  BY QuietKeeps
<1> QED
  BY <1>2, <1>3, <1>4 DEF DraftInv

LEMMA BeginStep == ASSUME DraftInv, NEW c \in Callers, Begin(c) PROVE DraftInv'
<1>1. TypeOK'
  BY DEF DraftInv, Begin, TypeOK, PCs
<1>2. /\ pc'[c] = "find" /\ draft'[c] = 0 /\ ~created'[c] /\ pc[c] \in Over
      /\ \A d \in Callers \ {c} : /\ pc'[d] = pc[d] /\ draft'[d] = draft[d]
                                  /\ created'[d] = created[d] /\ req'[d] = req[d]
  BY DEF DraftInv, Begin, TypeOK
<1>3. Aimed(c)'
  BY <1>2 DEF Aimed, Holds
<1> QED
  BY <1>1, <1>2, <1>3, MoveKeeps DEF Begin, Tends, Over

LEMMA FindStep == ASSUME DraftInv, NEW c \in Callers, Find(c) PROVE DraftInv'
<1>1. PICK r \in IF Pending = {} THEN {0} ELSE Pending :
        /\ draft' = [draft EXCEPT ![c] = r]
        /\ pc' = [pc EXCEPT ![c] = Forward(c, r)]
  BY DEF Find
<1>2. /\ r \in Nat /\ (r # 0 => r \in DOMAIN reviews)
      /\ Forward(c, r) \in PCs /\ req[c] \in Requests
  BY DEF Pending, DraftInv, TypeOK, Forward, PCs, Over
<1>3. TypeOK'
  BY <1>1, <1>2 DEF DraftInv, Find, TypeOK, locals
<1>4. /\ pc'[c] = Forward(c, r) /\ draft'[c] = r /\ ~created[c] /\ pc[c] = "find"
      /\ UNCHANGED <<created, req, reviews, gapped, late>>
      /\ \A d \in Callers \ {c} : pc'[d] = pc[d] /\ draft'[d] = draft[d]
  BY <1>1 DEF DraftInv, Find, TypeOK, Aimed, locals
<1>5. req[c].kind \in {"thread", "reply", "submit"}
  BY <1>2 DEF Requests
<1>6. /\ Forward(c, r) \in {"anchor", "raised", "submit", "create", "attach"}
      /\ Forward(c, r) = "anchor" => req[c].kind = "reply"
      /\ Forward(c, r) = "create" => req[c].kind # "submit"
      /\ Forward(c, r) = "attach" => r # 0
      /\ Forward(c, r) \in {"submit", "attach"} /\ r # 0 => ~Mixes(c, r)
  BY <1>5 DEF Forward
<1>7. Aimed(c)'
  BY <1>2, <1>4, <1>6 DEF Aimed, Holds, Mixes
<1> QED
  BY <1>3, <1>4, <1>7, MoveKeeps DEF Find, Tends

LEMMA AnchorStep == ASSUME DraftInv, NEW c \in Callers, Anchor(c) PROVE DraftInv'
<1>1. TypeOK'
  BY DEF DraftInv, Anchor, TypeOK, PCs, locals
<1>2. /\ pc'[c] = IF draft[c] = 0 THEN "create" ELSE "attach"
      /\ pc[c] = "anchor" /\ ~created[c] /\ req[c].kind = "reply"
      /\ req[c] \in Requests
      /\ UNCHANGED <<draft, created, req, reviews, gapped, late, excused>>
      /\ \A d \in Callers \ {c} : pc'[d] = pc[d]
  BY DEF DraftInv, Anchor, TypeOK, Aimed, locals
<1>3. Aimed(c)'
  BY <1>2 DEF DraftInv, Aimed, Holds, Requests
<1> QED
  BY <1>1, <1>2, <1>3, MoveKeeps DEF Tends

LEMMA ReadFailsStep ==
    ASSUME DraftInv, NEW c \in Callers, ReadFails(c) PROVE DraftInv'
<1>1. TypeOK'
  BY DEF DraftInv, ReadFails, TypeOK, PCs, Over, locals
<1>2. /\ pc'[c] = "raised" /\ pc[c] \in {"find", "anchor", "confirm"}
      /\ UNCHANGED <<draft, created, req, reviews, gapped, late, excused>>
      /\ \A d \in Callers \ {c} : pc'[d] = pc[d]
  BY DEF DraftInv, ReadFails, TypeOK, locals
<1>3. Aimed(c)'
  BY <1>2 DEF DraftInv, Aimed, Holds
<1> QED
  BY <1>1, <1>2, <1>3, MoveKeeps DEF Tends

LEMMA ConfirmStep == ASSUME DraftInv, NEW c \in Callers, Confirm(c) PROVE DraftInv'
<1>1. TypeOK'
  <2>1. Comment(c) \in Comments
    BY DEF DraftInv, TypeOK, Comment, Comments, Requests, Wanted
  <2> QED
    BY <2>1 DEF DraftInv, Confirm, TypeOK, PCs, Over, locals
<1>2. /\ pc'[c] = "ok" /\ pc[c] = "confirm" /\ req[c].kind = "thread"
      /\ UNCHANGED <<draft, created, req, reviews, gapped, late, excused>>
      /\ \A d \in Callers \ {c} : pc'[d] = pc[d]
  BY DEF DraftInv, Confirm, TypeOK, Aimed, locals
<1>3. Aimed(c)'
  BY <1>2 DEF DraftInv, Aimed, Holds
<1> QED
  BY <1>1, <1>2, <1>3, MoveKeeps DEF Tends

LEMMA VerifyStep == ASSUME DraftInv, NEW c \in Callers, Verify(c) PROVE DraftInv'
<1>1. TypeOK'
  BY DEF DraftInv, Verify, TypeOK, PCs, Over, locals
<1>2. /\ pc'[c] = IF StillEmpty(draft[c]) THEN "delete" ELSE "raised"
      /\ pc[c] = "verify" /\ created[c]
      /\ UNCHANGED <<draft, created, req, reviews, gapped, late, excused>>
      /\ \A d \in Callers \ {c} : pc'[d] = pc[d]
  BY DEF DraftInv, Verify, TypeOK, Aimed, locals
<1>3. Aimed(c)'
  BY <1>2 DEF DraftInv, Aimed, Holds, StillEmpty
<1> QED
  BY <1>1, <1>2, <1>3, MoveKeeps DEF Tends, StillEmpty

LEMMA VerifyFailsStep ==
    ASSUME DraftInv, NEW c \in Callers, VerifyFails(c) PROVE DraftInv'
<1>1. TypeOK'
  BY DEF DraftInv, VerifyFails, TypeOK, PCs, Over, locals
<1>2. /\ pc'[c] = "raised" /\ pc[c] = "verify" /\ draft[c] \in excused'
      /\ excused \subseteq excused'
      /\ UNCHANGED <<draft, created, req, reviews, gapped, late>>
      /\ \A d \in Callers \ {c} : pc'[d] = pc[d]
  BY DEF DraftInv, VerifyFails, TypeOK, locals
<1>3. Aimed(c)'
  BY <1>2 DEF DraftInv, Aimed, Holds
<1> QED
  BY <1>1, <1>2, <1>3, MoveKeeps DEF Tends
-----------------------------------------------------------------------------
(* The steps that write.                                                   *)

(* What a caller is about to write is harmless.                            *)
LEMMA OwnWriteHarmless ==
    ASSUME DraftInv, NEW c \in Callers,
           pc[c] \in {"create", "attach", "submit", "delete"}
    PROVE  Harmless(WriteOf(c))
<1>1. Aimed(c) /\ TypeOK
  BY DEF DraftInv
<1>2. CASE pc[c] = "create"
  BY <1>1, <1>2 DEF Aimed, WriteOf, Harmless, Comment
<1>3. CASE pc[c] = "attach"
  BY <1>1, <1>3 DEF Aimed, Holds, WriteOf, Harmless, Comment
<1>4. CASE pc[c] = "submit"
  BY <1>1, <1>4 DEF Aimed, WriteOf, Harmless
<1>5. CASE pc[c] = "delete"
  BY <1>1, <1>5 DEF Aimed, WriteOf, Harmless
<1> QED
  BY <1>2, <1>3, <1>4, <1>5

(* The type of the server's part after a write that lands.                 *)
LEMMA LandedTypes ==
    ASSUME TypeOK, NEW w \in Writes, Lands(w)
    PROVE  reviews' \in Seq(Reviews) /\ gapped' \subseteq Comments
BY LandedNew, LandedOld, LandedGap

(* The empty drafts after a write that lands.                              *)
LEMMA LandedEmpty ==
    ASSUME TypeOK, NEW w \in Writes, Lands(w), NEW r \in Pending',
           reviews'[r].comments = {}
    PROVE  \/ r \in Pending /\ reviews[r].comments = {}
           \/ /\ w.kind = "create" /\ w.comments = {}
              /\ r = Len(reviews) + 1
<1>1. CASE Creates(w)
  <2>1. /\ r \in DOMAIN reviews \cup {Len(reviews) + 1}
        /\ r \in DOMAIN reviews => reviews'[r] = reviews[r]
        /\ reviews'[Len(reviews) + 1] = NewReview(w)
        /\ reviews'[r].status = "pending"
    BY <1>1, LandedNew DEF Pending
  <2>2. /\ NewReview(w).comments = w.comments
        /\ NewReview(w).status = "pending" => w.kind = "create"
    BY DEF NewReview
  <2> QED
    BY <2>1, <2>2 DEF Pending
<1>2. CASE ~Creates(w)
  BY <1>2, LandedOld DEF Pending, Creates, Writes
<1> QED
  BY <1>1, <1>2

LEMMA LandsLateStep ==
    ASSUME DraftInv, NEW w \in late, LandsLate(w) PROVE DraftInv'
<1> USE DEF DraftInv
<1>1. /\ w \in Writes /\ late' \subseteq late
      /\ UNCHANGED <<head, pc, draft, created, locals, returned>>
  BY DEF LandsLate, TypeOK
<1>2. CASE Lands(w) /\ excused' = excused \cup Abandoned(w)
  <2>1. TypeOK'
    <3>1. Abandoned(w) \subseteq Nat
      BY <1>1 DEF Abandoned, Writes, TypeOK
    <3> QED
      BY <1>1, <1>2, <3>1, LandedTypes DEF TypeOK, locals
  <2>2. /\ OnCommit' /\ CleanupIsCareful' /\ \A d \in Callers : Aimed(d)'
        /\ \A v \in late' : Harmless(v)'
    BY <1>1, <1>2, LandKeeps DEF locals
  <2>3. NoOrphan'
    <3>1. ASSUME NEW r \in Pending', reviews'[r].comments = {}
          PROVE  \/ r \in excused'
                 \/ \E d \in Callers : draft[d] = r /\ Tends(d)
      BY <1>1, <1>2, <3>1, LandedEmpty DEF NoOrphan, Tends, Abandoned
    <3> QED
      BY <1>1, <3>1 DEF NoOrphan, Tends
  <2> QED
    BY <2>1, <2>2, <2>3
<1>3. CASE UNCHANGED <<reviews, gapped, excused>>
  <2>1. TypeOK'
    BY <1>1, <1>3 DEF TypeOK, locals
  <2>2. /\ OnCommit' /\ CleanupIsCareful' /\ \A d \in Callers : Aimed(d)'
        /\ \A v \in late' : Harmless(v)'
    BY <1>1, <1>3, QuietKeeps DEF locals
  <2>3. NoOrphan'
    BY <1>1, <1>3 DEF NoOrphan, Pending
  <2> QED
    BY <2>1, <2>2, <2>3
<1> QED
  BY <1>2, <1>3 DEF LandsLate

LEMMA WriteStep == ASSUME DraftInv, NEW c \in Callers, Write(c) PROVE DraftInv'
<1> DEFINE w == WriteOf(c)
<1> USE DEF DraftInv
<1>0. TypeOK
  OBVIOUS
<1>1. /\ pc[c] \in {"create", "attach", "submit", "delete"}
      /\ Lands(w)
      /\ pc' = [pc EXCEPT ![c] = AfterWrite(c)]
      /\ draft' = [draft EXCEPT ![c] = IF Creates(w) THEN Len(reviews) + 1 ELSE @]
      /\ created' = [created EXCEPT ![c] = @ \/ w.kind = "create"]
      /\ returned' = IF AfterWrite(c) = "ok" THEN returned \cup w.comments
                                              ELSE returned
      /\ UNCHANGED <<head, late, locals, excused>>
  BY DEF Write, Creates
<1>2. w \in Writes /\ Harmless(w) /\ w.by = c /\ w.review = draft[c]
      /\ w.commit = req[c].commit
  BY <1>1, WriteTyped, OwnWriteHarmless
<1>3. /\ pc'[c] = AfterWrite(c)
      /\ draft'[c] = IF Creates(w) THEN Len(reviews) + 1 ELSE draft[c]
      /\ created'[c] = (created[c] \/ w.kind = "create")
      /\ req' = req
      /\ \A d \in Callers \ {c} : /\ pc'[d] = pc[d] /\ draft'[d] = draft[d]
                                  /\ created'[d] = created[d]
  BY <1>1 DEF TypeOK, locals
<1>4. AfterWrite(c) \in {"confirm", "attach", "raised", "ok"}
  BY DEF AfterWrite
<1>5. w.kind = IF pc[c] = "submit" /\ draft[c] = 0 THEN "publish" ELSE pc[c]
  BY DEF WriteOf
<1> HIDE DEF w
<1>6. TypeOK'
  <2>1. returned' \subseteq Comments
    BY <1>1, <1>2 DEF TypeOK, Writes
  <2>2. draft' \in [Callers -> Nat] /\ created' \in [Callers -> BOOLEAN]
        /\ pc' \in [Callers -> PCs]
    BY <1>1, <1>4 DEF TypeOK, PCs, Over
  <2> QED
    BY <1>1, <1>2, <2>1, <2>2, LandedTypes DEF TypeOK, locals
<1>7. /\ OnCommit' /\ CleanupIsCareful' /\ \A v \in late' : Harmless(v)'
      /\ \A d \in Callers \ {c} : Aimed(d)'
  BY <1>1, <1>2, <1>3, LandKeeps
<1>8. Aimed(c)'
  <2>1. CASE Creates(w)
    <3>1. /\ Len(reviews) + 1 \in DOMAIN reviews' /\ Len(reviews) + 1 # 0
          /\ reviews'[Len(reviews) + 1].maker = c
          /\ req[c].commit \in {NoCommit, reviews'[Len(reviews) + 1].commit}
      <4>1. /\ Len(reviews) + 1 \in DOMAIN reviews'
            /\ reviews'[Len(reviews) + 1] = NewReview(w)
        BY <1>1, <1>2, <2>1, LandedNew
      <4>2. Len(reviews) + 1 # 0
        BY DEF TypeOK
      <4>3. /\ NewReview(w).maker = c
            /\ req[c].commit \in {NoCommit, NewReview(w).commit}
        BY <1>2 DEF NewReview
      <4> QED
        BY <4>1, <4>2, <4>3
    <3>2. /\ \/ pc[c] = "create"
             \/ pc[c] = "submit" /\ w.kind = "publish"
          /\ pc[c] = "create" => w.kind = "create"
      BY <1>1, <1>5, <2>1 DEF Creates
    <3>3. /\ req[c].kind # "submit" /\ pc[c] = "create"
             => AfterWrite(c) \in {"confirm", "attach"}
          /\ pc[c] = "create" /\ AfterWrite(c) = "confirm" => req[c].kind = "thread"
          /\ pc[c] = "create" /\ AfterWrite(c) = "attach" => req[c].kind # "thread"
          /\ pc[c] = "submit" => AfterWrite(c) = "ok"
      BY DEF AfterWrite
    <3>4. req[c].kind \in {"thread", "reply", "submit"}
      BY DEF TypeOK, Requests
    <3> QED
      BY <1>3, <2>1, <3>1, <3>2, <3>3, <3>4 DEF Aimed, Holds, Creates
  <2>2. CASE ~Creates(w)
    <3>1. /\ DOMAIN reviews' = DOMAIN reviews /\ draft[c] \in Pending
          /\ \A r \in DOMAIN reviews : /\ reviews'[r].commit = reviews[r].commit
                                       /\ reviews'[r].maker = reviews[r].maker
      BY <1>1, <1>2, <2>2, LandedOld
    <3>2. pc[c] # "create" /\ w.kind = pc[c]
      BY <1>1, <1>5, <2>2 DEF Creates
    <3>3. AfterWrite(c) = IF pc[c] = "delete" THEN "raised" ELSE "ok"
      BY <1>1, <3>2 DEF AfterWrite
    <3>4. /\ draft[c] \in DOMAIN reviews /\ draft'[c] = draft[c]
          /\ pc'[c] = IF pc[c] = "delete" THEN "raised" ELSE "ok"
          /\ pc[c] \in {"attach", "submit", "delete"}
          /\ req' = req
      BY <1>1, <1>3, <2>2, <3>1, <3>2, <3>3 DEF Pending, Creates
    <3>5. created'[c] => created[c]
      BY <1>1, <1>3, <3>2
    <3>6. Aimed(c)
      OBVIOUS
    <3>7. /\ draft'[c] # 0 /\ draft'[c] \in DOMAIN reviews'
          /\ reviews'[draft'[c]].maker = reviews[draft[c]].maker
          /\ reviews'[draft'[c]].commit = reviews[draft[c]].commit
          /\ pc'[c] \in {"raised", "ok"}
          /\ pc'[c] = "ok" => pc[c] \in {"attach", "submit"}
      <4>1. draft[c] # 0
        BY <1>0, <3>4 DEF TypeOK
      <4> QED
        BY <3>1, <3>4, <4>1
    <3>8. Holds(c)' => req'[c].commit \in {NoCommit, reviews'[draft'[c]].commit}
      BY <3>4, <3>6, <3>7 DEF Aimed, Holds
    <3>9. created'[c] => reviews'[draft'[c]].maker = c
      BY <3>5, <3>6, <3>7 DEF Aimed
    <3> HIDE DEF DraftInv
    <3> QED
      BY <3>7, <3>8, <3>9 DEF Aimed
  <2> QED
    BY <2>1, <2>2
<1>9. NoOrphan'
  <2>1. ASSUME NEW r \in Pending', reviews'[r].comments = {}
        PROVE  \/ r \in Pending /\ reviews[r].comments = {}
               \/ draft'[c] = r /\ Tends(c)'
    <3>1. CASE r \in Pending /\ reviews[r].comments = {}
      BY <3>1
    <3>2. CASE w.kind = "create" /\ w.comments = {} /\ r = Len(reviews) + 1
      <4>1. pc[c] = "create" /\ AfterWrite(c) = "attach"
        BY <1>5, <1>1, <3>2 DEF AfterWrite, w, WriteOf
      <4> QED
        BY <1>3, <3>2, <4>1 DEF Tends, Creates
    <3> QED
      BY <1>1, <1>2, <2>1, <3>1, <3>2, LandedEmpty
  <2>2. ASSUME Tends(c)
        PROVE  draft[c] \notin Pending' \/ reviews'[draft[c]].comments # {}
    <3>1. pc[c] \in {"attach", "delete"} /\ w.kind = pc[c] /\ ~Creates(w)
      BY <1>1, <1>5, <2>2 DEF Tends, Creates
    <3>2. pc[c] = "attach" => w.comments # {}
      BY DEF w, WriteOf
    <3> QED
      BY <1>1, <1>2, <3>1, <3>2, LandedOld DEF Pending
  <2> QED
    BY <1>1, <1>3, <2>1, <2>2, OrphanKeeps
<1> QED
  BY <1>6, <1>7, <1>8, <1>9

LEMMA WriteFailsStep ==
    ASSUME DraftInv, NEW c \in Callers, WriteFails(c) PROVE DraftInv'
<1> DEFINE w == WriteOf(c)
<1>0. TypeOK /\ Aimed(c)
  BY DEF DraftInv
<1>1. /\ pc[c] \in {"create", "attach", "submit", "delete"}
      /\ \/ Lands(w) /\ late' = late
         \/ UNCHANGED <<reviews, gapped>> /\ late' \subseteq late \cup {w}
      /\ excused' = excused \cup (IF w.kind = "create" /\ reviews' = reviews
                                  THEN {} ELSE Abandoned(w))
      /\ pc' = [pc EXCEPT ![c] = IF Cleans(c) THEN "verify" ELSE "raised"]
      /\ returned' = returned
      /\ UNCHANGED <<head, draft, created, locals>>
  BY DEF WriteFails, Succeeded, Answers
<1>2. w \in Writes /\ Harmless(w) /\ w.review = draft[c]
  BY <1>0, <1>1, WriteTyped, OwnWriteHarmless
<1>3. w.kind = IF pc[c] = "submit" /\ draft[c] = 0 THEN "publish" ELSE pc[c]
  BY DEF WriteOf
<1>4. w.kind = "create" /\ w.comments = {} => pc[c] = "create"
  BY <1>1, <1>3
<1> HIDE DEF w
<1>5. /\ pc'[c] = IF Cleans(c) THEN "verify" ELSE "raised"
      /\ UNCHANGED <<draft, created, req>>
      /\ \A d \in Callers \ {c} : pc'[d] = pc[d]
      /\ excused \subseteq excused'
  BY <1>0, <1>1 DEF TypeOK, locals
<1>6. TypeOK'
  <2>1. Abandoned(w) \subseteq Nat
    BY <1>0, <1>2 DEF Abandoned, Writes, TypeOK
  <2>2. reviews' \in Seq(Reviews) /\ gapped' \subseteq Comments
    BY <1>0, <1>1, <1>2, LandedTypes DEF TypeOK
  <2>3. pc' \in [Callers -> PCs] /\ late' \subseteq Writes
    BY <1>0, <1>1, <1>2 DEF TypeOK, PCs, Over
  <2> QED
    BY <1>0, <1>1, <2>1, <2>2, <2>3 DEF TypeOK, locals
<1>7. /\ OnCommit' /\ CleanupIsCareful' /\ \A v \in late : Harmless(v)'
      /\ \A d \in Callers \ {c} : Aimed(d)'
  BY <1>1, <1>2, <1>5, LandKeeps, QuietKeeps
<1>8. \A v \in late' : Harmless(v)'
  <2>1. CASE Lands(w) /\ late' = late
    BY <1>7, <2>1
  <2>2. CASE UNCHANGED <<reviews, gapped>> /\ late' \subseteq late \cup {w}
    <3>1. ASSUME NEW v, v.kind = w.kind, v.by = w.by, v.review = w.review,
                 v.commit = w.commit, v.comments = w.comments
          PROVE  Harmless(v)'
      BY <1>2, <2>2, <3>1 DEF Harmless
    <3>2. \A v \in late' : v \in late \/ v = w
      BY <2>2
    <3> QED
      BY <1>7, <3>1, <3>2
  <2> QED
    BY <1>1, <2>1, <2>2
<1>9. Aimed(c)'
  <2>1. /\ draft[c] # 0 => draft[c] \in DOMAIN reviews'
        /\ draft[c] \in DOMAIN reviews => reviews'[draft[c]].maker = reviews[draft[c]].maker
    <3>1. CASE UNCHANGED <<reviews, gapped>>
      BY <1>0, <3>1 DEF Aimed
    <3>2. CASE Lands(w) /\ Creates(w)
      BY <1>0, <1>2, <3>2, LandedNew DEF Aimed
    <3>3. CASE Lands(w) /\ ~Creates(w)
      BY <1>0, <1>2, <3>3, LandedOld DEF Aimed
    <3> QED
      BY <1>1, <3>1, <3>2, <3>3
  <2>2. Cleans(c) => created[c]
    BY DEF Cleans
  <2> QED
    BY <1>0, <1>5, <2>1, <2>2 DEF Aimed, Holds
<1>10. NoOrphan'
  <2>1. ASSUME NEW r \in Pending', reviews'[r].comments = {}
        PROVE  \/ r \in Pending /\ reviews[r].comments = {}
               \/ r \in excused'
    <3>1. CASE UNCHANGED <<reviews, gapped>>
      BY <2>1, <3>1 DEF Pending
    <3>2. CASE Lands(w) /\ ~(r \in Pending /\ reviews[r].comments = {})
      <4>1. w.kind = "create" /\ w.comments = {} /\ r = Len(reviews) + 1
        BY <1>0, <1>2, <2>1, <3>2, LandedEmpty
      <4>2. reviews' # reviews
        BY <1>0, <1>2, <3>2, <4>1, LandedNew DEF Creates
      <4> QED
        BY <1>1, <4>1, <4>2 DEF Abandoned
    <3> QED
      BY <1>1, <3>1, <3>2
  <2>2. ASSUME Tends(c)
        PROVE  \/ draft[c] \in excused'
               \/ Tends(c)' /\ draft'[c] = draft[c]
    <3>1. CASE pc[c] = "attach"
      <4>1. Cleans(c)
        BY <1>0, <2>2, <3>1 DEF Aimed, Cleans, Tends
      <4> QED
        BY <1>5, <2>2, <4>1 DEF Tends
    <3>2. CASE pc[c] = "delete"
      BY <1>1, <1>2, <1>3, <3>2 DEF Abandoned
    <3> QED
      BY <1>1, <2>2, <3>1, <3>2 DEF Tends
  <2> QED
    BY <1>5, <2>1, <2>2, OrphanKeeps
<1> QED
  BY <1>6, <1>7, <1>8, <1>9, <1>10 DEF DraftInv

LEMMA DraftStep == DraftInv /\ [Next]_vars => DraftInv'
<1> SUFFICES ASSUME DraftInv, [Next]_vars PROVE DraftInv'
  OBVIOUS
<1>1. CASE Push
  <2>1. TypeOK'
    BY <1>1 DEF DraftInv, Push, TypeOK, locals
  <2>2. /\ OnCommit' /\ CleanupIsCareful' /\ \A c \in Callers : Aimed(c)'
        /\ \A w \in late' : Harmless(w)'
    BY <1>1, QuietKeeps DEF Push, locals
  <2>3. NoOrphan'
    BY <1>1 DEF DraftInv, Push, NoOrphan, Pending
  <2> QED
    BY <2>1, <2>2, <2>3 DEF DraftInv
<1>2. CASE UNCHANGED vars
  <2>1. TypeOK' /\ NoOrphan'
    BY <1>2 DEF DraftInv, vars, TypeOK, locals, NoOrphan, Pending
  <2>2. /\ OnCommit' /\ CleanupIsCareful' /\ \A c \in Callers : Aimed(c)'
        /\ \A w \in late' : Harmless(w)'
    BY <1>2, QuietKeeps DEF vars, locals
  <2> QED
    BY <2>1, <2>2 DEF DraftInv
<1>3. CASE \E w \in late : LandsLate(w)
  BY <1>3, LandsLateStep
<1>4. ASSUME NEW c \in Callers,
             \/ Begin(c) \/ Find(c) \/ Anchor(c) \/ ReadFails(c)
             \/ Write(c) \/ WriteFails(c) \/ Confirm(c)
             \/ Verify(c) \/ VerifyFails(c)
      PROVE  DraftInv'
  BY <1>4, BeginStep, FindStep, AnchorStep, ReadFailsStep, WriteStep,
     WriteFailsStep, ConfirmStep, VerifyStep, VerifyFailsStep
<1> QED
  BY <1>1, <1>2, <1>3, <1>4 DEF Next
-----------------------------------------------------------------------------
(* The inductive invariant of the flow holds of every reachable state.     *)
THEOREM DraftInvariant == Spec => []DraftInv
BY DraftInit, DraftStep, PTL DEF Spec

(* The types of the flow's state, with any number of reviews and calls.    *)
THEOREM DraftTypes == Spec => []TypeOK
<1>1. DraftInv => TypeOK
  BY DEF DraftInv
<1> QED
  BY <1>1, DraftInvariant, PTL

(* A comment stands on the commit it was made for, and a submitted review  *)
(* is of the commit it was submitted for, however stale the draft a call   *)
(* has found.                                                              *)
THEOREM CommitsAreKept == Spec => []CommitsKept
<1>1. DraftInv => CommitsKept
  <2> SUFFICES ASSUME DraftInv PROVE CommitsKept
    OBVIOUS
  <2>1. OnCommit /\ \A c \in Callers : Aimed(c)
    BY DEF DraftInv
  <2>2. ASSUME NEW c \in Callers, pc[c] = "ok", req[c].kind = "submit",
               req[c].commit # NoCommit
        PROVE  reviews[draft[c]].commit = req[c].commit
    BY <2>1, <2>2 DEF Aimed, Holds
  <2> QED
    BY <2>1, <2>2 DEF CommitsKept, OnCommit
<1> QED
  BY <1>1, DraftInvariant, PTL

(* An empty draft is on its way to be filled or deleted, or a create       *)
(* without an answer or a failed cleanup accounts for it.                  *)
THEOREM NoOrphansAreLeft == Spec => []NoOrphan
<1>1. DraftInv => NoOrphan
  BY DEF DraftInv
<1> QED
  BY <1>1, DraftInvariant, PTL

(* Cleanup deletes only drafts of its own call, and comments only if they  *)
(* landed after it had found the draft empty.                              *)
THEOREM CleanupsAreCareful == Spec => []CleanupIsCareful
<1>1. DraftInv => CleanupIsCareful
  BY DEF DraftInv
<1> QED
  BY <1>1, DraftInvariant, PTL

-----------------------------------------------------------------------------
(* What a submission leaves in drafts.                                     *)

Posted(x) == \E r \in DOMAIN reviews : x \in reviews[r].comments

OneDraft == \A r, s \in Pending : r = s

(* Comments are posted before their call returns, GitHub keeps one draft,  *)
(* and only a call that is not a submission attaches.                      *)
PublishInv ==
    /\ OneDraft
    /\ \A x \in returned : Posted(x)
    /\ \A c \in Callers : /\ known[c] \subseteq returned
                          /\ pc[c] = "confirm" => Posted(Comment(c))
                          /\ pc[c] = "attach" => req[c].kind # "submit"
    /\ SubmitPublishes

(* No review loses a comment, and none becomes a draft again.              *)
Grows == \A r \in DOMAIN reviews :
            /\ r \in DOMAIN reviews'
            /\ reviews[r].comments \subseteq reviews'[r].comments
            /\ reviews[r].status # "pending" => reviews'[r].status # "pending"

LEMMA LandedGrows ==
    ASSUME TypeOK, OneDraft, NEW w \in Writes, Lands(w)
    PROVE  /\ Grows /\ OneDraft'
           /\ w.kind \in {"submit", "publish"} => Pending' = {}
           /\ w.kind \in {"create", "publish", "attach"} => \A x \in w.comments : Posted(x)'
<1>1. Accepts(w)
  BY DEF Lands
<1>2. CASE Creates(w)
  <2> DEFINE n == Len(reviews) + 1
  <2>1. /\ DOMAIN reviews' = DOMAIN reviews \cup {n} /\ n \notin DOMAIN reviews
        /\ \A r \in DOMAIN reviews : reviews'[r] = reviews[r]
        /\ reviews'[n] = NewReview(w)
    BY <1>2, LandedNew
  <2>2. Pending = {}
    BY <1>1, <1>2 DEF Accepts, Creates
  <2>3. /\ reviews'[n].comments = w.comments
        /\ reviews'[n].status = IF w.kind = "create" THEN "pending" ELSE "submitted"
    BY <2>1 DEF NewReview
  <2> HIDE DEF n
  <2>4. Pending' \subseteq {n} /\ (w.kind = "publish" => Pending' = {})
    BY <2>1, <2>2, <2>3 DEF Pending
  <2>5. Grows /\ OneDraft' /\ \A x \in w.comments : Posted(x)'
    BY <2>1, <2>3, <2>4 DEF Grows, OneDraft, Posted
  <2> QED
    BY <1>2, <2>4, <2>5 DEF Creates
<1>3. CASE ~Creates(w)
  <2>1. /\ DOMAIN reviews' = DOMAIN reviews /\ w.review \in Pending
        /\ \A r \in DOMAIN reviews : r # w.review => reviews'[r] = reviews[r]
        /\ reviews'[w.review].comments =
             IF w.kind = "attach" THEN reviews[w.review].comments \cup w.comments
                                  ELSE reviews[w.review].comments
        /\ w.kind = "submit" => reviews'[w.review].status = "submitted"
    BY <1>3, LandedOld
  <2>2. w.review \in DOMAIN reviews /\ reviews[w.review].status = "pending"
        /\ \A r \in Pending : r = w.review
    BY <2>1 DEF Pending, OneDraft
  <2>3. /\ Pending' \subseteq {w.review}
        /\ w.kind = "submit" => Pending' = {}
    BY <2>1, <2>2 DEF Pending
  <2>4. Grows /\ OneDraft'
    BY <2>1, <2>2, <2>3 DEF Grows, OneDraft
  <2>5. w.kind = "attach" => \A x \in w.comments : Posted(x)'
    BY <2>1, <2>2 DEF Posted
  <2> QED
    BY <1>3, <2>3, <2>4, <2>5 DEF Creates
<1> QED
  BY <1>2, <1>3

LEMMA StillGrows ==
    ASSUME OneDraft, reviews' = reviews PROVE Grows /\ OneDraft'
BY DEF Grows, OneDraft, Pending

(* A step that lets reviews grow keeps the invariant, if what it returns   *)
(* is posted and a submission it ends leaves no draft.                     *)
LEMMA PublishKeeps ==
    ASSUME PublishInv, Grows, OneDraft', returned \subseteq returned',
           \A x \in returned' \ returned : Posted(x)',
           \A c \in Callers :
              /\ known'[c] \subseteq returned'
              /\ pc'[c] = "confirm" =>
                   \/ pc[c] = "confirm" /\ Comment(c)' = Comment(c)
                   \/ Posted(Comment(c))'
              /\ pc'[c] = "attach" => req'[c].kind # "submit"
              /\ pc'[c] = "ok" /\ req'[c].kind = "submit" =>
                   \/ pc[c] = "ok" /\ req[c].kind = "submit" /\ known'[c] = known[c]
                   \/ Pending' = {}
    PROVE  PublishInv'
<1>1. ASSUME NEW x, Posted(x) PROVE Posted(x)'
  BY <1>1 DEF Posted, Grows
<1>2. \A x \in returned' : Posted(x)'
  BY <1>1 DEF PublishInv
<1>3. ASSUME NEW c \in Callers, pc'[c] = "confirm" PROVE Posted(Comment(c))'
  BY <1>1, <1>3 DEF PublishInv
<1>4. ASSUME NEW c \in Callers, pc'[c] = "ok", req'[c].kind = "submit", NEW x \in known'[c]
      PROVE  \E r \in DOMAIN reviews' : x \in reviews'[r].comments /\ reviews'[r].status # "pending"
  <2>1. CASE Pending' = {}
    <3>1. Posted(x)'
      BY <1>2, <1>4
    <3> QED
      BY <2>1, <3>1 DEF Posted, Pending
  <2>2. CASE pc[c] = "ok" /\ req[c].kind = "submit" /\ known'[c] = known[c]
    <3>1. PICK r \in DOMAIN reviews : x \in reviews[r].comments /\ reviews[r].status # "pending"
      BY <1>4, <2>2 DEF PublishInv, SubmitPublishes
    <3> QED
      BY <3>1 DEF Grows
  <2> QED
    BY <1>4, <2>1, <2>2
<1> QED
  BY <1>2, <1>3, <1>4 DEF PublishInv, SubmitPublishes

LEMMA PublishInit == Init => PublishInv
BY DEF Init, PublishInv, OneDraft, Pending, SubmitPublishes

(* A step of one caller that writes nothing.                               *)
LEMMA CallerReads ==
    ASSUME DraftInv, PublishInv, NEW c \in Callers, NEW p,
           reviews' = reviews, pc' = [pc EXCEPT ![c] = p],
           UNCHANGED <<locals, returned>>,
           p \notin {"confirm", "ok"}, p = "attach" => req[c].kind # "submit"
    PROVE  PublishInv'
<1>1. /\ pc'[c] = p /\ \A d \in Callers \ {c} : pc'[d] = pc[d]
      /\ req' = req /\ turn' = turn /\ known' = known /\ returned' = returned
  BY DEF DraftInv, TypeOK, locals
<1>2. Grows /\ OneDraft'
  BY StillGrows DEF PublishInv
<1>3. \A d \in Callers : Comment(d)' = Comment(d)
  BY <1>1 DEF Comment
<1> QED
  BY <1>1, <1>2, <1>3, PublishKeeps DEF PublishInv

LEMMA PublishBegin ==
    ASSUME DraftInv, PublishInv, NEW c \in Callers, Begin(c) PROVE PublishInv'
<1>1. /\ reviews' = reviews /\ returned' = returned
      /\ pc'[c] = "find" /\ known'[c] = returned
      /\ \A d \in Callers \ {c} : /\ pc'[d] = pc[d] /\ known'[d] = known[d]
                                  /\ req'[d] = req[d] /\ turn'[d] = turn[d]
  BY DEF DraftInv, TypeOK, Begin
<1>2. Grows /\ OneDraft'
  BY <1>1, StillGrows DEF PublishInv
<1>3. \A d \in Callers \ {c} : Comment(d)' = Comment(d)
  BY <1>1 DEF Comment
<1> QED
  BY <1>1, <1>2, <1>3, PublishKeeps DEF PublishInv

LEMMA PublishFind ==
    ASSUME DraftInv, PublishInv, NEW c \in Callers, Find(c) PROVE PublishInv'
<1>1. PICK r \in (IF Pending = {} THEN {0} ELSE Pending) : pc' = [pc EXCEPT ![c] = Forward(c, r)]
  BY DEF Find
<1>2. /\ Forward(c, r) \notin {"confirm", "ok"}
      /\ Forward(c, r) = "attach" => req[c].kind # "submit"
  BY DEF Forward
<1> QED
  BY <1>1, <1>2, CallerReads DEF Find

LEMMA PublishAnchor ==
    ASSUME DraftInv, PublishInv, NEW c \in Callers, Anchor(c) PROVE PublishInv'
<1>1. req[c].kind = "reply"
  BY DEF Anchor, DraftInv, Aimed
<1> DEFINE p == IF draft[c] = 0 THEN "create" ELSE "attach"
<1>2. pc' = [pc EXCEPT ![c] = p] /\ reviews' = reviews /\ UNCHANGED <<locals, returned>>
  BY DEF Anchor
<1>3. p \notin {"confirm", "ok"} /\ (p = "attach" => req[c].kind # "submit")
  BY <1>1
<1> HIDE DEF p
<1> QED
  BY <1>2, <1>3, CallerReads

LEMMA PublishChecks ==
    ASSUME DraftInv, PublishInv, NEW c \in Callers,
           ReadFails(c) \/ Verify(c) \/ VerifyFails(c)
    PROVE  PublishInv'
BY CallerReads DEF ReadFails, Verify, VerifyFails

(* The comment of a new thread came with its draft.                        *)
LEMMA PublishConfirm ==
    ASSUME DraftInv, PublishInv, NEW c \in Callers, Confirm(c) PROVE PublishInv'
<1>1. /\ pc[c] = "confirm" /\ reviews' = reviews
      /\ pc'[c] = "ok" /\ \A d \in Callers \ {c} : pc'[d] = pc[d]
      /\ req' = req /\ turn' = turn /\ known' = known
      /\ returned' = returned \cup {Comment(c)}
  BY DEF Confirm, DraftInv, TypeOK, locals
<1>2. req[c].kind = "thread"
  BY <1>1 DEF DraftInv, Aimed
<1>3. Grows /\ OneDraft'
  BY <1>1, StillGrows DEF PublishInv
<1>4. \A d \in Callers : Comment(d)' = Comment(d)
  BY <1>1 DEF Comment
<1>5. Posted(Comment(c)) /\ \A x \in returned' \ returned : x = Comment(c)
  BY <1>1 DEF PublishInv
<1>6. \A x \in returned' \ returned : Posted(x)'
  BY <1>1, <1>5 DEF Posted
<1> QED
  BY <1>1, <1>2, <1>3, <1>4, <1>6, PublishKeeps DEF PublishInv

(* A submission empties the one draft there was.                           *)
LEMMA PublishWrite ==
    ASSUME DraftInv, PublishInv, NEW c \in Callers, Write(c) PROVE PublishInv'
<1> DEFINE w == WriteOf(c)
<1>1. /\ pc[c] \in {"create", "attach", "submit", "delete"}
      /\ Lands(w)
      /\ pc' = [pc EXCEPT ![c] = AfterWrite(c)]
      /\ returned' = IF AfterWrite(c) = "ok" THEN returned \cup w.comments
                                              ELSE returned
      /\ UNCHANGED locals
  BY DEF Write
<1>2. /\ pc'[c] = AfterWrite(c) /\ \A d \in Callers \ {c} : pc'[d] = pc[d]
      /\ req' = req /\ turn' = turn /\ known' = known
  BY <1>1 DEF DraftInv, TypeOK, locals
<1>3. /\ w \in Writes
      /\ w.kind = IF pc[c] = "submit" /\ draft[c] = 0 THEN "publish" ELSE pc[c]
      /\ pc[c] = "create" /\ req[c].kind = "thread" => w.comments = {Comment(c)}
      /\ pc[c] \in {"submit", "delete"} => w.comments = {}
  BY <1>1, WriteTyped DEF WriteOf, DraftInv
<1>4. /\ Grows /\ OneDraft'
      /\ w.kind \in {"submit", "publish"} => Pending' = {}
      /\ w.kind \in {"create", "publish", "attach"} => \A x \in w.comments : Posted(x)'
  BY <1>1, <1>3, LandedGrows DEF DraftInv, PublishInv
<1> HIDE DEF w
<1>5. \A d \in Callers : Comment(d)' = Comment(d)
  BY <1>2 DEF Comment
<1>6. \A x \in returned' \ returned : Posted(x)'
  BY <1>1, <1>3, <1>4
<1>7. AfterWrite(c) = "confirm" => Posted(Comment(c))'
  <2> SUFFICES ASSUME AfterWrite(c) = "confirm" PROVE Posted(Comment(c))'
    OBVIOUS
  <2>1. pc[c] = "create" /\ req[c].kind = "thread"
    BY <1>1 DEF AfterWrite
  <2>2. \A x \in {Comment(c)} : Posted(x)'
    BY <1>3, <1>4, <2>1
  <2> QED
    BY <1>5, <2>2 DEF Posted
<1>8. AfterWrite(c) = "attach" => req[c].kind # "submit"
  BY <1>1 DEF AfterWrite, DraftInv, Aimed
<1>9. AfterWrite(c) = "ok" /\ req[c].kind = "submit" => Pending' = {}
  BY <1>1, <1>3, <1>4 DEF AfterWrite, PublishInv
<1>10. /\ returned \subseteq returned'
       /\ \A d \in Callers : known'[d] \subseteq returned'
  BY <1>1, <1>2 DEF PublishInv
<1> QED
  BY <1>2, <1>4, <1>5, <1>6, <1>7, <1>8, <1>9, <1>10, PublishKeeps DEF PublishInv

(* A write without an answer returns nothing, whether it landed or not.    *)
LEMMA PublishWriteFails ==
    ASSUME DraftInv, PublishInv, NEW c \in Callers, WriteFails(c) PROVE PublishInv'
<1>1. /\ pc[c] \in {"create", "attach", "submit", "delete"}
      /\ Lands(WriteOf(c)) \/ reviews' = reviews
      /\ pc' = [pc EXCEPT ![c] = IF Cleans(c) THEN "verify" ELSE "raised"]
      /\ returned' = returned /\ UNCHANGED locals
  BY DEF WriteFails, Succeeded, Answers
<1>2. /\ pc'[c] \in {"verify", "raised"} /\ \A d \in Callers \ {c} : pc'[d] = pc[d]
      /\ req' = req /\ turn' = turn /\ known' = known
  BY <1>1 DEF DraftInv, TypeOK, locals
<1>3. Grows /\ OneDraft'
  BY <1>1, WriteTyped, LandedGrows, StillGrows DEF DraftInv, PublishInv
<1>4. \A d \in Callers : Comment(d)' = Comment(d)
  BY <1>2 DEF Comment
<1> QED
  BY <1>1, <1>2, <1>3, <1>4, PublishKeeps DEF PublishInv

(* So does one that lands late, and a push.                                *)
LEMMA PublishServer ==
    ASSUME DraftInv, PublishInv,
           Push \/ UNCHANGED vars \/ \E w \in late : LandsLate(w)
    PROVE  PublishInv'
<1>1. /\ pc' = pc /\ req' = req /\ turn' = turn /\ known' = known /\ returned' = returned
      /\ reviews' = reviews \/ \E w \in late : Lands(w)
  BY DEF Push, vars, LandsLate, locals
<1>2. Grows /\ OneDraft'
  BY <1>1, LandedGrows, StillGrows DEF DraftInv, TypeOK, PublishInv
<1>3. \A d \in Callers : Comment(d)' = Comment(d)
  BY <1>1 DEF Comment
<1> QED
  BY <1>1, <1>2, <1>3, PublishKeeps DEF PublishInv

LEMMA PublishStep == DraftInv /\ PublishInv /\ [Next]_vars => PublishInv'
<1> SUFFICES ASSUME DraftInv, PublishInv, [Next]_vars PROVE PublishInv'
  OBVIOUS
<1>1. CASE Push \/ UNCHANGED vars \/ \E w \in late : LandsLate(w)
  BY <1>1, PublishServer
<1>2. ASSUME NEW c \in Callers,
             \/ Begin(c) \/ Find(c) \/ Anchor(c) \/ ReadFails(c)
             \/ Write(c) \/ WriteFails(c) \/ Confirm(c)
             \/ Verify(c) \/ VerifyFails(c)
      PROVE  PublishInv'
  BY <1>2, PublishBegin, PublishFind, PublishAnchor, PublishChecks, PublishWrite,
     PublishWriteFails, PublishConfirm
<1> QED
  BY <1>1, <1>2 DEF Next

(* A submission that returns leaves no comment that had returned before it *)
(* in a draft, whatever other callers and abandoned requests do.           *)
THEOREM SubmissionsPublish == Spec => []SubmitPublishes
<1>1. PublishInv => SubmitPublishes
  BY DEF PublishInv
<1>2. Spec => []PublishInv
  BY PublishInit, PublishStep, DraftInvariant, PTL DEF Spec
<1> QED
  BY <1>1, <1>2, PTL


-----------------------------------------------------------------------------
(* The places of a sequence that are kept, in their order.                 *)

(* The n-th number of a finite set is there, and they come in their order. *)
LEMMA NthFacts ==
    ASSUME NEW I, IsFiniteSet(I), \A i \in I : i \in Nat
    PROVE  /\ Cardinality(I) \in Nat
           /\ \A n \in 1..Cardinality(I) : Nth(n, I) \in I
           /\ \A m, n \in 1..Cardinality(I) : m < n => Nth(m, I) < Nth(n, I)
           /\ \A i \in I : \E n \in 1..Cardinality(I) : Nth(n, I) = i
<1> DEFINE N == Cardinality(I)
           UpTo(i) == {j \in I : j <= i}
           R == [i \in I |-> Cardinality(UpTo(i))]
<1>0. \A i \in I : i \in Nat
  OBVIOUS
<1>1. N \in Nat
  BY FS_CardinalityType
<1>2. \A i \in I : IsFiniteSet(UpTo(i)) /\ Cardinality(UpTo(i)) \in 1..N
  <2> SUFFICES ASSUME NEW i \in I
               PROVE  IsFiniteSet(UpTo(i)) /\ Cardinality(UpTo(i)) \in 1..N
    OBVIOUS
  <2>1. UpTo(i) \subseteq I /\ i \in UpTo(i)
    OBVIOUS
  <2>2. IsFiniteSet(UpTo(i)) /\ Cardinality(UpTo(i)) <= N
    BY <2>1, FS_Subset
  <2>3. Cardinality(UpTo(i)) \in Nat /\ Cardinality(UpTo(i)) # 0
    BY <2>1, <2>2, FS_CardinalityType, FS_EmptySet
  <2> QED
    BY <1>1, <2>2, <2>3
<1>3. \A i, k \in I : i < k => R[i] < R[k]
  <2> TAKE i, k \in I
  <2> HAVE i < k
  <2>1. UpTo(i) \subseteq UpTo(k) /\ k \in UpTo(k) /\ k \notin UpTo(i)
    BY <1>0
  <2>2. /\ Cardinality(UpTo(i)) <= Cardinality(UpTo(k))
        /\ Cardinality(UpTo(i)) = Cardinality(UpTo(k)) => UpTo(i) = UpTo(k)
    BY <1>2, <2>1, FS_Subset
  <2>3. UpTo(i) # UpTo(k)
    BY <2>1
  <2>4. R[i] = Cardinality(UpTo(i)) /\ R[k] = Cardinality(UpTo(k))
    OBVIOUS
  <2> HIDE DEF UpTo, R
  <2> QED
    BY <1>1, <1>2, <2>2, <2>3, <2>4
<1>4. R \in Surjection(I, 1..N)
  <2>1. R \in [I -> 1..N]
    BY <1>2
  <2>2. \A i, k \in I : R[i] = R[k] => i = k
    <3> HIDE DEF R
    <3> QED
      BY <1>1, <1>3, <2>1
  <2>3. R \in Injection(I, 1..N)
    BY <2>1, <2>2 DEF Injection, IsInjective
  <2>4. IsFiniteSet(1..N) /\ Cardinality(1..N) = N
    BY <1>1, FS_Interval
  <2> QED
    BY <2>3, <2>4, FS_Injection
<1>5. \A n \in 1..N : Nth(n, I) \in I /\ R[Nth(n, I)] = n
  <2> SUFFICES ASSUME NEW n \in 1..N
               PROVE  Nth(n, I) \in I /\ R[Nth(n, I)] = n
    OBVIOUS
  <2>1. PICK i \in I : R[i] = n
    BY <1>4 DEF Surjection
  <2>2. Cardinality({j \in I : j <= i}) = n
    BY <2>1
  <2>3. Nth(n, I) \in I /\ Cardinality({j \in I : j <= Nth(n, I)}) = n
    BY <2>2 DEF Nth
  <2> QED
    BY <2>3
<1>6. \A i \in I : R[i] \in 1..N
  BY <1>2
<1> HIDE DEF R, N
<1>7. \A m, n \in 1..N : m < n => Nth(m, I) < Nth(n, I)
  <2> TAKE m, n \in 1..N
  <2> HAVE m < n
  <2>1. /\ Nth(m, I) \in I /\ Nth(n, I) \in I
        /\ R[Nth(m, I)] = m /\ R[Nth(n, I)] = n
    BY <1>5
  <2>2. Nth(n, I) # Nth(m, I) /\ ~(Nth(n, I) < Nth(m, I))
    BY <1>1, <1>3, <2>1
  <2> QED
    BY <1>0, <2>1, <2>2
<1>8. \A i \in I : Nth(R[i], I) = i
  <2> TAKE i \in I
  <2>1. Nth(R[i], I) \in I /\ R[Nth(R[i], I)] = R[i]
    BY <1>5, <1>6
  <2>2. ~(i < Nth(R[i], I)) /\ ~(Nth(R[i], I) < i)
    BY <1>1, <1>3, <1>6, <2>1
  <2> QED
    BY <1>0, <2>1, <2>2
<1> QED
  BY <1>1, <1>5, <1>6, <1>7, <1>8 DEF N

(* What is kept of a sequence: its elements at those places.               *)
LEMMA KeptFacts ==
    ASSUME NEW S, NEW s \in Seq(S), NEW I \in SUBSET DOMAIN s
    PROVE  LET t == Kept(s, I)
           IN  /\ t \in Seq(S) /\ Len(t) <= Len(s)
               /\ I = DOMAIN s => Len(t) = Len(s)
               /\ \A n \in DOMAIN t : \E i \in I : t[n] = s[i]
               /\ \A i \in I : \E n \in DOMAIN t : t[n] = s[i]
               /\ \A m, n \in DOMAIN t : m < n =>
                    \E i, j \in I : i < j /\ t[m] = s[i] /\ t[n] = s[j]
<1> DEFINE N == Cardinality(I)
           t == Kept(s, I)
<1>1. IsFiniteSet(DOMAIN s) /\ Cardinality(DOMAIN s) = Len(s) /\ DOMAIN s = 1..Len(s)
  <2>1. Len(s) \in Nat /\ DOMAIN s = 1..Len(s)
    OBVIOUS
  <2>2. \A n \in Nat : IsFiniteSet(1..n) /\ Cardinality(1..n) = n
    BY FS_Interval
  <2> QED
    BY <2>1, <2>2
<1>2. IsFiniteSet(I) /\ N <= Len(s) /\ \A i \in I : i \in Nat
  BY <1>1, FS_Subset
<1>3. /\ N \in Nat
      /\ \A n \in 1..N : Nth(n, I) \in I
      /\ \A m, n \in 1..N : m < n => Nth(m, I) < Nth(n, I)
      /\ \A i \in I : \E n \in 1..N : Nth(n, I) = i
  BY <1>2, NthFacts
<1>4. t = [n \in 1..N |-> s[Nth(n, I)]]
  BY DEF Kept
<1>5. t \in Seq(S) /\ Len(t) = N /\ DOMAIN t = 1..N
  BY <1>3, <1>4
<1>6. \A n \in 1..N : t[n] = s[Nth(n, I)]
  BY <1>4
<1>7. I = DOMAIN s => N = Len(s)
  BY <1>1
<1> HIDE DEF t, N
<1>8. \A m, n \in DOMAIN t : m < n =>
        \E i, j \in I : i < j /\ t[m] = s[i] /\ t[n] = s[j]
  BY <1>3, <1>5, <1>6
<1>9. \A i \in I : \E n \in DOMAIN t : t[n] = s[i]
  BY <1>3, <1>5, <1>6
<1>10. \A n \in DOMAIN t : \E i \in I : t[n] = s[i]
  BY <1>3, <1>5, <1>6
<1> QED
  BY <1>2, <1>5, <1>7, <1>8, <1>9, <1>10 DEF t

-----------------------------------------------------------------------------
(* Rows, their order by id, and what the operators on them keep.           *)

Item    == [id : Nat, own : BOOLEAN, state : States]
Ids(s)  == {s[n].id : n \in DOMAIN s}
Asc(s)  == \A m, n \in DOMAIN s : m < n => s[m].id < s[n].id
Desc(s) == \A m, n \in DOMAIN s : m < n => s[m].id > s[n].id

(* t is made of elements of s in their order.                              *)
Ordered(t, s) == /\ t \in Seq(Item) /\ Len(t) <= Len(s)
                 /\ Asc(s) => Asc(t)
                 /\ Desc(s) => Desc(t)

LEMMA KeptRows ==
    ASSUME NEW s \in Seq(Item), NEW I \in SUBSET DOMAIN s
    PROVE  /\ Ordered(Kept(s, I), s)
           /\ I = DOMAIN s => Len(Kept(s, I)) = Len(s)
           /\ ToSet(Kept(s, I)) = {s[n] : n \in I}
<1> DEFINE t == Kept(s, I)
<1>1. /\ t \in Seq(Item) /\ Len(t) <= Len(s)
      /\ I = DOMAIN s => Len(t) = Len(s)
      /\ \A n \in DOMAIN t : \E i \in I : t[n] = s[i]
      /\ \A i \in I : \E n \in DOMAIN t : t[n] = s[i]
      /\ \A m, n \in DOMAIN t : m < n =>
           \E i, j \in I : i < j /\ t[m] = s[i] /\ t[n] = s[j]
  BY KeptFacts
<1> HIDE DEF t
<1>2. ASSUME Asc(s)
      PROVE  Asc(t)
  <2> SUFFICES ASSUME NEW m \in DOMAIN t, NEW n \in DOMAIN t, m < n
               PROVE  t[m].id < t[n].id
    BY DEF Asc
  <2>1. PICK i \in I, j \in I : i < j /\ t[m] = s[i] /\ t[n] = s[j]
    BY <1>1
  <2>2. i \in DOMAIN s /\ j \in DOMAIN s
    OBVIOUS
  <2> QED
    BY <1>2, <2>1, <2>2 DEF Asc
<1>3. ASSUME Desc(s)
      PROVE  Desc(t)
  <2> SUFFICES ASSUME NEW m \in DOMAIN t, NEW n \in DOMAIN t, m < n
               PROVE  t[m].id > t[n].id
    BY DEF Desc
  <2>1. PICK i \in I, j \in I : i < j /\ t[m] = s[i] /\ t[n] = s[j]
    BY <1>1
  <2>2. i \in DOMAIN s /\ j \in DOMAIN s
    OBVIOUS
  <2> QED
    BY <1>3, <2>1, <2>2 DEF Desc
<1>4. ToSet(t) = {s[n] : n \in I}
  BY <1>1 DEF ToSet
<1> QED
  BY <1>1, <1>2, <1>3, <1>4 DEF Ordered, t

LEMMA FittingRows ==
    ASSUME NEW s \in Seq(Item)
    PROVE  /\ Ordered(Fitting(s), s)
           /\ ToSet(Fitting(s)) = {x \in ToSet(s) : Fits(x)}
<1> DEFINE I == {n \in DOMAIN s : Fits(s[n])}
<1>1. Fitting(s) = Kept(s, I)
  BY DEF Fitting, Where
<1>2. Ordered(Kept(s, I), s) /\ ToSet(Kept(s, I)) = {s[n] : n \in I}
  BY KeptRows
<1>3. {s[n] : n \in I} = {x \in ToSet(s) : Fits(x)}
  BY DEF ToSet
<1> QED
  BY <1>1, <1>2, <1>3

LEMMA OnlyRows ==
    ASSUME items \in Seq(Item), NEW states
    PROVE  /\ Ordered(Only(states), items)
           /\ ToSet(Only(states)) = {x \in ToSet(items) : x.state \in states}
<1> DEFINE I == {n \in DOMAIN items : items[n].state \in states}
<1>1. Only(states) = Kept(items, I)
  BY DEF Only, Where
<1>2. Ordered(Kept(items, I), items) /\ ToSet(Kept(items, I)) = {items[n] : n \in I}
  BY KeptRows
<1>3. {items[n] : n \in I} = {x \in ToSet(items) : x.state \in states}
  BY DEF ToSet
<1> QED
  BY <1>1, <1>2, <1>3

LEMMA AfterRows ==
    ASSUME NEW s \in Seq(Item), NEW id
    PROVE  /\ Ordered(After(s, id), s)
           /\ ToSet(After(s, id)) = {x \in ToSet(s) : x.id > id}
<1> DEFINE I == {n \in DOMAIN s : s[n].id > id}
<1>1. After(s, id) = Kept(s, I)
  BY DEF After, Where
<1>2. Ordered(Kept(s, I), s) /\ ToSet(Kept(s, I)) = {s[n] : n \in I}
  BY KeptRows
<1>3. {s[n] : n \in I} = {x \in ToSet(s) : x.id > id}
  BY DEF ToSet
<1> QED
  BY <1>1, <1>2, <1>3

LEMMA RecentRows ==
    ASSUME NEW s \in Seq(Item)
    PROVE  /\ Ordered(Recent(s), s)
           /\ ToSet(Recent(s)) = {x \in ToSet(s) : x.id >= Arg.since}
           /\ Arg.since = 0 => Len(Recent(s)) = Len(s)
<1> DEFINE I == {n \in DOMAIN s : s[n].id >= Arg.since}
<1>1. Recent(s) = Kept(s, I)
  BY DEF Recent, Where
<1>2. /\ Ordered(Kept(s, I), s) /\ ToSet(Kept(s, I)) = {s[n] : n \in I}
      /\ I = DOMAIN s => Len(Kept(s, I)) = Len(s)
  BY KeptRows
<1>3. {s[n] : n \in I} = {x \in ToSet(s) : x.id >= Arg.since}
  BY DEF ToSet
<1>4. \A n \in DOMAIN s : s[n].id \in Nat
  <2>1. \A n \in DOMAIN s : s[n] \in Item
    OBVIOUS
  <2> QED
    BY <2>1 DEF Item
<1>5. ASSUME Arg.since = 0
      PROVE  I = DOMAIN s
  <2>1. \A n \in DOMAIN s : s[n].id >= 0
    BY <1>4
  <2> QED
    BY <1>5, <2>1
<1> QED
  BY <1>1, <1>2, <1>3, <1>5

LEMMA OwnRows ==
    ASSUME NEW s \in Seq(Item)
    PROVE  /\ Ordered(Own(s), s)
           /\ ToSet(Own(s)) = {x \in ToSet(s) : x.own}
<1> DEFINE I == {n \in DOMAIN s : s[n].own}
<1>1. Own(s) = Kept(s, I)
  BY DEF Own, Where
<1>2. Ordered(Kept(s, I), s) /\ ToSet(Kept(s, I)) = {s[n] : n \in I}
  BY KeptRows
<1>3. {s[n] : n \in I} = {x \in ToSet(s) : x.own}
  BY DEF ToSet
<1> QED
  BY <1>1, <1>2, <1>3

LEMMA NewestRows ==
    ASSUME NEW s \in Seq(Item)
    PROVE  /\ Newest(s) \in Seq(Item) /\ Len(Newest(s)) = Len(s)
           /\ ToSet(Newest(s)) = ToSet(s)
           /\ Asc(s) => Desc(Newest(s))
<1> DEFINE t == Newest(s)
<1>1. Len(s) \in Nat /\ DOMAIN s = 1..Len(s) /\ \A n \in 1..Len(s) : s[n] \in Item
  OBVIOUS
<1>2. t = [n \in 1..Len(s) |-> s[Len(s) - n + 1]]
  BY DEF Newest, Reverse
<1>3. \A n \in 1..Len(s) : Len(s) - n + 1 \in 1..Len(s) /\ t[n] = s[Len(s) - n + 1]
  BY <1>1, <1>2
<1>4. t \in Seq(Item) /\ Len(t) = Len(s) /\ DOMAIN t = 1..Len(s)
  BY <1>1, <1>2, <1>3
<1> HIDE DEF t
<1>5. \A n \in 1..Len(s) : s[n] = t[Len(s) - n + 1]
  BY <1>1, <1>3
<1>6. ToSet(t) = ToSet(s)
  <2>1. \A n \in DOMAIN t : \E m \in DOMAIN s : t[n] = s[m]
    BY <1>1, <1>3, <1>4
  <2>2. \A m \in DOMAIN s : \E n \in DOMAIN t : t[n] = s[m]
    BY <1>1, <1>3, <1>4, <1>5
  <2> QED
    BY <2>1, <2>2 DEF ToSet
<1>7. Asc(s) => Desc(t)
  <2> SUFFICES ASSUME Asc(s), NEW m \in DOMAIN t, NEW n \in DOMAIN t, m < n
               PROVE  t[m].id > t[n].id
    BY DEF Desc
  <2>1. m \in 1..Len(s) /\ n \in 1..Len(s)
    BY <1>4
  <2>2. /\ Len(s) - n + 1 \in DOMAIN s /\ Len(s) - m + 1 \in DOMAIN s
        /\ Len(s) - n + 1 < Len(s) - m + 1
    BY <1>1, <2>1
  <2>3. s[Len(s) - n + 1].id < s[Len(s) - m + 1].id
    BY <2>2 DEF Asc
  <2>4. t[m] = s[Len(s) - m + 1] /\ t[n] = s[Len(s) - n + 1]
    BY <1>3, <2>1
  <2>5. s[Len(s) - n + 1].id \in Nat /\ s[Len(s) - m + 1].id \in Nat
    BY <1>1, <2>2 DEF Item
  <2> QED
    BY <2>3, <2>4, <2>5
<1> QED
  BY <1>4, <1>6, <1>7 DEF t

(* The elements of the pages before page p.                                *)
LEMMA PagesBefore ==
    \A p \in Nat \ {0}, size \in Nat : /\ (p - 1) * size \in Nat
                                      /\ p = 1 => (p - 1) * size = 0
<1> TAKE p \in Nat \ {0}, size \in Nat
<1>1. PICK k \in Nat : k = p - 1
  OBVIOUS
<1>2. k * size \in Nat /\ (k = 0 => k * size = 0)
  OBVIOUS
<1> QED
  BY <1>1, <1>2

(* The places a to b of a sequence.                                        *)
IsSlice(t, s, a, b) ==
    /\ Ordered(t, s)
    /\ Len(t) = IF a <= b THEN b - a + 1 ELSE 0
    /\ \A n \in DOMAIN t : a + n - 1 \in a..b /\ t[n] = s[a + n - 1]
    /\ ToSet(t) = {s[n] : n \in a..b}

LEMMA SliceRows ==
    ASSUME NEW s \in Seq(Item), NEW a \in Nat \ {0}, NEW b \in Nat, b <= Len(s)
    PROVE  IsSlice(SubSeq(s, a, b), s, a, b)
<1> DEFINE t == SubSeq(s, a, b)
<1>1. Len(s) \in Nat /\ DOMAIN s = 1..Len(s)
  OBVIOUS
<1>2. /\ t \in Seq(Item) /\ Len(t) = IF a <= b THEN b - a + 1 ELSE 0
      /\ \A n \in 1..Len(t) : t[n] = s[a + n - 1]
  BY <1>1
<1>3. DOMAIN t = 1..Len(t)
  BY <1>2
<1> HIDE DEF t
<1>4. \A n \in DOMAIN t : a + n - 1 \in a..b /\ t[n] = s[a + n - 1]
  BY <1>2, <1>3
<1>5. \A n \in a..b : n - a + 1 \in DOMAIN t /\ t[n - a + 1] = s[n]
  BY <1>2, <1>3
<1>6. ToSet(t) = {s[n] : n \in a..b}
  <2>1. \A n \in DOMAIN t : \E m \in a..b : t[n] = s[m]
    BY <1>4
  <2>2. \A m \in a..b : \E n \in DOMAIN t : t[n] = s[m]
    BY <1>5
  <2> QED
    BY <2>1, <2>2 DEF ToSet
<1>7. \A m, n \in DOMAIN t : m < n =>
        /\ a + m - 1 \in DOMAIN s /\ a + n - 1 \in DOMAIN s
        /\ a + m - 1 < a + n - 1
        /\ t[m] = s[a + m - 1] /\ t[n] = s[a + n - 1]
  <2> TAKE m, n \in DOMAIN t
  <2> HAVE m < n
  <2>1. m \in Nat /\ n \in Nat
    BY <1>2, <1>3
  <2>2. a + m - 1 \in a..b /\ a + n - 1 \in a..b
    BY <1>4
  <2>3. \A i \in a..b : i \in DOMAIN s
    BY <1>1
  <2> QED
    BY <1>4, <2>1, <2>2, <2>3
<1>8. (Asc(s) => Asc(t)) /\ (Desc(s) => Desc(t))
  BY <1>7 DEF Asc, Desc
<1>9. Len(t) <= Len(s)
  BY <1>1, <1>2
<1> QED
  BY <1>2, <1>4, <1>6, <1>8, <1>9 DEF IsSlice, Ordered, t

(* The front of a sequence, and what comes after it.                       *)
LEMMA TakeRows ==
    ASSUME NEW s \in Seq(Item), NEW n \in Nat
    PROVE  LET t == Take(s, n)
           IN  /\ Ordered(t, s)
               /\ Len(t) = IF Len(s) > n THEN n ELSE Len(s)
               /\ ToSet(t) = {s[m] : m \in {j \in DOMAIN s : j <= n}}
               /\ \A m \in DOMAIN t : t[m] = s[m]
<1>1. Len(s) \in Nat /\ DOMAIN s = 1..Len(s)
  OBVIOUS
<1>2. CASE Len(s) > n
  <2> DEFINE t == SubSeq(s, 1, n)
  <2>1. /\ Ordered(t, s) /\ Len(t) = IF 1 <= n THEN n - 1 + 1 ELSE 0
        /\ \A m \in DOMAIN t : 1 + m - 1 \in 1..n /\ t[m] = s[1 + m - 1]
        /\ ToSet(t) = {s[m] : m \in 1..n}
    <3>1. 1 \in Nat \ {0} /\ n <= Len(s)
      BY <1>1, <1>2
    <3>2. IsSlice(SubSeq(s, 1, n), s, 1, n)
      BY <3>1, SliceRows
    <3> QED
      BY <3>2 DEF IsSlice
  <2>2. Take(s, n) = t
    BY <1>2 DEF Take
  <2>3. t \in Seq(Item)
    BY <2>1 DEF Ordered
  <2> HIDE DEF t
  <2>4. Len(t) = n
    BY <2>1
  <2>5. \A m \in DOMAIN t : m \in Nat /\ t[m] = s[m]
    BY <2>1, <2>3
  <2>6. {j \in DOMAIN s : j <= n} = 1..n
    BY <1>1, <1>2
  <2> QED
    BY <1>2, <2>1, <2>2, <2>4, <2>5, <2>6
<1>3. CASE ~(Len(s) > n)
  <2>1. Take(s, n) = s
    BY <1>3 DEF Take
  <2>2. {j \in DOMAIN s : j <= n} = DOMAIN s
    BY <1>1, <1>3
  <2>3. Ordered(s, s)
    BY <1>1 DEF Ordered
  <2> QED
    BY <1>3, <2>1, <2>2, <2>3 DEF ToSet
<1> QED
  BY <1>2, <1>3

(* Of newest-first rows, what is not taken comes after what is.            *)
LEMMA TakeNewest ==
    ASSUME NEW s \in Seq(Item), Desc(s), NEW n \in Nat
    PROVE  LET t == Take(s, n)
           IN  /\ t \in Seq(Item) /\ Desc(t) /\ Len(t) <= n /\ Len(t) <= Len(s)
               /\ ToSet(t) \subseteq ToSet(s)
               /\ \A x \in ToSet(s) : \/ x \in ToSet(t)
                                      \/ /\ Len(t) = n /\ Len(s) > n
                                         /\ \A y \in ToSet(t) : y.id > x.id
<1> DEFINE t == Take(s, n)
<1>1. /\ Ordered(t, s)
      /\ Len(t) = IF Len(s) > n THEN n ELSE Len(s)
      /\ ToSet(t) = {s[m] : m \in {j \in DOMAIN s : j <= n}}
  BY TakeRows
<1> HIDE DEF t
<1>2. Len(s) \in Nat /\ DOMAIN s = 1..Len(s)
  OBVIOUS
<1>3. t \in Seq(Item) /\ Desc(t) /\ Len(t) <= n /\ Len(t) <= Len(s)
  BY <1>1, <1>2 DEF Ordered
<1>4. ToSet(t) \subseteq ToSet(s)
  BY <1>1 DEF ToSet
<1>5. ASSUME NEW x \in ToSet(s), x \notin ToSet(t)
      PROVE  Len(t) = n /\ Len(s) > n /\ \A y \in ToSet(t) : y.id > x.id
  <2>1. PICK m \in DOMAIN s : x = s[m]
    BY DEF ToSet
  <2>2. m > n
    BY <1>1, <1>2, <1>5, <2>1
  <2>3. \A j \in DOMAIN s : j <= n => s[j].id > s[m].id
    BY <1>2, <2>1, <2>2 DEF Desc
  <2>4. \A y \in ToSet(t) : \E j \in DOMAIN s : j <= n /\ y = s[j]
    BY <1>1
  <2>5. Len(s) > n
    BY <1>2, <2>2
  <2>6. Len(t) = n
    BY <1>1, <2>5
  <2> QED
    BY <2>1, <2>3, <2>4, <2>5, <2>6
<1> QED
  BY <1>3, <1>4, <1>5 DEF t

(* The same of oldest-first rows.                                          *)
LEMMA TakeOldest ==
    ASSUME NEW s \in Seq(Item), Asc(s), NEW n \in Nat
    PROVE  LET t == Take(s, n)
           IN  /\ t \in Seq(Item) /\ Asc(t) /\ Len(t) <= n /\ Len(t) <= Len(s)
               /\ ToSet(t) \subseteq ToSet(s)
               /\ \A x \in ToSet(s) : \/ x \in ToSet(t)
                                      \/ /\ Len(t) = n /\ Len(s) > n
                                         /\ \A y \in ToSet(t) : y.id < x.id
<1> DEFINE t == Take(s, n)
<1>1. /\ Ordered(t, s)
      /\ Len(t) = IF Len(s) > n THEN n ELSE Len(s)
      /\ ToSet(t) = {s[m] : m \in {j \in DOMAIN s : j <= n}}
  BY TakeRows
<1> HIDE DEF t
<1>2. Len(s) \in Nat /\ DOMAIN s = 1..Len(s)
  OBVIOUS
<1>3. t \in Seq(Item) /\ Asc(t) /\ Len(t) <= n /\ Len(t) <= Len(s)
  BY <1>1, <1>2 DEF Ordered
<1>4. ToSet(t) \subseteq ToSet(s)
  BY <1>1 DEF ToSet
<1>5. ASSUME NEW x \in ToSet(s), x \notin ToSet(t)
      PROVE  Len(t) = n /\ Len(s) > n /\ \A y \in ToSet(t) : y.id < x.id
  <2>1. PICK m \in DOMAIN s : x = s[m]
    BY DEF ToSet
  <2>2. m > n
    BY <1>1, <1>2, <1>5, <2>1
  <2>3. \A j \in DOMAIN s : j <= n => s[j].id < s[m].id
    BY <1>2, <2>1, <2>2 DEF Asc
  <2>4. \A y \in ToSet(t) : \E j \in DOMAIN s : j <= n /\ y = s[j]
    BY <1>1
  <2>5. Len(s) > n
    BY <1>2, <2>2
  <2>6. Len(t) = n
    BY <1>1, <2>5
  <2> QED
    BY <2>1, <2>3, <2>4, <2>5, <2>6
<1> QED
  BY <1>3, <1>4, <1>5 DEF t

LEMMA PageLength ==
    ASSUME NEW k \in Nat, NEW size \in Nat \ {0}, NEW all \in Nat, k <= all,
           NEW m, m = k + size,
           NEW b, b = IF m < all THEN m ELSE all,
           NEW length, length = IF k + 1 <= b THEN b - (k + 1) + 1 ELSE 0
    PROVE  length <= size /\ (length < size <=> m > all)
OBVIOUS

(* A page: the places after the earlier pages, no more than there are.     *)
LEMMA PageRows ==
    ASSUME NEW s \in Seq(Item), NEW n \in Nat \ {0}, NEW size \in Nat \ {0},
           (n - 1) * size <= Len(s)
    PROVE  LET t == Page(s, n, size)
           IN  /\ Ordered(t, s) /\ Len(t) <= size
               /\ n * size = (n - 1) * size + size
               /\ (n - 1) * size \in Nat
               /\ Len(t) < size => n * size > Len(s)
               /\ n * size > Len(s) => Len(t) < size
               /\ ToSet(t) = {s[m] : m \in {j \in DOMAIN s : /\ (n - 1) * size < j
                                                            /\ j <= n * size}}
<1> DEFINE k == (n - 1) * size
           b == IF n * size < Len(s) THEN n * size ELSE Len(s)
           t == SubSeq(s, k + 1, b)
<1>1. Len(s) \in Nat /\ DOMAIN s = 1..Len(s)
  OBVIOUS
<1>2. k \in Nat /\ n * size = k + size
  OBVIOUS
<1>3. k + 1 \in Nat \ {0} /\ b \in Nat /\ b <= Len(s) /\ k <= Len(s)
  BY <1>1, <1>2
<1>4. Page(s, n, size) = t
  BY DEF Page
<1>5. /\ Ordered(t, s)
      /\ Len(t) = IF k + 1 <= b THEN b - (k + 1) + 1 ELSE 0
      /\ ToSet(t) = {s[m] : m \in (k + 1)..b}
  <2>1. IsSlice(t, s, k + 1, b)
    <3> HIDE DEF k, b
    <3> QED
      BY <1>3, SliceRows
  <2> HIDE DEF k, b
  <2> QED
    BY <2>1 DEF IsSlice
<1>6. {j \in DOMAIN s : k < j /\ j <= n * size} = (k + 1)..b
  <2> HIDE DEF k
  <2> QED
    BY <1>1, <1>2
<1> HIDE DEF k, t
<1>7. Len(t) <= size /\ (Len(t) < size <=> n * size > Len(s))
  <2> DEFINE m == n * size
  <2>1. m = k + size /\ b = IF m < Len(s) THEN m ELSE Len(s)
    BY <1>2
  <2> HIDE DEF b, m
  <2>2. Len(t) <= size /\ (Len(t) < size <=> m > Len(s))
    <3>1. Len(t) \in Nat /\ Len(s) \in Nat /\ k \in Nat /\ k <= Len(s)
      BY <1>1, <1>2, <1>3, <1>5 DEF Ordered
    <3>2. Len(t) = IF k + 1 <= b THEN b - (k + 1) + 1 ELSE 0
      BY <1>5
    <3> QED
      BY <2>1, <3>1, <3>2, PageLength
  <2> QED
    BY <2>2 DEF m
<1> QED
  BY <1>2, <1>4, <1>5, <1>6, <1>7 DEF k

(* Rows with different ids are as many as their ids.                       *)
LEMMA CountIds ==
    ASSUME NEW s \in Seq(Item),
           \A m, n \in DOMAIN s : m # n => s[m].id # s[n].id
    PROVE  Cardinality(Ids(s)) = Len(s)
<1> DEFINE f == [n \in 1..Len(s) |-> s[n].id]
<1>1. Len(s) \in Nat /\ DOMAIN s = 1..Len(s)
  OBVIOUS
<1>2. f \in Bijection(1..Len(s), Ids(s))
  BY <1>1 DEF Bijection, Injection, Surjection, IsInjective, Ids
<1> QED
  BY <1>1, <1>2, FS_CountingElements DEF ExistsBijection

(* Sorting: the same rows, none before a newer one, and one that is at     *)
(* place n after having n newer ones than x is itself newer than x.        *)
LEMMA SortRows ==
    ASSUME NEW s \in Seq(Item)
    PROVE  LET t == SortNewest(s)
           IN  /\ t \in Seq(Item) /\ Len(t) = Len(s) /\ ToSet(t) = ToSet(s)
               /\ \A m, n \in DOMAIN t : m < n => t[m].id >= t[n].id
               /\ (\A m, n \in DOMAIN s : m # n => s[m].id # s[n].id) => Desc(t)
               /\ \A n \in DOMAIN t, x \in Nat, P \in SUBSET DOMAIN s :
                    Cardinality(P) >= n /\ (\A j \in P : s[j].id > x) => t[n].id > x
<1> DEFINE N == Len(s)
           D == DOMAIN s
           Before(i, k) == s[i].id > s[k].id \/ (s[i].id = s[k].id /\ i < k)
           Above(i) == {j \in D : s[j].id > s[i].id \/ (s[j].id = s[i].id /\ j <= i)}
           R == [i \in D |-> Cardinality(Above(i))]
           At0(n) == CHOOSE i \in D : Rank(s, i) = n
           t == SortNewest(s)
<1>0. N \in Nat /\ D = 1..N /\ \A i \in D : i \in Nat /\ s[i] \in Item /\ s[i].id \in Nat
  <2>1. \A i \in D : s[i] \in Item
    OBVIOUS
  <2> QED
    BY <2>1 DEF Item
<1>1. IsFiniteSet(D) /\ Cardinality(D) = N
  <2>1. \A n \in Nat : IsFiniteSet(1..n) /\ Cardinality(1..n) = n
    BY FS_Interval
  <2> QED
    BY <1>0, <2>1
<1>2. \A i \in D : R[i] = Rank(s, i)
  BY DEF Rank
<1>a. \A i \in D : R[i] = Cardinality(Above(i))
  OBVIOUS
<1> HIDE DEF N, D
<1>3. \A i \in D : IsFiniteSet(Above(i)) /\ Cardinality(Above(i)) \in 1..N
  <2> SUFFICES ASSUME NEW i \in D
               PROVE  IsFiniteSet(Above(i)) /\ Cardinality(Above(i)) \in 1..N
    OBVIOUS
  <2>1. Above(i) \subseteq D /\ i \in Above(i)
    BY <1>0
  <2>2. IsFiniteSet(Above(i)) /\ Cardinality(Above(i)) <= N
    BY <1>1, <2>1, FS_Subset
  <2>3. Cardinality(Above(i)) \in Nat /\ Cardinality(Above(i)) # 0
    BY <2>1, <2>2, FS_CardinalityType, FS_EmptySet
  <2> QED
    BY <1>0, <2>2, <2>3
<1>4. \A i, k \in D : Before(i, k) => R[i] < R[k]
  <2> TAKE i, k \in D
  <2> HAVE Before(i, k)
  <2>1. Above(i) \subseteq Above(k) /\ k \in Above(k) /\ k \notin Above(i)
    BY <1>0
  <2>2. /\ Cardinality(Above(i)) <= Cardinality(Above(k))
        /\ Cardinality(Above(i)) = Cardinality(Above(k)) => Above(i) = Above(k)
    BY <1>3, <2>1, FS_Subset
  <2>3. Above(i) # Above(k)
    BY <2>1
  <2>4. R[i] = Cardinality(Above(i)) /\ R[k] = Cardinality(Above(k))
    OBVIOUS
  <2> HIDE DEF Above, R
  <2> QED
    BY <1>0, <1>3, <2>2, <2>3, <2>4
<1>5. \A i, k \in D : i # k => Before(i, k) \/ Before(k, i)
  BY <1>0
<1>6. R \in [D -> 1..N]
  BY <1>3
<1> HIDE DEF Before, R
<1>7. \A i, k \in D : R[i] = R[k] => i = k
  <2> TAKE i, k \in D
  <2>1. R[i] \in Nat /\ R[k] \in Nat
    BY <1>0, <1>6
  <2>2. i # k => R[i] < R[k] \/ R[k] < R[i]
    BY <1>4, <1>5
  <2> QED
    BY <2>1, <2>2
<1>8. R \in Surjection(D, 1..N)
  <2>1. R \in Injection(D, 1..N)
    BY <1>6, <1>7 DEF Injection, IsInjective
  <2>2. IsFiniteSet(1..N) /\ Cardinality(1..N) = N
    BY <1>0, FS_Interval
  <2> QED
    BY <1>1, <2>1, <2>2, FS_Injection
<1>9. \A n \in 1..N : At0(n) \in D /\ R[At0(n)] = n
  <2> SUFFICES ASSUME NEW n \in 1..N
               PROVE  At0(n) \in D /\ R[At0(n)] = n
    OBVIOUS
  <2>1. PICK i \in D : R[i] = n
    BY <1>8 DEF Surjection
  <2>2. Rank(s, i) = n
    BY <1>2, <2>1
  <2>3. At0(n) \in D /\ Rank(s, At0(n)) = n
    BY <2>2
  <2> QED
    BY <1>2, <2>3
<1>10. t = [n \in 1..N |-> s[At0(n)]]
  BY <1>0 DEF SortNewest, D
<1> HIDE DEF At0
<1>11. /\ t \in Seq(Item) /\ Len(t) = N /\ DOMAIN t = 1..N
       /\ \A n \in 1..N : t[n] = s[At0(n)]
  BY <1>0, <1>9, <1>10
<1> HIDE DEF t
<1>12. \A i \in D : R[i] \in 1..N /\ At0(R[i]) = i
  BY <1>6, <1>7, <1>9
<1>13. ToSet(t) = ToSet(s)
  <2>1. \A n \in DOMAIN t : \E m \in DOMAIN s : t[n] = s[m]
    BY <1>9, <1>11 DEF D
  <2>2. \A m \in DOMAIN s : \E n \in DOMAIN t : t[n] = s[m]
    BY <1>11, <1>12 DEF D
  <2> QED
    BY <2>1, <2>2 DEF ToSet
<1>14. \A m, n \in 1..N : m < n => Before(At0(m), At0(n))
  <2> TAKE m, n \in 1..N
  <2> HAVE m < n
  <2>1. At0(m) \in D /\ At0(n) \in D /\ R[At0(m)] = m /\ R[At0(n)] = n
    BY <1>9
  <2>2. At0(m) # At0(n) /\ ~Before(At0(n), At0(m))
    BY <1>0, <1>4, <2>1
  <2> QED
    BY <1>5, <2>1, <2>2
<1>15. \A m, n \in DOMAIN t : m < n => t[m].id >= t[n].id
  <2> TAKE m, n \in DOMAIN t
  <2> HAVE m < n
  <2>1. m \in 1..N /\ n \in 1..N /\ t[m] = s[At0(m)] /\ t[n] = s[At0(n)]
    BY <1>11
  <2>2. s[At0(m)].id \in Nat /\ s[At0(n)].id \in Nat
    <3>1. At0(m) \in D /\ At0(n) \in D
      BY <1>9, <2>1
    <3> QED
      BY <1>0, <3>1
  <2>3. s[At0(m)].id > s[At0(n)].id \/ s[At0(m)].id = s[At0(n)].id
    BY <1>14, <2>1 DEF Before
  <2> QED
    BY <2>1, <2>2, <2>3
<1>16. ASSUME \A m, n \in D : m # n => s[m].id # s[n].id
       PROVE  Desc(t)
  <2>1. \A m, n \in 1..N : m < n => s[At0(m)].id > s[At0(n)].id
    <3> TAKE m, n \in 1..N
    <3> HAVE m < n
    <3>1. At0(m) \in D /\ At0(n) \in D /\ At0(m) # At0(n)
      <4>1. m # n
        BY <1>0
      <4>2. /\ At0(m) \in D /\ R[At0(m)] = m
            /\ At0(n) \in D /\ R[At0(n)] = n
        BY <1>9
      <4> QED
        BY <4>1, <4>2
    <3>2. s[At0(m)].id # s[At0(n)].id
      BY <1>16, <3>1
    <3> QED
      BY <1>14, <3>2 DEF Before
  <2> QED
    BY <1>11, <2>1 DEF Desc
<1>17. ASSUME NEW n \in 1..N, NEW x \in Nat, NEW P \in SUBSET D,
              Cardinality(P) >= n, \A j \in P : s[j].id > x
       PROVE  t[n].id > x
  <2> DEFINE i == At0(n)
  <2>1. i \in D /\ R[i] = n /\ t[n] = s[i] /\ s[i].id \in Nat
    BY <1>0, <1>9, <1>11
  <2> SUFFICES ASSUME ~(s[i].id > x)
               PROVE  FALSE
    BY <2>1
  <2> HIDE DEF i
  <2>2. \A j \in P : j \in D /\ s[j].id \in Nat /\ s[j].id > s[i].id
    BY <1>0, <1>17, <2>1
  <2>3. P \subseteq Above(i) \ {i}
    BY <2>1, <2>2
  <2>4. i \in Above(i) /\ IsFiniteSet(Above(i)) /\ Cardinality(Above(i)) = n
    <3>1. i \in Above(i)
      BY <1>0, <2>1
    <3> QED
      BY <1>a, <1>3, <2>1, <3>1
  <2> HIDE DEF Above
  <2>5. /\ IsFiniteSet(Above(i) \ {i})
        /\ Cardinality(Above(i) \ {i}) = n - 1
    BY <2>4, FS_RemoveElement
  <2>6. Cardinality(P) <= n - 1 /\ Cardinality(P) \in Nat
    BY <2>3, <2>5, FS_Subset, FS_CardinalityType
  <2> QED
    BY <1>0, <1>17, <2>6
<1> QED
  BY <1>11, <1>13, <1>15, <1>16, <1>17 DEF t, N, D

-----------------------------------------------------------------------------
(* The inductive invariant.  What a listing has read so far is in order    *)
(* and has everything that is asked for and has been there all along, but  *)
(* for what comes after it.                                                *)

ArgType  == [limit : Nat \ {0}, filter : SUBSET States, page : Nat \ {0},
             order : {"asc", "desc"}, since : Nat]
CallType == [pc : {"start", "batch", "fetch", "walk"}, arg : ArgType,
             rows : Seq(Item), page : Nat \ {0}, cursor : Nat, seen : Nat,
             queue : Seq(Item)]

(* Ids grow and are never given twice.                                     *)
WorldInv ==
    /\ list \in Lists /\ made \in Nat /\ alone \in BOOLEAN
    /\ items \in Seq(Item) /\ Asc(items) /\ Len(items) <= made
    /\ \A n \in DOMAIN items :
         /\ items[n].id \in 1..made
         /\ Mixed \/ items[n].own
         /\ list \in Threads => items[n].state = "open"
    /\ steady \subseteq ToSet(items)
    /\ (call # Idle /\ alone) => steady = ToSet(items)

SizeOf(arg)   == IF arg.limit < MaxPage THEN arg.limit ELSE MaxPage
Wants(i, arg) == i.own /\ i.state \in arg.filter
Expected(arg)   == {i \in steady : Wants(i, arg) /\ i.id >= arg.since}
Missed(s, arg) == {i \in Expected(arg) : i.id \notin Ids(s)}

(* What s misses comes after all of it, and is missed for its limit.       *)
Newer(s, i) == \A n \in DOMAIN s : s[n].id > i.id
Older(s, i) == \A n \in DOMAIN s : s[n].id < i.id
CutAt(s, limit, arg) ==
    \A i \in Missed(s, arg) : Len(s) >= limit /\ Newer(s, i)

(* Without an order: no row twice, and what s misses is missed for its     *)
(* limit.                                                                  *)
Apart(s) == \A m, n \in DOMAIN s : m # n => s[m].id # s[n].id
FullAt(s, limit, arg) == Missed(s, arg) # {} => Len(s) >= limit

(* GitHub's issues, when nobody else acts: what fits of the pages read.    *)
IssuesInv(c) ==
    (list = "gh_issues" /\ alone) =>
        LET all  == Newest(Only(Coarse(c.arg.filter)))
            read == (c.page - 1) * SizeOf(c.arg)
        IN  /\ read <= Len(all)
            /\ Desc(c.rows)
            /\ ToSet(c.rows) = {x \in {all[n] : n \in {j \in DOMAIN all : j <= read}} :
                                  Wants(x, c.arg)}

(* A queue of ids, and the rows that have been fetched of it.              *)
QueueInv(c) ==
    /\ c.pc = "start" /\ list \in {"az_items", "gh_pull_search", "gh_comments", "gl_notes"}
         => c.rows = <<>>
    /\ c.pc \in {"batch", "fetch"} =>
         LET bound == IF c.pc = "batch" THEN c.arg.limit ELSE SizeOf(c.arg)
         IN  /\ Len(c.rows) + Len(c.queue) <= bound
             /\ c.pc = "batch" => /\ Desc(c.rows \o c.queue)
                                  /\ CutAt(c.rows \o c.queue, bound, c.arg)
             /\ c.pc = "fetch" => /\ Apart(c.rows \o c.queue)
                                  /\ FullAt(c.rows \o c.queue, bound, c.arg)

(* By cursor: everything up to it.                                         *)
CursorInv(c) ==
    list \in {"gh_board", "az_comments"} =>
        /\ Asc(c.rows) /\ \A n \in DOMAIN c.rows : c.rows[n].id <= c.cursor
        /\ c.arg.page = 1 \/ c.arg.order = "desc" =>
             \A i \in Missed(c.rows, c.arg) : i.id > c.cursor
PartInv(c) ==
    list = "az_comments" /\ c.arg.order = "asc" =>
        /\ Len(c.rows) < SizeOf(c.arg)
        /\ c.seen <= (c.arg.page - 1) * SizeOf(c.arg)
        /\ c.arg.since = 0 /\ c.arg.page = 1 => c.rows = <<>>

(* GitLab's merge requests, before and after the closed ones.              *)
HalvesInv(c) ==
    list = "gl_pulls" =>
        \/ c.page = 1 /\ c.rows = <<>> /\ c.seen = 0
        \/ /\ c.page = 2 /\ c.arg.filter = Closed
           /\ Desc(c.rows) /\ Len(c.rows) <= SizeOf(c.arg)
           /\ \A i \in Missed(c.rows, c.arg) :
                i.state = "closed" => Len(c.rows) = SizeOf(c.arg) /\ Newer(c.rows, i)
           /\ c.seen # 1 => Len(c.rows) < SizeOf(c.arg)
           /\ alone => \A n \in DOMAIN c.rows :
                         c.rows[n] \in ToSet(items) /\ c.rows[n].state = "closed"

(* The walk to the front of a thread.                                      *)
WalkInv(c) ==
    c.pc = "walk" =>
        /\ Len(c.rows) < c.arg.limit
        /\ \A i \in Missed(c.rows, c.arg) : Newer(c.rows, i)
        /\ \A n \in DOMAIN items :
             items[n] \in Missed(c.rows, c.arg) => n <= c.page * SizeOf(c.arg)
        /\ alone => /\ Asc(c.rows)
                    /\ \A n \in DOMAIN items :
                         n <= c.page * SizeOf(c.arg) => Newer(c.rows, items[n])

(* What is asked for, and where each listing can be.                       *)
AskedInv(c) ==
    /\ list \notin Threads =>
         /\ c.arg.page = 1 /\ c.arg.since = 0 /\ c.arg.order = "desc"
         /\ list \in PullKinds \cup {"gl_issues"} => c.arg.filter # {"merged"}
    /\ list \in Threads => c.arg.filter = States
    /\ c.arg.filter \in Filters
    /\ c.pc = "batch" => list = "az_items"
    /\ c.pc = "fetch" => list = "gh_pull_search"
    /\ c.pc = "walk" => /\ list \in {"gh_comments", "gl_notes"}
                        /\ c.arg.order = "desc" /\ c.arg.page = 1 /\ c.arg.since = 0
    /\ c.pc = "start" /\ list \notin {"gh_issues", "gl_pulls"} => c.page = c.arg.page

CallOK(c) ==
    /\ c \in CallType /\ AskedInv(c)
    /\ IssuesInv(c) /\ QueueInv(c) /\ CursorInv(c) /\ PartInv(c) /\ HalvesInv(c)
    /\ WalkInv(c)
CallInv == call = Idle \/ (CallOK(call) /\ result = NoResult)

(* What rows and has_more promise of what was asked for.                   *)
Promised(rows, more, arg) ==
    /\ rows \in Seq(Item)
    /\ (alone /\ arg.page = 1 /\ ~more) =>
         \/ Missed(rows, arg) = {}
         \/ list = "gh_issues" /\ Len(rows) = arg.limit
         \/ list = "az_comments" /\ (arg.order = "desc" \/ arg.since > 0)
         \/ Uncounted /\ arg.order = "desc" /\ arg.page = 1 /\ arg.since = 0
    /\ alone \/ ~Paged => \A m, n \in DOMAIN rows : m # n => rows[m].id # rows[n].id
    /\ (arg.page = 1 /\ (list = "gh_issues" => alone)
                     /\ ~(Uncounted /\ arg.order = "desc" /\ arg.since = 0)) =>
         \A i \in Missed(rows, arg) :
           IF Unordered THEN Len(rows) >= SizeOf(arg)
           ELSE IF arg.order = "desc" /\ (arg.since = 0 \/ list = "az_comments")
           THEN Newer(rows, i) ELSE Older(rows, i)
ResultInv ==
    \/ result = NoResult
    \/ /\ call = Idle
       /\ result = [done |-> TRUE, rows |-> result.rows, more |-> result.more,
                    arg |-> result.arg]
       /\ Promised(result.rows, result.more, result.arg)

ListingInv == WorldInv /\ CallInv /\ ResultInv

(* The runs' invariants from what was promised when the call returned.     *)
LEMMA PromisesKept == ResultInv => NothingLeft /\ NoRepeats /\ NoHoles
<1> SUFFICES ASSUME ResultInv, result.done
             PROVE  NothingLeft /\ NoRepeats /\ NoHoles
  BY DEF NothingLeft, NoRepeats, NoHoles
<1>1. Promised(result.rows, result.more, result.arg)
  BY DEF ResultInv, NoResult
<1>2. RowIds = Ids(result.rows)
  BY DEF RowIds, Rows, Ids
<1>3. LeftOut = Missed(result.rows, result.arg)
  BY <1>2 DEF LeftOut, Asked, Missed, Expected, Wants
<1>4. NothingLeft
  BY <1>1, <1>3 DEF NothingLeft, Promised, CutInside, CutAzure, NewestFirst, Asked
<1>5. NoRepeats
  BY <1>1, <1>2, CountIds DEF NoRepeats, Promised
<1>6. NoHoles
  <2>1. CASE Unordered
    BY <1>1, <1>3, <2>1
       DEF NoHoles, Promised, Unordered, Uncounted, NewestFirst, Asked, SizeOf
  <2>2. CASE ~Unordered
    BY <1>1, <1>2, <1>3, <2>2
       DEF NoHoles, Promised, NewestFirst, Asked, Ids, Newer, Older
  <2> QED
    BY <2>1, <2>2
<1> QED
  BY <1>4, <1>5, <1>6

LEMMA ReturnKeeps ==
    ASSUME WorldInv, call # Idle, NEW rows, NEW more,
           Step(Return(rows, more)), Promised(rows, more, Arg)
    PROVE  ListingInv'
<1>1. /\ call' = Idle
      /\ result' = [done |-> TRUE, rows |-> rows, more |-> more, arg |-> Arg]
      /\ UNCHANGED <<list, items, made, steady, alone>>
  BY DEF Step, Return
<1>2. WorldInv'
  BY <1>1 DEF WorldInv, Mixed
<1>3. Promised(rows, more, Arg) => Promised(result.rows, result.more, result.arg)'
  BY <1>1 DEF Promised, Missed, Expected, Wants, Newer, Older, Ids, Uncounted, Paged,
              Unordered
<1>4. CallInv' /\ ResultInv'
  BY <1>1, <1>3 DEF CallInv, ResultInv
<1> QED
  BY <1>2, <1>4 DEF ListingInv

LEMMA GotoKeeps ==
    ASSUME WorldInv, call # Idle, result = NoResult, NEW new,
           Step(Goto(new)), CallOK(new)
    PROVE  ListingInv'
<1>1. /\ call' = new /\ result' = result
      /\ UNCHANGED <<list, items, made, steady, alone>>
  BY DEF Step, Goto
<1>2. WorldInv'
  BY <1>1 DEF WorldInv, Mixed
<1>3. AskedInv(new) => AskedInv(call)'
  BY <1>1 DEF AskedInv
<1>4. IssuesInv(new) => IssuesInv(call)'
  BY <1>1 DEF IssuesInv, Only, Where
<1>5. QueueInv(new) => QueueInv(call)'
  BY <1>1 DEF QueueInv, CutAt, FullAt, Missed, Expected
<1>6. CursorInv(new) => CursorInv(call)'
  BY <1>1 DEF CursorInv, Missed, Expected
<1>7. PartInv(new) => PartInv(call)'
  BY <1>1 DEF PartInv
<1>8. HalvesInv(new) => HalvesInv(call)'
  BY <1>1 DEF HalvesInv, Missed, Expected
<1>9. WalkInv(new) => WalkInv(call)'
  BY <1>1 DEF WalkInv, Missed, Expected
<1>10. CallOK(call)'
  BY <1>1, <1>3, <1>4, <1>5, <1>6, <1>7, <1>8, <1>9 DEF CallOK
<1> QED
  BY <1>1, <1>2, <1>10 DEF ListingInv, CallInv, ResultInv

LEMMA RaiseKeeps ==
    ASSUME WorldInv, Step(Raise)
    PROVE  ListingInv'
<1>1. /\ call' = Idle /\ result' = NoResult
      /\ UNCHANGED <<list, items, made, steady, alone>>
  BY DEF Step, Raise
<1>2. WorldInv'
  BY <1>1 DEF WorldInv, Mixed
<1> QED
  BY <1>1, <1>2 DEF ListingInv, CallInv, ResultInv

-----------------------------------------------------------------------------
(* A call begins, and others act.                                          *)

LEMMA ItemOf ==
    ASSUME NEW n \in Nat, NEW i \in Items(n)
    PROVE  /\ i \in Item /\ i.id = n
           /\ Mixed \/ i.own
           /\ list \in Threads => i.state = "open"
BY DEF Items, Item, States

LEMMA ListInit == ListingInit => ListingInv
<1> SUFFICES ASSUME ListingInit
             PROVE  ListingInv
  OBVIOUS
<1>1. made \in Nat /\ items \in [1..made -> UNION {Items(n) : n \in 1..made}]
  BY ListConstants DEF ListingInit
<1>2. \A n \in 1..made : items[n] \in Items(n)
  BY DEF ListingInit
<1>3. DOMAIN items = 1..made
  BY <1>1
<1>4. \A n \in 1..made : /\ items[n] \in Item /\ items[n].id = n
                         /\ Mixed \/ items[n].own
                         /\ list \in Threads => items[n].state = "open"
  BY <1>1, <1>2, ItemOf
<1>5. items \in Seq(Item) /\ Len(items) = made
  BY <1>1, <1>3, <1>4
<1>6. Asc(items)
  BY <1>3, <1>4 DEF Asc
<1>7. WorldInv
  <2>1. list \in Lists /\ alone \in BOOLEAN /\ steady = {} /\ call = Idle
    BY DEF ListingInit
  <2>2. \A n \in DOMAIN items : items[n].id \in 1..made
    BY <1>1, <1>3, <1>4
  <2> QED
    BY <1>1, <1>3, <1>4, <1>5, <1>6, <2>1, <2>2 DEF WorldInv
<1> QED
  BY <1>7 DEF ListingInv, CallInv, ResultInv, ListingInit

LEMMA EmptyRows ==
    /\ <<>> \in Seq(Item) /\ Len(<<>>) = 0 /\ Asc(<<>>) /\ Desc(<<>>)
    /\ DOMAIN <<>> = {} /\ ToSet(<<>>) = {}
BY DEF Asc, Desc, ToSet

LEMMA BeginKeeps ==
    ASSUME ListingInv, Ask(IF list \in Threads THEN CommentArgs ELSE TicketArgs)
    PROVE  ListingInv'
<1>1. PICK a \in IF list \in Threads THEN CommentArgs ELSE TicketArgs :
        call' = [pc |-> "start", arg |-> a, rows |-> <<>>, page |-> a.page,
                 cursor |-> 0, seen |-> 0, queue |-> <<>>]
  BY DEF Ask
<1> DEFINE c == [pc |-> "start", arg |-> a, rows |-> <<>>, page |-> a.page,
                 cursor |-> 0, seen |-> 0, queue |-> <<>>]
<1>2. /\ a \in ArgType
      /\ a.filter \in Filters
      /\ list \in Threads => a.filter = States
      /\ list \notin Threads => /\ a.page = 1 /\ a.since = 0 /\ a.order = "desc"
                                /\ list \notin Native => a.filter # {"merged"}
  <2>1. CASE list \in Threads
    <3>1. a \in CommentArgs
      BY <1>1, <2>1
    <3>2. PICK l \in Limits, p \in Pages, o \in {"asc", "desc"}, s \in {0, 2} :
            a = [limit |-> l, filter |-> States, page |-> p, order |-> o, since |-> s]
      BY <3>1 DEF CommentArgs
    <3>3. l \in Nat \ {0} /\ p \in Nat \ {0} /\ s \in Nat
      BY ListConstants
    <3> QED
      BY <2>1, <3>2, <3>3 DEF ArgType, Filters
  <2>2. CASE list \notin Threads
    <3>1. a \in TicketArgs
      BY <1>1, <2>2
    <3>2. PICK l \in Limits, f \in IF list \in Native THEN Filters ELSE Filters \ {{"merged"}} :
            a = [limit |-> l, filter |-> f, page |-> 1, order |-> "desc", since |-> 0]
      BY <3>1 DEF TicketArgs
    <3>3. l \in Nat \ {0} /\ f \in Filters /\ (list \notin Native => f # {"merged"})
      BY <3>2, ListConstants
    <3>4. f \in SUBSET States
      BY <3>3 DEF Filters, States, Closed
    <3> QED
      BY <2>2, <3>2, <3>3, <3>4 DEF ArgType
  <2> QED
    BY <2>1, <2>2
<1>3. c \in CallType
  BY <1>2, EmptyRows DEF CallType, ArgType
<1>4. /\ UNCHANGED <<list, items, made, result>>
      /\ steady' = ToSet(items) /\ alone' = TRUE /\ result = NoResult
  BY DEF Ask, ListingInv, ResultInv
<1>5. WorldInv'
  BY <1>4 DEF ListingInv, WorldInv, Mixed
<1> DEFINE missed == {i \in ToSet(items) : Wants(i, a) /\ i.id >= a.since}
<1>6. \A i \in ToSet(items) : i.id \in Nat /\ i.id > 0
  BY DEF ListingInv, WorldInv, ToSet
<1>7. AskedInv(call)'
  <2>1. list \in PullKinds \cup {"gl_issues"} => list \notin Native
    BY DEF PullKinds, Native, TicketKinds
  <2> QED
    BY <1>1, <1>2, <1>4, <2>1 DEF AskedInv
<1>8. IssuesInv(call)'
  <2> SUFFICES ASSUME list = "gh_issues"
               PROVE  IssuesInv(call)'
    BY <1>4 DEF IssuesInv
  <2> DEFINE all == Newest(Only(Coarse(a.filter)))
  <2>1. all \in Seq(Item)
    BY OnlyRows, NewestRows DEF ListingInv, WorldInv, Ordered
  <2>2. a.page = 1 /\ (a.page - 1) * SizeOf(a) = 0
    <3>1. a.page = 1 /\ SizeOf(a) \in Nat
      BY <1>2, ListConstants DEF Threads, SizeOf, ArgType
    <3> QED
      BY <3>1
  <2> HIDE DEF all
  <2>3. {j \in DOMAIN all : j <= 0} = {} /\ 0 <= Len(all)
    BY <2>1
  <2>4. /\ (a.page - 1) * SizeOf(a) <= Len(all)
        /\ Desc(<<>>)
        /\ ToSet(<<>>) = {x \in {all[n] : n \in {j \in DOMAIN all :
                                   j <= (a.page - 1) * SizeOf(a)}} : Wants(x, a)}
    BY <2>2, <2>3, EmptyRows
  <2> QED
    BY <1>1, <1>4, <2>4 DEF IssuesInv, all, Only, Where
<1>9. QueueInv(call)' /\ WalkInv(call)'
  BY <1>1, <1>4 DEF QueueInv, WalkInv
<1>10. CursorInv(call)'
  BY <1>1, <1>4, <1>6, EmptyRows DEF CursorInv, Missed, Expected
<1>11. PartInv(call)'
  <2>1. SizeOf(a) \in Nat /\ SizeOf(a) > 0 /\ a.page - 1 \in Nat
    BY <1>2, ListConstants DEF SizeOf, ArgType
  <2>2. (a.page - 1) * SizeOf(a) \in Nat
    BY <2>1
  <2> QED
    BY <1>1, <1>4, <2>1, <2>2, EmptyRows DEF PartInv
<1>12. HalvesInv(call)'
  BY <1>1, <1>2, <1>4 DEF HalvesInv, Threads
<1>13. CallOK(call)'
  BY <1>1, <1>3, <1>7, <1>8, <1>9, <1>10, <1>11, <1>12 DEF CallOK
<1> QED
  BY <1>4, <1>5, <1>13 DEF ListingInv, CallInv, ResultInv

(* Others only take from what has been there all along, and move it toward *)
(* the front.                                                              *)
LEMMA OthersKeep ==
    ASSUME ListingInv, call # Idle,
           alone' = FALSE, UNCHANGED <<list, call, result>>,
           made' \in Nat, items' \in Seq(Item), Asc(items)', Len(items') <= made',
           \A n \in DOMAIN items' : /\ items'[n].id \in 1..made'
                                    /\ Mixed \/ items'[n].own
                                    /\ list \in Threads => items'[n].state = "open",
           steady' = steady \cap ToSet(items'),
           \A n \in DOMAIN items' : items'[n] \in steady =>
               \E m \in DOMAIN items : n <= m /\ items[m] = items'[n]
    PROVE  ListingInv'
<1>1. WorldInv'
  BY DEF WorldInv, ListingInv, Mixed
<1>2. CallOK(call) /\ result = NoResult
  BY DEF ListingInv, CallInv
<1> DEFINE c == call
<1>3. \A s, arg : Missed(s, arg)' \subseteq Missed(s, arg)
  BY DEF Missed, Expected
<1>4. AskedInv(call)' /\ call' \in CallType
  BY <1>2 DEF CallOK, AskedInv
<1>5. IssuesInv(call)'
  BY DEF IssuesInv
<1>6. QueueInv(call)'
  BY <1>2, <1>3 DEF CallOK, QueueInv, CutAt, FullAt, Missed, Expected
<1>7. CursorInv(call)'
  BY <1>2, <1>3 DEF CallOK, CursorInv, Missed, Expected
<1>8. PartInv(call)'
  BY <1>2 DEF CallOK, PartInv
<1>9. HalvesInv(call)'
  BY <1>2, <1>3 DEF CallOK, HalvesInv, Missed, Expected
<1>10. WalkInv(call)'
  <2> SUFFICES ASSUME call.pc = "walk"
               PROVE  WalkInv(call)'
    BY DEF WalkInv
  <2>1. /\ Len(call.rows) < call.arg.limit
        /\ \A i \in Missed(call.rows, call.arg) : Newer(call.rows, i)
        /\ \A n \in DOMAIN items :
             items[n] \in Missed(call.rows, call.arg) =>
               n <= call.page * SizeOf(call.arg)
    BY <1>2 DEF CallOK, WalkInv
  <2>2. call.page * SizeOf(call.arg) \in Nat
    BY <1>2, ListConstants DEF CallOK, CallType, ArgType, SizeOf
  <2>3. ASSUME NEW n \in DOMAIN items', items'[n] \in Missed(call.rows, call.arg)'
        PROVE  n <= call.page * SizeOf(call.arg)
    <3>1. items'[n] \in Missed(call.rows, call.arg) /\ items'[n] \in steady
      BY <2>3 DEF Missed, Expected
    <3>2. PICK m \in DOMAIN items : n <= m /\ items[m] = items'[n]
      BY <3>1
    <3>3. m <= call.page * SizeOf(call.arg)
      BY <2>1, <3>1, <3>2
    <3>4. m \in Nat /\ n \in Nat
      BY DEF ListingInv, WorldInv
    <3> QED
      BY <2>2, <3>2, <3>3, <3>4
  <2> QED
    BY <2>1, <2>3 DEF WalkInv, Missed, Expected
<1> QED
  BY <1>1, <1>2, <1>4, <1>5, <1>6, <1>7, <1>8, <1>9, <1>10
     DEF ListingInv, CallInv, CallOK, ResultInv

LEMMA MakeKeeps ==
    ASSUME ListingInv, Make
    PROVE  ListingInv'
<1>1. /\ call # Idle /\ alone' = FALSE /\ UNCHANGED <<list, call, result>>
      /\ made' = made + 1 /\ steady' = steady \cap ToSet(items')
  BY DEF Make, Other, Idle
<1>2. PICK i \in Items(made + 1) : items' = Append(items, i)
  BY DEF Make, Other
<1>3. /\ made \in Nat /\ items \in Seq(Item) /\ Asc(items) /\ Len(items) <= made
      /\ \A n \in DOMAIN items :
           /\ items[n].id \in 1..made
           /\ Mixed \/ items[n].own
           /\ list \in Threads => items[n].state = "open"
      /\ steady \subseteq ToSet(items)
  BY DEF ListingInv, WorldInv
<1>4. /\ i \in Item /\ i.id = made + 1
      /\ Mixed \/ i.own
      /\ list \in Threads => i.state = "open"
  BY <1>3, ItemOf
<1>5. Len(items) \in Nat /\ DOMAIN items = 1..Len(items)
  BY <1>3
<1>6. /\ items' \in Seq(Item) /\ Len(items') = Len(items) + 1
      /\ DOMAIN items' = 1..(Len(items) + 1)
      /\ \A n \in DOMAIN items : items'[n] = items[n]
      /\ items'[Len(items) + 1] = i
  BY <1>2, <1>3, <1>4, <1>5
<1>7. \A n \in DOMAIN items' : n \in DOMAIN items \/ n = Len(items) + 1
  BY <1>5, <1>6
<1>8. Asc(items)'
  <2> SUFFICES ASSUME NEW m \in DOMAIN items', NEW n \in DOMAIN items', m < n
               PROVE  items'[m].id < items'[n].id
    BY DEF Asc
  <2>1. m \in DOMAIN items /\ items'[m] = items[m] /\ items[m].id \in 1..made
    BY <1>3, <1>5, <1>6
  <2>2. CASE n \in DOMAIN items
    BY <1>3, <1>6, <2>1, <2>2 DEF Asc
  <2>3. CASE n = Len(items) + 1
    BY <1>3, <1>4, <1>6, <2>1, <2>3
  <2> QED
    BY <1>7, <2>2, <2>3
<1>9. \A n \in DOMAIN items' : /\ items'[n].id \in 1..made'
                               /\ Mixed \/ items'[n].own
                               /\ list \in Threads => items'[n].state = "open"
  BY <1>1, <1>3, <1>4, <1>6, <1>7
<1>10. ASSUME NEW n \in DOMAIN items', items'[n] \in steady
       PROVE  \E m \in DOMAIN items : n <= m /\ items[m] = items'[n]
  <2>1. PICK m \in DOMAIN items : items[m] = items'[n]
    BY <1>3, <1>10 DEF ToSet
  <2>2. items'[n].id <= made
    BY <1>3, <2>1
  <2>3. n \in DOMAIN items
    BY <1>3, <1>4, <1>6, <1>7, <2>2
  <2> QED
    BY <1>5, <1>6, <2>3
<1> QED
  <2>1. made' \in Nat /\ Len(items') <= made'
    BY <1>1, <1>3, <1>5, <1>6
  <2> QED
    BY <1>1, <1>6, <1>8, <1>9, <1>10, <2>1, OthersKeep

LEMMA RemoveRow ==
    ASSUME NEW s \in Seq(Item), NEW k \in DOMAIN s
    PROVE  LET t == RemoveAt(s, k)
           IN  /\ t \in Seq(Item) /\ Len(t) = Len(s) - 1
               /\ \A j \in 1..(Len(s) - 1) : t[j] = IF j < k THEN s[j] ELSE s[j + 1]
<1> DEFINE a == SubSeq(s, 1, k - 1)
           b == SubSeq(s, k + 1, Len(s))
<1>1. Len(s) \in Nat /\ k \in 1..Len(s)
  OBVIOUS
<1>2. a \in Seq(Item) /\ Len(a) = k - 1 /\ \A j \in 1..(k - 1) : a[j] = s[j]
  BY <1>1
<1>3. /\ b \in Seq(Item) /\ Len(b) = Len(s) - k
      /\ \A j \in 1..(Len(s) - k) : b[j] = s[k + j]
  BY <1>1
<1>4. RemoveAt(s, k) = a \o b
  BY DEF RemoveAt
<1> HIDE DEF a, b
<1>c. /\ a \o b \in Seq(Item) /\ Len(a \o b) = Len(a) + Len(b)
      /\ \A i \in 1..(Len(a) + Len(b)) :
            (a \o b)[i] = IF i <= Len(a) THEN a[i] ELSE b[i - Len(a)]
  <2>1. a \in Seq(Item) /\ b \in Seq(Item)
    BY <1>2, <1>3
  <2> QED
    BY <2>1, ConcatProperties
<1>5. a \o b \in Seq(Item) /\ Len(a \o b) = Len(s) - 1
  BY <1>1, <1>2, <1>3, <1>c
<1>6. \A j \in 1..(Len(s) - 1) : (a \o b)[j] = IF j < k THEN s[j] ELSE s[j + 1]
  <2> TAKE j \in 1..(Len(s) - 1)
  <2>1. /\ j < k => j \in 1..(k - 1)
        /\ ~(j < k) => j - (k - 1) \in 1..(Len(s) - k) /\ k + (j - (k - 1)) = j + 1
    BY <1>1
  <2>2. (a \o b)[j] = IF j <= Len(a) THEN a[j] ELSE b[j - Len(a)]
    <3>1. j \in 1..(Len(a) + Len(b))
      BY <1>1, <1>2, <1>3
    <3> QED
      BY <1>c, <3>1
  <2>3. CASE j < k
    BY <1>1, <1>2, <2>1, <2>2, <2>3
  <2>4. CASE ~(j < k)
    <3>1. j - (k - 1) \in 1..(Len(s) - k) /\ k + (j - (k - 1)) = j + 1
      BY <2>1, <2>4
    <3>2. b[j - (k - 1)] = s[j + 1]
      BY <1>3, <3>1
    <3>3. Len(a) = k - 1 /\ ~(j <= Len(a))
      BY <1>1, <1>2, <2>4
    <3> QED
      BY <2>2, <2>4, <3>2, <3>3
  <2> QED
    BY <2>3, <2>4
<1> QED
  BY <1>4, <1>5, <1>6

LEMMA DeleteKeeps ==
    ASSUME ListingInv, Delete
    PROVE  ListingInv'
<1>1. /\ call # Idle /\ alone' = FALSE /\ UNCHANGED <<list, call, result>>
      /\ made' = made /\ steady' = steady \cap ToSet(items')
  BY DEF Delete, Other, Idle
<1>2. PICK k \in DOMAIN items : items' = RemoveAt(items, k)
  BY DEF Delete, Other
<1>3. /\ made \in Nat /\ items \in Seq(Item) /\ Asc(items) /\ Len(items) <= made
      /\ \A n \in DOMAIN items :
           /\ items[n].id \in 1..made
           /\ Mixed \/ items[n].own
           /\ list \in Threads => items[n].state = "open"
  BY DEF ListingInv, WorldInv
<1>4. Len(items) \in Nat /\ DOMAIN items = 1..Len(items) /\ k \in 1..Len(items)
  BY <1>3
<1> DEFINE Was(n) == IF n < k THEN n ELSE n + 1
<1>5. /\ items' \in Seq(Item) /\ Len(items') = Len(items) - 1
      /\ DOMAIN items' = 1..(Len(items) - 1)
      /\ \A n \in DOMAIN items' : items'[n] = items[Was(n)]
  <2>1. /\ items' \in Seq(Item) /\ Len(items') = Len(items) - 1
        /\ \A n \in 1..(Len(items) - 1) :
             items'[n] = IF n < k THEN items[n] ELSE items[n + 1]
    BY <1>2, <1>3, RemoveRow
  <2>2. DOMAIN items' = 1..(Len(items) - 1)
    BY <2>1
  <2> QED
    BY <2>1, <2>2
<1>6. \A n \in DOMAIN items' : n \in Nat /\ Was(n) \in DOMAIN items /\ n <= Was(n)
  BY <1>4, <1>5
<1>7. \A m, n \in DOMAIN items' : m < n => Was(m) < Was(n)
  BY <1>4, <1>5
<1> HIDE DEF Was
<1>8. Asc(items)'
  BY <1>3, <1>5, <1>6, <1>7 DEF Asc
<1>9. \A n \in DOMAIN items' : /\ items'[n].id \in 1..made'
                               /\ Mixed \/ items'[n].own
                               /\ list \in Threads => items'[n].state = "open"
  BY <1>1, <1>3, <1>5, <1>6
<1>10. \A n \in DOMAIN items' : items'[n] \in steady =>
         \E m \in DOMAIN items : n <= m /\ items[m] = items'[n]
  BY <1>5, <1>6
<1>11. Len(items') <= made'
  BY <1>1, <1>3, <1>4, <1>5
<1> QED
  BY <1>1, <1>3, <1>5, <1>8, <1>9, <1>10, <1>11, OthersKeep

LEMMA MoveItemKeeps ==
    ASSUME ListingInv, Move
    PROVE  ListingInv'
<1>1. /\ call # Idle /\ alone' = FALSE /\ UNCHANGED <<list, call, result>>
      /\ made' = made /\ steady' = steady \cap ToSet(items') /\ list \notin Threads
  BY DEF Move, Other, Idle
<1>2. PICK k \in DOMAIN items, st \in States :
        items' = [items EXCEPT ![k].state = st]
  BY DEF Move, Other
<1>3. /\ made \in Nat /\ items \in Seq(Item) /\ Asc(items) /\ Len(items) <= made
      /\ \A n \in DOMAIN items : items[n].id \in 1..made /\ (Mixed \/ items[n].own)
      /\ steady \subseteq ToSet(items)
  BY DEF ListingInv, WorldInv
<1>4. \A n \in DOMAIN items : items[n] \in Item
  BY <1>3
<1>5. /\ DOMAIN items' = DOMAIN items
      /\ \A n \in DOMAIN items :
           items'[n] = IF n = k THEN [items[n] EXCEPT !.state = st] ELSE items[n]
  BY <1>2, <1>3
<1>6. \A n \in DOMAIN items : /\ items'[n] \in Item /\ items'[n].id = items[n].id
                              /\ items'[n].own = items[n].own
  BY <1>4, <1>5 DEF Item
<1>7. Len(items) \in Nat /\ DOMAIN items = 1..Len(items)
  BY <1>3
<1>8. items' \in Seq(Item) /\ Len(items') = Len(items)
  <2>1. items' = [n \in 1..Len(items) |->
                    IF n = k THEN [items[n] EXCEPT !.state = st] ELSE items[n]]
    BY <1>2, <1>3, <1>7
  <2>2. items' \in [1..Len(items) -> Item]
    BY <1>4, <1>6, <1>7, <2>1
  <2> QED
    BY <1>7, <2>2
<1>9. Asc(items)'
  BY <1>3, <1>5, <1>6 DEF Asc
<1>10. ASSUME NEW n \in DOMAIN items', items'[n] \in steady
       PROVE  \E m \in DOMAIN items : n <= m /\ items[m] = items'[n]
  <2>1. PICK m \in DOMAIN items : items[m] = items'[n]
    BY <1>3, <1>10 DEF ToSet
  <2>2. n \in DOMAIN items /\ items[m].id = items[n].id
    BY <1>5, <1>6, <2>1
  <2>3. m = n
    BY <1>3, <1>7, <2>2 DEF Asc
  <2> QED
    BY <1>7, <2>1, <2>3
<1>11. \A n \in DOMAIN items' : /\ items'[n].id \in 1..made'
                                /\ Mixed \/ items'[n].own
  BY <1>1, <1>3, <1>5, <1>6
<1> QED
  BY <1>1, <1>3, <1>8, <1>9, <1>10, <1>11, OthersKeep

-----------------------------------------------------------------------------
(* What every step of a listing reads.                                     *)

LEMMA CallFacts ==
    ASSUME ListingInv, call # Idle
    PROVE  /\ WorldInv /\ CallOK(call) /\ result = NoResult
           /\ call \in CallType /\ Arg \in ArgType
           /\ call.rows \in Seq(Item) /\ call.queue \in Seq(Item)
           /\ call.page \in Nat \ {0} /\ call.cursor \in Nat /\ call.seen \in Nat
           /\ Arg.limit \in Nat \ {0} /\ Arg.page \in Nat \ {0} /\ Arg.since \in Nat
           /\ Arg.filter \in Filters
           /\ Size = SizeOf(Arg) /\ Size \in Nat \ {0} /\ MaxPage \in Nat \ {0}
           /\ Size <= Arg.limit
           /\ items \in Seq(Item) /\ Asc(items)
           /\ steady \subseteq ToSet(items)
           /\ AskedInv(call)
<1>1. WorldInv /\ CallOK(call) /\ result = NoResult
  BY DEF ListingInv, CallInv
<1>2. call \in CallType /\ Arg \in ArgType /\ AskedInv(call)
  BY <1>1 DEF CallOK, CallType, Arg
<1>3. /\ call.rows \in Seq(Item) /\ call.queue \in Seq(Item)
      /\ call.page \in Nat \ {0} /\ call.cursor \in Nat /\ call.seen \in Nat
  BY <1>2 DEF CallType
<1>4. Arg.limit \in Nat \ {0} /\ Arg.page \in Nat \ {0} /\ Arg.since \in Nat
  BY <1>2 DEF ArgType
<1>5. Size = SizeOf(Arg) /\ Size \in Nat \ {0} /\ MaxPage \in Nat \ {0} /\ Size <= Arg.limit
  BY <1>4, ListConstants DEF Size, SizeOf
<1>6. Arg.filter \in Filters
  BY <1>2 DEF AskedInv, Arg
<1>7. items \in Seq(Item) /\ Asc(items) /\ steady \subseteq ToSet(items)
  BY <1>1 DEF WorldInv
<1> QED
  BY <1>1, <1>2, <1>3, <1>4, <1>5, <1>6, <1>7

LEMMA SameItem ==
    ASSUME items \in Seq(Item), Asc(items),
           NEW x \in ToSet(items), NEW y \in ToSet(items), x.id = y.id
    PROVE  x = y
<1>1. PICK m \in DOMAIN items : x = items[m]
  BY DEF ToSet
<1>2. PICK n \in DOMAIN items : y = items[n]
  BY DEF ToSet
<1>3. m \in Nat /\ n \in Nat /\ items[m] \in Item /\ items[n] \in Item
  OBVIOUS
<1>4. items[m].id \in Nat /\ items[n].id \in Nat
  BY <1>3 DEF Item
<1>5. m = n
  BY <1>1, <1>2, <1>3, <1>4 DEF Asc
<1> QED
  BY <1>1, <1>2, <1>5

LEMMA IdsOfSet == ASSUME NEW s PROVE Ids(s) = {x.id : x \in ToSet(s)}
BY DEF Ids, ToSet

LEMMA ElementsAreRows ==
    ASSUME NEW s \in Seq(Item)
    PROVE  \A x \in ToSet(s) : x \in Item /\ x.id \in Nat
<1>1. \A n \in DOMAIN s : s[n] \in Item
  OBVIOUS
<1> QED
  BY <1>1 DEF ToSet, Item

LEMMA NewerElements ==
    ASSUME NEW s, NEW i
    PROVE  Newer(s, i) <=> \A x \in ToSet(s) : x.id > i.id
BY DEF Newer, ToSet

LEMMA OlderElements ==
    ASSUME NEW s, NEW i
    PROVE  Older(s, i) <=> \A x \in ToSet(s) : x.id < i.id
BY DEF Older, ToSet

(* Rows in order have different ids.                                       *)
LEMMA OrderedApart ==
    ASSUME NEW s \in Seq(Item), Asc(s) \/ Desc(s)
    PROVE  \A m, n \in DOMAIN s : m # n => s[m].id # s[n].id
<1> TAKE m, n \in DOMAIN s
<1> HAVE m # n
<1>1. m \in Nat /\ n \in Nat /\ s[m] \in Item /\ s[n] \in Item
  OBVIOUS
<1>2. s[m].id \in Nat /\ s[n].id \in Nat
  BY <1>1 DEF Item
<1>3. m < n \/ n < m
  BY <1>1
<1> QED
  BY <1>2, <1>3 DEF Asc, Desc

(* Newest-first rows that miss only what comes after them.                 *)
LEMMA NewestPromise ==
    ASSUME NEW rows \in Seq(Item), Desc(rows), NEW more, NEW arg,
           arg.order = "desc", arg.since = 0 \/ list = "az_comments",
           \A i \in Missed(rows, arg) : Newer(rows, i),
           ~more => Missed(rows, arg) = {}, ~Unordered
    PROVE  Promised(rows, more, arg)
BY OrderedApart DEF Promised

(* The newest of what has one of some states, up to a limit.               *)
LEMMA FrontCut ==
    ASSUME items \in Seq(Item), Asc(items), steady \subseteq ToSet(items),
           NEW arg, NEW states, arg.filter \subseteq states, NEW n \in Nat
    PROVE  LET s == Take(Newest(Only(states)), n)
           IN  /\ s \in Seq(Item) /\ Desc(s) /\ Len(s) <= n
               /\ ToSet(s) \subseteq {x \in ToSet(items) : x.state \in states}
               /\ \A i \in Expected(arg) : i \notin ToSet(s) => Len(s) >= n /\ Newer(s, i)
<1> DEFINE all == Newest(Only(states))
           s == Take(all, n)
<1>1. /\ Only(states) \in Seq(Item) /\ Asc(Only(states))
      /\ ToSet(Only(states)) = {x \in ToSet(items) : x.state \in states}
  BY OnlyRows DEF Ordered
<1>2. /\ all \in Seq(Item) /\ Desc(all)
      /\ ToSet(all) = {x \in ToSet(items) : x.state \in states}
  BY <1>1, NewestRows
<1> HIDE DEF all
<1>3. /\ s \in Seq(Item) /\ Desc(s) /\ Len(s) <= n
      /\ ToSet(s) \subseteq ToSet(all)
      /\ \A x \in ToSet(all) : \/ x \in ToSet(s)
                               \/ /\ Len(s) = n /\ Len(all) > n
                                  /\ \A y \in ToSet(s) : y.id > x.id
  BY <1>2, TakeNewest
<1> HIDE DEF s
<1>4. \A i \in Expected(arg) : i \in ToSet(all)
  BY <1>2 DEF Expected, Wants
<1>5. \A i \in Expected(arg) : i \notin ToSet(s) => Len(s) >= n /\ Newer(s, i)
  BY <1>3, <1>4, NewerElements
<1> QED
  BY <1>2, <1>3, <1>5 DEF s, all

LEMMA CoarseCovers ==
    ASSUME NEW f \in Filters
    PROVE  f \subseteq Coarse(f)
BY DEF Filters, Coarse, Closed, States

LEMMA FirstPage ==
    ASSUME NEW s \in Seq(Item), NEW size \in Nat \ {0}
    PROVE  Page(s, 1, size) = Take(s, size)
<1>1. Len(s) \in Nat /\ (1 - 1) * size + 1 = 1 /\ 1 * size = size
  OBVIOUS
<1>2. Page(s, 1, size) = SubSeq(s, 1, IF size < Len(s) THEN size ELSE Len(s))
  BY <1>1 DEF Page
<1>3. SubSeq(s, 1, Len(s)) = s
  OBVIOUS
<1> QED
  BY <1>1, <1>2, <1>3 DEF Take

(* One cut, filtered afterwards: whether there is more is told by the cut. *)
LEMMA FittedCut ==
    ASSUME ListingInv, call # Idle, list \notin Threads, ~Unordered,
           NEW states, Arg.filter \subseteq states, NEW n \in Nat,
           NEW page, page = Take(Newest(Only(states)), n)
    PROVE  Promised(Fitting(page), Len(page) >= n, Arg)
<1>1. /\ items \in Seq(Item) /\ Asc(items) /\ steady \subseteq ToSet(items)
      /\ Arg.order = "desc" /\ Arg.since = 0 /\ Arg.page = 1
  BY CallFacts DEF AskedInv, Arg
<1>2. /\ page \in Seq(Item) /\ Desc(page) /\ Len(page) <= n
      /\ ToSet(page) \subseteq ToSet(items)
      /\ \A i \in Expected(Arg) : i \notin ToSet(page) => Len(page) >= n /\ Newer(page, i)
  BY <1>1, FrontCut
<1> DEFINE rows == Fitting(page)
<1>3. /\ rows \in Seq(Item) /\ Desc(rows)
      /\ ToSet(rows) = {x \in ToSet(page) : Fits(x)}
  BY <1>2, FittingRows DEF Ordered
<1> HIDE DEF rows
<1>4. \A i \in Missed(rows, Arg) : i \notin ToSet(page)
  BY <1>3, IdsOfSet DEF Missed, Expected, Wants, Fits
<1>5. \A i \in Missed(rows, Arg) : Len(page) >= n /\ Newer(rows, i)
  BY <1>2, <1>3, <1>4, NewerElements DEF Missed
<1> QED
  BY <1>1, <1>3, <1>5, NewestPromise DEF rows

LEMMA OnePageKeeps ==
    ASSUME ListingInv, OnePage
    PROVE  ListingInv'
<1>1. /\ call # Idle /\ list \notin Threads /\ list \notin {"gh_issues", "gl_pulls"}
      /\ ~Unordered
  BY DEF OnePage, At, Idle, Threads, Unordered
<1> DEFINE page == ServerPage(Only(Coarse(Arg.filter)))
<1>2. Step(Return(Fitting(page), FullPage(page)))
  BY DEF OnePage
<1>3. call.page = 1 /\ Arg.filter \subseteq Coarse(Arg.filter)
  BY <1>1, CallFacts, CoarseCovers DEF AskedInv, OnePage, At, Arg
<1>4. Newest(Only(Coarse(Arg.filter))) \in Seq(Item)
  BY <1>1, CallFacts, OnlyRows, NewestRows DEF Ordered
<1>5. page = Take(Newest(Only(Coarse(Arg.filter))), Size)
  BY <1>1, <1>3, <1>4, CallFacts, FirstPage DEF ServerPage
<1> HIDE DEF page
<1>6. Promised(Fitting(page), Len(page) >= Size, Arg)
  BY <1>1, <1>3, <1>5, CallFacts, FittedCut
<1> QED
  BY <1>1, <1>2, <1>6, CallFacts, ReturnKeeps DEF FullPage

LEMMA AzurePullsKeeps ==
    ASSUME ListingInv, AzurePulls
    PROVE  ListingInv'
<1>1. call # Idle /\ list \notin Threads /\ ~Unordered
  BY DEF AzurePulls, At, Idle, Threads, Unordered
<1> DEFINE states == IF Arg.filter = {"open"} THEN {"open"} ELSE States
           raw == Take(Newest(Only(states)), Arg.limit)
<1>2. Step(Return(Fitting(raw), Len(raw) >= Arg.limit))
  BY DEF AzurePulls
<1>3. Arg.filter \subseteq states
  BY <1>1, CallFacts DEF Filters, States, Closed
<1> HIDE DEF states
<1>4. Promised(Fitting(raw), Len(raw) >= Arg.limit, Arg)
  BY <1>1, <1>3, CallFacts, FittedCut
<1> QED
  BY <1>1, <1>2, <1>4, CallFacts, ReturnKeeps

-----------------------------------------------------------------------------
(* A queue of ids, each of which is then fetched.                          *)

LEMMA NoRowsYet ==
    ASSUME NEW q \in Seq(Item)
    PROVE  <<>> \o q = q /\ q \o <<>> = q
OBVIOUS

LEMMA QueuePromise ==
    ASSUME NEW rows \in Seq(Item), Desc(rows), NEW more, NEW arg, NEW n \in Nat,
           arg.order = "desc", arg.since = 0, ~Unordered,
           CutAt(rows, n, arg), ~more => Len(rows) < n
    PROVE  Promised(rows, more, arg)
<1>1. Len(rows) \in Nat
  OBVIOUS
<1>2. \A i \in Missed(rows, arg) : Newer(rows, i)
  BY DEF CutAt
<1>3. ~more => Missed(rows, arg) = {}
  BY <1>1 DEF CutAt
<1> QED
  BY <1>2, <1>3, NewestPromise

(* The queue begins as a cut of what is asked for, all of which is ours.   *)
LEMMA QueueCut ==
    ASSUME ListingInv, call # Idle, list \notin Threads,
           NEW states, Arg.filter \subseteq states, NEW n \in Nat,
           NEW q, q = Take(Newest(Only(states)), n)
    PROVE  q \in Seq(Item) /\ Desc(q) /\ Len(q) <= n /\ CutAt(q, n, Arg)
<1>1. items \in Seq(Item) /\ Asc(items) /\ steady \subseteq ToSet(items)
  BY CallFacts
<1>2. /\ q \in Seq(Item) /\ Desc(q) /\ Len(q) <= n
      /\ \A i \in Expected(Arg) : i \notin ToSet(q) => Len(q) >= n /\ Newer(q, i)
  BY <1>1, FrontCut
<1>3. \A i \in Missed(q, Arg) : i \in Expected(Arg) /\ i \notin ToSet(q)
  BY IdsOfSet DEF Missed
<1> QED
  BY <1>2, <1>3 DEF CutAt

LEMMA WorkItemIdsKeeps ==
    ASSUME ListingInv, WorkItemIds
    PROVE  ListingInv'
<1>1. call # Idle /\ list = "az_items" /\ list \notin Threads /\ call.pc = "start"
  BY DEF WorkItemIds, At, Idle, Threads
<1> DEFINE ids == Take(Newest(Only(Arg.filter)), Arg.limit)
           new == [call EXCEPT !.pc = "batch", !.queue = ids]
<1>2. /\ ids = <<>> => Step(Return(<<>>, FALSE))
      /\ ids # <<>> => Step(Goto(new))
  BY DEF WorkItemIds, Step
<1>3. ids \in Seq(Item) /\ Desc(ids) /\ Len(ids) <= Arg.limit /\ CutAt(ids, Arg.limit, Arg)
  BY <1>1, CallFacts, QueueCut
<1> HIDE DEF ids
<1>4. Arg.order = "desc" /\ Arg.since = 0 /\ call.rows = <<>>
  BY <1>1, CallFacts DEF AskedInv, Arg, CallOK, QueueInv
<1>5. CASE ids = <<>>
  <2>1. Promised(<<>>, FALSE, Arg)
    <3>1. Arg.limit \in Nat /\ (~FALSE => Len(<<>>) < Arg.limit)
      BY <1>1, CallFacts, EmptyRows
    <3> QED
      BY <1>1, <1>3, <1>4, <1>5, <3>1, QueuePromise DEF Unordered
  <2> QED
    BY <1>1, <1>2, <1>5, <2>1, CallFacts, ReturnKeeps
<1>6. CASE ids # <<>>
  <2>1. /\ new \in CallType /\ new.pc = "batch" /\ new.queue = ids
        /\ new.rows = <<>> /\ new.arg = Arg
    BY <1>1, <1>3, <1>4, CallFacts DEF CallType, Arg
  <2> HIDE DEF new
  <2>2. AskedInv(new)
    BY <1>1, <2>1, CallFacts DEF AskedInv, Arg
  <2>3. QueueInv(new)
    BY <1>3, <1>1, <2>1, NoRowsYet DEF QueueInv
  <2>4. CallOK(new)
    BY <1>1, <2>1, <2>2, <2>3
       DEF CallOK, IssuesInv, CursorInv, PartInv, HalvesInv, WalkInv
  <2> QED
    BY <1>1, <1>2, <1>6, <2>4, CallFacts, GotoKeeps
<1> QED
  BY <1>5, <1>6

LEMMA ConcatRows ==
    ASSUME NEW a \in Seq(Item), NEW b \in Seq(Item)
    PROVE  LET c == a \o b
           IN  /\ c \in Seq(Item) /\ Len(c) = Len(a) + Len(b)
               /\ \A k \in 1..Len(a) : c[k] = a[k]
               /\ \A k \in 1..Len(b) : c[Len(a) + k] = b[k]
               /\ \A k \in DOMAIN c : \/ k \in 1..Len(a)
                                      \/ \E j \in 1..Len(b) : k = Len(a) + j
               /\ ToSet(c) = ToSet(a) \cup ToSet(b)
<1> DEFINE c == a \o b
<1>1. /\ Len(a) \in Nat /\ Len(b) \in Nat
      /\ DOMAIN a = 1..Len(a) /\ DOMAIN b = 1..Len(b)
  OBVIOUS
<1>2. /\ c \in Seq(Item) /\ Len(c) = Len(a) + Len(b) /\ DOMAIN c = 1..(Len(a) + Len(b))
  BY <1>1
<1>3. \A k \in 1..Len(a) : c[k] = a[k]
  BY <1>1
<1>4. \A k \in 1..Len(b) : c[Len(a) + k] = b[k]
  BY <1>1
<1> HIDE DEF c
<1>5. ASSUME NEW k \in DOMAIN c
      PROVE  k \in 1..Len(a) \/ \E j \in 1..Len(b) : k = Len(a) + j
  <2>1. k \in 1..Len(a) \/ (k - Len(a) \in 1..Len(b) /\ k = Len(a) + (k - Len(a)))
    BY <1>1, <1>2
  <2> QED
    BY <2>1
<1>6. (\A k \in 1..Len(a) : k \in DOMAIN c) /\ (\A k \in 1..Len(b) : Len(a) + k \in DOMAIN c)
  BY <1>1, <1>2
<1>7. ToSet(c) = ToSet(a) \cup ToSet(b)
  <2>1. ASSUME NEW k \in DOMAIN c
        PROVE  \/ \E n \in DOMAIN a : c[k] = a[n]
               \/ \E n \in DOMAIN b : c[k] = b[n]
    BY <1>1, <1>3, <1>4, <1>5
  <2>2. \A n \in DOMAIN a : \E k \in DOMAIN c : c[k] = a[n]
    BY <1>1, <1>3, <1>6
  <2>3. \A n \in DOMAIN b : \E k \in DOMAIN c : c[k] = b[n]
    BY <1>1, <1>4, <1>6
  <2>4. ToSet(c) \subseteq ToSet(a) \cup ToSet(b)
    BY <2>1 DEF ToSet
  <2>5. ToSet(a) \subseteq ToSet(c)
    BY <2>2 DEF ToSet
  <2>6. ToSet(b) \subseteq ToSet(c)
    BY <2>3 DEF ToSet
  <2> QED
    BY <2>4, <2>5, <2>6
<1> QED
  BY <1>2, <1>3, <1>4, <1>5, <1>7 DEF c

(* got is what was fetched of the front of the queue, rest the other ids.  *)
Fetched(got, q, n, rest) ==
    /\ Len(got) = IF Len(q) > n THEN n ELSE Len(q)
    /\ \A k \in DOMAIN got : got[k].id = q[k].id
    /\ rest = SubSeq(q, n + 1, Len(q))

(* The same ids in the same places.                                        *)
SamePlaces(a, b) == /\ a \in Seq(Item) /\ b \in Seq(Item) /\ Len(a) = Len(b)
                    /\ \A k \in DOMAIN a : b[k].id = a[k].id

(* Fetching the front of the queue leaves the ids in their places.         *)
LEMMA FetchedIds ==
    ASSUME NEW rows \in Seq(Item), NEW q \in Seq(Item), NEW n \in Nat,
           NEW got \in Seq(Item), NEW rest, Fetched(got, q, n, rest)
    PROVE  /\ rest \in Seq(Item) /\ rows \o got \in Seq(Item)
           /\ Len(rows \o got) + Len(rest) = Len(rows) + Len(q)
           /\ SamePlaces(rows \o q, (rows \o got) \o rest)
<1> DEFINE L == Len(q)
           R == Len(rows)
           G == Len(got)
           a == rows \o q
           c == rows \o got
           b == c \o rest
<1>0. /\ G = IF L > n THEN n ELSE L
      /\ \A k \in DOMAIN got : got[k].id = q[k].id
      /\ rest = SubSeq(q, n + 1, L)
  BY DEF Fetched
<1>1. L \in Nat /\ R \in Nat /\ G \in Nat /\ G <= L /\ n \in Nat /\ DOMAIN got = 1..G
  BY <1>0
<1>2. rest \in Seq(Item) /\ Len(rest) = L - G
      /\ \A k \in 1..(L - G) : rest[k] = q[k + G]
  <2>1. CASE L > n
    BY <1>0, <1>1, <2>1
  <2>2. CASE ~(L > n)
    BY <1>0, <1>1, <2>2
  <2> QED
    BY <2>1, <2>2
<1>3. /\ a \in Seq(Item) /\ Len(a) = R + L
      /\ \A k \in 1..R : a[k] = rows[k]
      /\ \A k \in 1..L : a[R + k] = q[k]
      /\ \A k \in DOMAIN a : k \in 1..R \/ \E j \in 1..L : k = R + j
  BY ConcatRows
<1>4. /\ c \in Seq(Item) /\ Len(c) = R + G
      /\ \A k \in 1..R : c[k] = rows[k]
      /\ \A k \in 1..G : c[R + k] = got[k]
  BY ConcatRows
<1> HIDE DEF c
<1>5. /\ b \in Seq(Item) /\ Len(b) = Len(c) + Len(rest)
      /\ \A k \in 1..Len(c) : b[k] = c[k]
      /\ \A k \in 1..Len(rest) : b[Len(c) + k] = rest[k]
  BY <1>2, <1>4, ConcatRows
<1> HIDE DEF a, b, L, R, G
<1>6. Len(b) = R + L
  BY <1>1, <1>2, <1>4, <1>5
<1>7. \A k \in 1..R : b[k] = a[k]
  <2> TAKE k \in 1..R
  <2>1. k \in 1..Len(c)
    BY <1>1, <1>4
  <2> QED
    BY <1>3, <1>4, <1>5, <2>1
<1>8. ASSUME NEW j \in 1..L
      PROVE  b[R + j].id = a[R + j].id
  <2>1. CASE j <= G
    <3>1. j \in 1..G /\ R + j \in 1..Len(c)
      BY <1>1, <1>4, <2>1
    <3>2. b[R + j] = got[j] /\ a[R + j] = q[j]
      BY <1>3, <1>4, <1>5, <3>1
    <3> QED
      BY <1>0, <1>1, <3>1, <3>2
  <2>2. CASE j > G
    <3>1. j - G \in 1..Len(rest) /\ Len(c) + (j - G) = R + j /\ (j - G) + G = j
      BY <1>1, <1>2, <1>4, <2>2
    <3>2. b[R + j] = rest[j - G]
      BY <1>5, <3>1
    <3>3. rest[j - G] = q[j]
      BY <1>2, <3>1
    <3> QED
      BY <1>3, <3>2, <3>3
  <2> QED
    BY <1>1, <2>1, <2>2
<1>9. \A k \in DOMAIN a : b[k].id = a[k].id
  BY <1>3, <1>7, <1>8
<1>10. Len(c) + Len(rest) = R + L
  <2>1. Len(c) = R + G /\ Len(rest) = L - G
    BY <1>2, <1>4
  <2> QED
    BY <1>1, <2>1
<1> QED
  <2>1. SamePlaces(a, b)
    BY <1>3, <1>5, <1>6, <1>9 DEF SamePlaces
  <2> QED
    BY <1>2, <1>4, <1>10, <2>1 DEF a, b, c, L, R

LEMMA SameIds ==
    ASSUME NEW a, NEW b, SamePlaces(a, b), Desc(a), NEW n, NEW arg, CutAt(a, n, arg)
    PROVE  Desc(b) /\ CutAt(b, n, arg)
<1>1. /\ DOMAIN a = DOMAIN b /\ Len(a) = Len(b)
      /\ \A k \in DOMAIN a : b[k].id = a[k].id
  BY DEF SamePlaces
<1>2. Desc(b)
  BY <1>1 DEF Desc
<1>3. Ids(a) = Ids(b)
  BY <1>1 DEF Ids
<1>4. Missed(a, arg) = Missed(b, arg)
  BY <1>3 DEF Missed
<1>5. \A i : Newer(a, i) => Newer(b, i)
  BY <1>1 DEF Newer
<1> QED
  BY <1>1, <1>2, <1>4, <1>5 DEF CutAt

LEMMA SameApart ==
    ASSUME NEW a, NEW b, SamePlaces(a, b), Apart(a), NEW n, NEW arg, FullAt(a, n, arg)
    PROVE  Apart(b) /\ FullAt(b, n, arg)
<1>1. /\ DOMAIN a = DOMAIN b /\ Len(a) = Len(b)
      /\ \A k \in DOMAIN a : b[k].id = a[k].id
  BY DEF SamePlaces
<1>2. Apart(b)
  BY <1>1 DEF Apart
<1>3. Ids(a) = Ids(b)
  BY <1>1 DEF Ids
<1>4. Missed(a, arg) = Missed(b, arg)
  BY <1>3 DEF Missed
<1> QED
  BY <1>1, <1>2, <1>4 DEF FullAt

LEMMA LookupRow ==
    ASSUME items \in Seq(Item), NEW id, NEW i \in Lookup(id)
    PROVE  i \in Item /\ i.id = id
BY DEF Lookup

LEMMA WorkItemBatchKeeps ==
    ASSUME ListingInv, WorkItemBatch
    PROVE  ListingInv'
<1>1. call # Idle /\ list = "az_items" /\ call.pc = "batch"
  BY DEF WorkItemBatch, At, Idle
<1> DEFINE chunk == Take(call.queue, MaxPage)
           rest == SubSeq(call.queue, MaxPage + 1, Len(call.queue))
           now  == [n \in DOMAIN chunk |-> Lookup(chunk[n].id)]
           got  == [n \in DOMAIN now |-> CHOOSE i \in now[n] : TRUE]
           rows == call.rows \o got
           new  == [call EXCEPT !.queue = rest, !.rows = rows]
           found == \A n \in DOMAIN now : now[n] # {}
<1>2. /\ ~found => Step(Raise)
      /\ found /\ rest = <<>> => Step(Return(rows, Len(rows) >= Arg.limit))
      /\ found /\ rest # <<>> => Step(Goto(new))
  BY DEF WorkItemBatch, Step
<1>3. CASE ~found
  BY <1>1, <1>2, <1>3, CallFacts, RaiseKeeps
<1>4. CASE found
  <2>1. /\ chunk \in Seq(Item)
        /\ Len(chunk) = IF Len(call.queue) > MaxPage THEN MaxPage ELSE Len(call.queue)
        /\ \A n \in DOMAIN chunk : chunk[n] = call.queue[n]
    BY <1>1, CallFacts, TakeRows DEF Ordered
  <2> HIDE DEF chunk
  <2>2. DOMAIN now = DOMAIN chunk /\ DOMAIN got = DOMAIN chunk
    OBVIOUS
  <2>3. \A n \in DOMAIN chunk : got[n] \in Lookup(chunk[n].id)
    BY <1>4
  <2>4. items \in Seq(Item)
    BY <1>1, CallFacts
  <2>5. \A n \in DOMAIN chunk : got[n] \in Item /\ got[n].id = chunk[n].id
    BY <2>3, <2>4, LookupRow
  <2>6. got = [n \in 1..Len(chunk) |-> got[n]]
    BY <2>1, <2>2
  <2> HIDE DEF got
  <2>7. got \in Seq(Item) /\ Len(got) = Len(chunk)
    <3>1. Len(chunk) \in Nat /\ DOMAIN chunk = 1..Len(chunk)
      BY <2>1
    <3> QED
      BY <2>5, <2>6, <3>1
  <2>8. \A n \in DOMAIN got : got[n].id = call.queue[n].id
    BY <2>1, <2>2, <2>5
  <2>9. /\ Len(call.rows) + Len(call.queue) <= Arg.limit
        /\ Desc(call.rows \o call.queue)
        /\ CutAt(call.rows \o call.queue, Arg.limit, Arg)
    BY <1>1, CallFacts DEF CallOK, QueueInv, Arg
  <2>10. /\ rest \in Seq(Item) /\ rows \in Seq(Item) /\ rows \o rest \in Seq(Item)
         /\ Len(rows) + Len(rest) = Len(call.rows) + Len(call.queue)
         /\ Desc(rows \o rest) /\ CutAt(rows \o rest, Arg.limit, Arg)
    <3>1. /\ call.rows \in Seq(Item) /\ call.queue \in Seq(Item) /\ MaxPage \in Nat
      BY <1>1, CallFacts
    <3> DEFINE a == call.rows \o call.queue
               b == rows \o rest
    <3>2. /\ rest \in Seq(Item) /\ rows \in Seq(Item)
          /\ Len(rows) + Len(rest) = Len(call.rows) + Len(call.queue)
          /\ SamePlaces(a, b)
      <4>1. Fetched(got, call.queue, MaxPage, rest)
        BY <2>1, <2>7, <2>8 DEF Fetched
      <4> HIDE DEF rest
      <4> QED
        BY <2>7, <3>1, <4>1, FetchedIds
    <3> HIDE DEF a, b, rest, rows
    <3>3. Desc(a) /\ CutAt(a, Arg.limit, Arg)
      BY <2>9 DEF a
    <3>4. Desc(b) /\ CutAt(b, Arg.limit, Arg)
      BY <3>2, <3>3, SameIds
    <3> QED
      BY <3>2, <3>4 DEF b, SamePlaces
  <2> HIDE DEF rest, rows
  <2>11. CASE rest = <<>>
    <3>1. Desc(rows) /\ CutAt(rows, Arg.limit, Arg)
      BY <2>10, <2>11, NoRowsYet
    <3>2. Arg.order = "desc" /\ Arg.since = 0 /\ Arg.limit \in Nat
      BY <1>1, CallFacts DEF AskedInv, Arg, Threads
    <3>3. Promised(rows, Len(rows) >= Arg.limit, Arg)
      <4>1. ~(Len(rows) >= Arg.limit) => Len(rows) < Arg.limit
        BY <2>10, <3>2
      <4> QED
        BY <1>1, <2>10, <3>1, <3>2, <4>1, QueuePromise DEF Unordered
    <3> QED
      BY <1>1, <1>2, <1>4, <2>11, <3>3, CallFacts, ReturnKeeps
  <2>12. CASE rest # <<>>
    <3>1. /\ new \in CallType /\ new.pc = "batch" /\ new.queue = rest
          /\ new.rows = rows /\ new.arg = Arg
      BY <1>1, <2>10, CallFacts DEF CallType, Arg
    <3> HIDE DEF new
    <3>2. AskedInv(new)
      BY <1>1, <3>1, CallFacts DEF AskedInv, Arg
    <3>3. QueueInv(new)
      BY <2>9, <2>10, <3>1 DEF QueueInv
    <3>4. CallOK(new)
      BY <1>1, <3>1, <3>2, <3>3
         DEF CallOK, IssuesInv, CursorInv, PartInv, HalvesInv, WalkInv
    <3> QED
      BY <1>1, <1>2, <1>4, <2>12, <3>4, CallFacts, GotoKeeps
  <2> QED
    BY <2>11, <2>12
<1> QED
  BY <1>3, <1>4

(* The stubs are as many as fit of what is asked for, none of them twice.  *)
LEMMA StubsFound ==
    ASSUME ListingInv, call # Idle, NEW found, found = Only(Coarse(Arg.filter)),
           Arg.filter \in Filters, NEW stubs \in BestMatches(found)
    PROVE  /\ stubs \in Seq(Item) /\ Len(stubs) <= Size /\ Apart(stubs)
           /\ FullAt(stubs, Size, Arg)
<1>1. items \in Seq(Item) /\ Asc(items) /\ steady \subseteq ToSet(items) /\ Size \in Nat
  BY CallFacts
<1>2. /\ found \in Seq(Item) /\ Asc(found)
      /\ ToSet(found) = {x \in ToSet(items) : x.state \in Coarse(Arg.filter)}
  BY <1>1, OnlyRows DEF Ordered
<1> DEFINE size == IF Len(found) > Size THEN Size ELSE Len(found)
<1>3. PICK place \in Injection(1..size, DOMAIN found) :
        stubs = [n \in 1..size |-> found[place[n]]]
  BY Zenon DEF BestMatches
<1>4. Len(found) \in Nat /\ DOMAIN found = 1..Len(found)
  BY <1>2
<1>5. size \in Nat /\ size <= Size /\ size <= Len(found)
  BY <1>1, <1>4
<1>6. /\ place \in [1..size -> DOMAIN found]
      /\ \A m, n \in 1..size : place[m] = place[n] => m = n
  BY <1>3 DEF Injection, IsInjective
<1>7. \A n \in 1..size : found[place[n]] \in Item
  BY <1>2, <1>6
<1>8. size < Size => size = Len(found)
  BY <1>1, <1>4
<1> HIDE DEF size
<1>9. /\ stubs \in Seq(Item) /\ Len(stubs) = size /\ DOMAIN stubs = 1..size
      /\ \A n \in 1..size : stubs[n] = found[place[n]]
  BY <1>3, <1>5, <1>7
<1>10. Apart(stubs)
  <2>1. \A m, n \in DOMAIN found : m # n => found[m].id # found[n].id
    BY <1>2, OrderedApart
  <2> QED
    BY <1>6, <1>9, <2>1 DEF Apart
<1>11. FullAt(stubs, Size, Arg)
  <2> SUFFICES ASSUME size < Size, NEW i \in Missed(stubs, Arg)
               PROVE  FALSE
    BY <1>1, <1>5, <1>9 DEF FullAt
  <2>1. i \in ToSet(found)
    <3>1. i \in ToSet(items) /\ i.state \in Arg.filter
      BY <1>1 DEF Missed, Expected, Wants
    <3> QED
      BY <1>2, <3>1, CoarseCovers
  <2>2. PICK k \in 1..Len(found) : found[k] = i
    BY <1>4, <2>1 DEF ToSet
  <2>3. \E n \in 1..size : place[n] = k
    <3>1. size = Len(found) /\ place \in Injection(1..size, 1..size)
      BY <1>3, <1>4, <1>8
    <3>2. IsFiniteSet(1..size)
      BY <1>5, FS_Interval
    <3>3. place \in Surjection(1..size, 1..size)
      BY <3>1, <3>2, FS_Injection
    <3> QED
      BY <2>2, <3>1, <3>3 DEF Surjection
  <2>4. \E n \in DOMAIN stubs : stubs[n].id = i.id
    BY <1>9, <2>2, <2>3
  <2> QED
    BY <2>4 DEF Missed, Ids
<1> QED
  BY <1>1, <1>5, <1>9, <1>10, <1>11

LEMMA PullStubsKeeps ==
    ASSUME ListingInv, PullStubs
    PROVE  ListingInv'
<1>1. call # Idle /\ list = "gh_pull_search" /\ list \notin Threads /\ call.pc = "start"
  BY DEF PullStubs, At, Idle, Threads
<1>2. PICK stubs \in BestMatches(Only(Coarse(Arg.filter))) :
        Step(Goto([call EXCEPT !.pc = "fetch", !.queue = stubs]))
  BY DEF PullStubs
<1> DEFINE new == [call EXCEPT !.pc = "fetch", !.queue = stubs]
<1>3. Arg.filter \in Filters
  BY <1>1, CallFacts DEF AskedInv, Arg
<1>4. /\ stubs \in Seq(Item) /\ Len(stubs) <= Size /\ Apart(stubs)
      /\ FullAt(stubs, Size, Arg)
  BY <1>1, <1>3, StubsFound
<1>5. call.rows = <<>> /\ Size = SizeOf(Arg)
  BY <1>1, CallFacts DEF CallOK, QueueInv
<1>6. /\ new \in CallType /\ new.pc = "fetch" /\ new.queue = stubs
      /\ new.rows = <<>> /\ new.arg = Arg
  BY <1>1, <1>4, <1>5, CallFacts DEF CallType, Arg
<1> HIDE DEF new
<1>7. AskedInv(new)
  BY <1>1, <1>6, CallFacts DEF AskedInv, Arg
<1>8. QueueInv(new)
  BY <1>4, <1>5, <1>6, NoRowsYet DEF QueueInv
<1>9. CallOK(new)
  BY <1>1, <1>6, <1>7, <1>8
     DEF CallOK, IssuesInv, CursorInv, PartInv, HalvesInv, WalkInv
<1> QED
  BY <1>1, <1>2, <1>9, CallFacts, GotoKeeps DEF new

(* One pull request is fetched: the head of the queue.                     *)
LEMMA HeadFetched ==
    ASSUME NEW q \in Seq(Item), q # <<>>, NEW i \in Item, i.id = Head(q).id
    PROVE  <<i>> \in Seq(Item) /\ Fetched(<<i>>, q, 1, Tail(q))
<1>1. Len(q) \in Nat /\ Len(q) >= 1 /\ Head(q) = q[1]
  OBVIOUS
<1>2. Tail(q) = SubSeq(q, 1 + 1, Len(q))
  OBVIOUS
<1>3. Len(<<i>>) = 1 /\ DOMAIN <<i>> = {1} /\ <<i>>[1] = i
  OBVIOUS
<1>4. Len(<<i>>) = IF Len(q) > 1 THEN 1 ELSE Len(q)
  <2> DEFINE n == Len(q)
  <2>2. n \in Nat /\ n >= 1
    BY <1>1
  <2> HIDE DEF n
  <2>3. n > 1 \/ n = 1
    BY <2>2
  <2>1. Len(q) > 1 \/ Len(q) = 1
    BY <2>3 DEF n
  <2> QED
    BY <1>3, <2>1
<1> QED
  BY <1>1, <1>2, <1>3, <1>4 DEF Fetched

LEMMA PullFetchKeeps ==
    ASSUME ListingInv, PullFetch
    PROVE  ListingInv'
<1>1. call # Idle /\ list = "gh_pull_search" /\ list \notin Threads /\ call.pc = "fetch"
  <2>1. At({"gh_pull_search"}, "fetch")
    BY DEF PullFetch
  <2> QED
    BY <2>1 DEF At, Idle, Threads
<1>2. /\ call.rows \in Seq(Item) /\ call.queue \in Seq(Item) /\ Size \in Nat
      /\ Arg.order = "desc" /\ Arg.since = 0
  BY <1>1, CallFacts DEF AskedInv, Arg
<1>3. /\ Len(call.rows) + Len(call.queue) <= Size
      /\ Apart(call.rows \o call.queue)
      /\ FullAt(call.rows \o call.queue, Size, Arg)
  BY <1>1, CallFacts DEF CallOK, QueueInv, Arg
<1>4. CASE call.queue = <<>>
  <2>1. Step(Return(call.rows, Len(call.rows) >= Size))
    BY <1>4 DEF PullFetch, Step
  <2>2. Apart(call.rows) /\ FullAt(call.rows, Size, Arg)
    BY <1>2, <1>3, <1>4, NoRowsYet
  <2>3. ~(Len(call.rows) >= Size) => Len(call.rows) < Size
    BY <1>2
  <2>4. Promised(call.rows, Len(call.rows) >= Size, Arg)
    BY <1>1, <1>2, <2>2, <2>3
       DEF Promised, Unordered, Uncounted, Apart, FullAt, Size, SizeOf
  <2> QED
    BY <1>1, <2>1, <2>4, CallFacts, ReturnKeeps
<1>5. CASE call.queue # <<>>
  <2>1. PICK i \in Lookup(Head(call.queue).id) :
          Step(Goto([call EXCEPT !.queue = Tail(@), !.rows = Append(@, i)]))
    BY <1>5 DEF PullFetch, Step, Goto
  <2>2. i \in Item /\ i.id = Head(call.queue).id
    BY <1>1, CallFacts, LookupRow
  <2> DEFINE rest == Tail(call.queue)
             rows == call.rows \o <<i>>
             new  == [call EXCEPT !.queue = rest, !.rows = rows]
  <2>3. <<i>> \in Seq(Item) /\ Fetched(<<i>>, call.queue, 1, rest)
    BY <1>2, <1>5, <2>2, HeadFetched
  <2>4. Append(call.rows, i) = rows
    BY <1>2, <2>2, AppendIsConcat
  <2>5. Step(Goto(new))
    BY <2>1, <2>4
  <2> HIDE DEF rest
  <2>6. /\ rest \in Seq(Item) /\ rows \in Seq(Item)
        /\ Len(rows) + Len(rest) = Len(call.rows) + Len(call.queue)
        /\ SamePlaces(call.rows \o call.queue, rows \o rest)
    <3>1. 1 \in Nat
      OBVIOUS
    <3> QED
      BY <1>2, <2>3, <3>1, FetchedIds
  <2> HIDE DEF rows
  <2>7. Apart(rows \o rest) /\ FullAt(rows \o rest, Size, Arg)
    BY <1>3, <2>6, SameApart
  <2>8. /\ new \in CallType /\ new.pc = "fetch" /\ new.queue = rest
        /\ new.rows = rows /\ new.arg = Arg /\ Size = SizeOf(Arg)
    BY <1>1, <2>6, CallFacts DEF CallType, Arg
  <2> HIDE DEF new
  <2>9. AskedInv(new)
    BY <1>1, <2>8, CallFacts DEF AskedInv, Arg
  <2>10. QueueInv(new)
    BY <1>3, <2>6, <2>7, <2>8 DEF QueueInv
  <2>11. CallOK(new)
    BY <1>1, <2>8, <2>9, <2>10
       DEF CallOK, IssuesInv, CursorInv, PartInv, HalvesInv, WalkInv
  <2> QED
    BY <1>1, <2>5, <2>11, CallFacts, GotoKeeps
<1> QED
  BY <1>4, <1>5

-----------------------------------------------------------------------------
(* Reading by cursor.                                                      *)

LEMMA ConcatOrder ==
    ASSUME NEW a \in Seq(Item), NEW b \in Seq(Item)
    PROVE  /\ /\ Asc(a) /\ Asc(b) /\ \A x \in ToSet(a), y \in ToSet(b) : x.id < y.id
              => Asc(a \o b)
           /\ /\ Desc(a) /\ Desc(b) /\ \A x \in ToSet(a), y \in ToSet(b) : x.id > y.id
              => Desc(a \o b)
<1> DEFINE c == a \o b
           A == Len(a)
           B == Len(b)
<1>1. A \in Nat /\ B \in Nat /\ DOMAIN a = 1..A /\ DOMAIN b = 1..B
  OBVIOUS
<1>2. /\ c \in Seq(Item) /\ Len(c) = A + B
      /\ \A k \in 1..A : c[k] = a[k]
      /\ \A k \in 1..B : c[A + k] = b[k]
      /\ \A k \in DOMAIN c : k \in 1..A \/ \E j \in 1..B : k = A + j
  BY ConcatRows
<1>3. (\A k \in 1..A : a[k] \in ToSet(a)) /\ (\A k \in 1..B : b[k] \in ToSet(b))
  BY <1>1 DEF ToSet
<1> HIDE DEF A, B, c
<1>4. ASSUME NEW m \in DOMAIN c, NEW n \in DOMAIN c, m < n
      PROVE  \/ m \in 1..A /\ n \in 1..A /\ c[m] = a[m] /\ c[n] = a[n]
             \/ \E i, j \in 1..B : i < j /\ c[m] = b[i] /\ c[n] = b[j]
             \/ c[m] \in ToSet(a) /\ c[n] \in ToSet(b)
  <2>1. CASE m \in 1..A /\ n \in 1..A
    BY <1>2, <2>1
  <2>2. CASE m \in 1..A /\ n \notin 1..A
    <3>1. PICK j \in 1..B : n = A + j
      BY <1>2, <2>2
    <3> QED
      BY <1>2, <1>3, <2>2, <3>1
  <2>3. CASE m \notin 1..A
    <3>1. PICK i \in 1..B : m = A + i
      BY <1>2, <2>3
    <3>2. n \notin 1..A
      BY <1>1, <1>4, <3>1
    <3>3. PICK j \in 1..B : n = A + j
      BY <1>2, <3>2
    <3>4. i < j
      BY <1>1, <1>4, <3>1, <3>3
    <3> QED
      BY <1>2, <3>1, <3>3, <3>4
  <2> QED
    BY <2>1, <2>2, <2>3
<1>5. /\ Asc(a) /\ Asc(b) /\ \A x \in ToSet(a), y \in ToSet(b) : x.id < y.id
      => Asc(c)
  <2> SUFFICES ASSUME Asc(a), Asc(b), \A x \in ToSet(a), y \in ToSet(b) : x.id < y.id,
                      NEW m \in DOMAIN c, NEW n \in DOMAIN c, m < n
               PROVE  c[m].id < c[n].id
    BY DEF Asc
  <2> QED
    BY <1>1, <1>4 DEF Asc
<1>6. /\ Desc(a) /\ Desc(b) /\ \A x \in ToSet(a), y \in ToSet(b) : x.id > y.id
      => Desc(c)
  <2> SUFFICES ASSUME Desc(a), Desc(b), \A x \in ToSet(a), y \in ToSet(b) : x.id > y.id,
                      NEW m \in DOMAIN c, NEW n \in DOMAIN c, m < n
               PROVE  c[m].id > c[n].id
    BY DEF Desc
  <2> QED
    BY <1>1, <1>4 DEF Desc
<1> QED
  BY <1>5, <1>6 DEF c

(* The rows up to a cursor, and those of the page after it that are kept.  *)
UpTo(rows, cursor) == /\ rows \in Seq(Item) /\ Asc(rows)
                      /\ \A n \in DOMAIN rows : rows[n].id <= cursor

LEMMA UpToElements ==
    ASSUME NEW rows \in Seq(Item), NEW cursor
    PROVE  UpTo(rows, cursor) <=> Asc(rows) /\ \A x \in ToSet(rows) : x.id <= cursor
BY DEF UpTo, ToSet

LEMMA CursorPage ==
    ASSUME items \in Seq(Item), Asc(items),
           NEW cursor \in Nat, NEW n \in Nat \ {0}, NEW rest, rest = After(items, cursor)
    PROVE  LET page == Take(rest, n)
           IN  /\ page \in Seq(Item) /\ Asc(page) /\ Len(rest) \in Nat
               /\ Len(page) = IF Len(rest) > n THEN n ELSE Len(rest)
               /\ ToSet(page) \subseteq ToSet(items)
               /\ \A x \in ToSet(page) : x.id > cursor
               /\ Len(rest) > n => /\ page[n].id \in Nat
                                   /\ \A x \in ToSet(page) : x.id <= page[n].id
                                   /\ page[n].id > cursor
               /\ \A x \in ToSet(items) : \/ x.id <= cursor
                                          \/ x \in ToSet(page)
                                          \/ Len(rest) > n /\ x.id > page[n].id
<1> DEFINE page == Take(rest, n)
<1>1. /\ rest \in Seq(Item) /\ Asc(rest)
      /\ ToSet(rest) = {x \in ToSet(items) : x.id > cursor}
  BY AfterRows DEF Ordered
<1>2. /\ page \in Seq(Item) /\ Asc(page)
      /\ ToSet(page) \subseteq ToSet(rest)
      /\ \A x \in ToSet(rest) : \/ x \in ToSet(page)
                                \/ /\ Len(page) = n /\ Len(rest) > n
                                   /\ \A y \in ToSet(page) : y.id < x.id
  BY <1>1, TakeOldest
<1>3. Len(page) = IF Len(rest) > n THEN n ELSE Len(rest)
  BY <1>1, TakeRows
<1> HIDE DEF page
<1>4. Len(rest) \in Nat /\ Len(page) \in Nat /\ DOMAIN page = 1..Len(page)
  BY <1>1, <1>2
<1>5. ASSUME Len(rest) > n
      PROVE  /\ page[n] \in ToSet(page) /\ page[n].id \in Nat
             /\ \A x \in ToSet(page) : x.id <= page[n].id
             /\ page[n].id > cursor
  <2>1. n \in DOMAIN page
    BY <1>3, <1>4, <1>5
  <2>2. page[n] \in ToSet(page)
    BY <2>1 DEF ToSet
  <2>3. page[n].id \in Nat
    BY <1>2, <2>2, ElementsAreRows
  <2>4. ASSUME NEW x \in ToSet(page)
        PROVE  x.id <= page[n].id
    <3>1. PICK m \in DOMAIN page : x = page[m]
      BY DEF ToSet
    <3>2. m < n \/ m = n
      BY <1>3, <1>4, <1>5, <3>1
    <3>3. m < n => page[m].id < page[n].id
      BY <1>2, <2>1 DEF Asc
    <3>4. page[m].id \in Nat
      BY <1>2, <3>1, ElementsAreRows
    <3> QED
      BY <2>3, <3>1, <3>2, <3>3, <3>4
  <2> QED
    BY <1>1, <1>2, <2>2, <2>3, <2>4
<1>6. ASSUME NEW x \in ToSet(items)
      PROVE  \/ x.id <= cursor
             \/ x \in ToSet(page)
             \/ Len(rest) > n /\ x.id > page[n].id
  <2>1. x.id \in Nat
    BY ElementsAreRows
  <2>2. x.id <= cursor \/ x \in ToSet(rest)
    BY <1>1, <2>1
  <2> QED
    BY <1>2, <1>5, <2>2
<1> QED
  BY <1>1, <1>2, <1>3, <1>4, <1>5, <1>6 DEF page

(* The rows of a page are added to those of the earlier ones.              *)
LEMMA CursorRows ==
    ASSUME items \in Seq(Item), Asc(items), steady \subseteq ToSet(items),
           NEW cursor \in Nat, NEW n \in Nat \ {0}, NEW rest, rest = After(items, cursor),
           NEW page, page = Take(rest, n),
           NEW rows, UpTo(rows, cursor),
           NEW got \in Seq(Item), Asc(got), ToSet(got) \subseteq ToSet(page)
    PROVE  /\ rows \o got \in Seq(Item) /\ Asc(rows \o got)
           /\ Len(rest) > n => /\ page[n].id \in Nat
                               /\ UpTo(rows \o got, page[n].id)
           /\ \A arg :
                /\ \A i \in Missed(rows, arg) : i.id > cursor
                /\ \A x \in ToSet(page) : Wants(x, arg) /\ x.id >= arg.since
                                          => x \in ToSet(got)
                => \A i \in Missed(rows \o got, arg) : Len(rest) > n /\ i.id > page[n].id
<1> DEFINE all == rows \o got
<1>1. /\ page \in Seq(Item)
      /\ \A x \in ToSet(page) : x.id > cursor
      /\ Len(rest) > n => /\ page[n].id \in Nat
                          /\ \A x \in ToSet(page) : x.id <= page[n].id
                          /\ page[n].id > cursor
      /\ \A x \in ToSet(items) : \/ x.id <= cursor
                                 \/ x \in ToSet(page)
                                 \/ Len(rest) > n /\ x.id > page[n].id
  BY CursorPage
<1>2. rows \in Seq(Item) /\ Asc(rows) /\ \A x \in ToSet(rows) : x.id <= cursor
  BY UpToElements DEF UpTo
<1>3. all \in Seq(Item) /\ ToSet(all) = ToSet(rows) \cup ToSet(got)
  BY <1>2, ConcatRows
<1>4. Asc(all)
  <2>1. \A x \in ToSet(rows), y \in ToSet(got) : x.id < y.id
    <3> TAKE x \in ToSet(rows), y \in ToSet(got)
    <3>1. x.id \in Nat /\ y.id \in Nat /\ x.id <= cursor /\ y.id > cursor
      BY <1>1, <1>2, ElementsAreRows
    <3> QED
      BY <3>1
  <2> QED
    BY <1>2, <2>1, ConcatOrder
<1> HIDE DEF all
<1>5. ASSUME Len(rest) > n
      PROVE  page[n].id \in Nat /\ UpTo(all, page[n].id)
  <2>1. \A x \in ToSet(all) : x.id <= page[n].id
    <3> TAKE x \in ToSet(all)
    <3>1. x.id \in Nat
      BY <1>3, ElementsAreRows
    <3>2. x.id <= cursor \/ x \in ToSet(page)
      BY <1>2, <1>3
    <3> QED
      BY <1>1, <1>5, <3>1, <3>2
  <2> QED
    BY <1>1, <1>3, <1>4, <1>5, <2>1, UpToElements
<1>6. ASSUME NEW arg,
             \A i \in Missed(rows, arg) : i.id > cursor,
             \A x \in ToSet(page) : Wants(x, arg) /\ x.id >= arg.since => x \in ToSet(got),
             NEW i \in Missed(all, arg)
      PROVE  Len(rest) > n /\ i.id > page[n].id
  <2>1. /\ i \in ToSet(items) /\ Wants(i, arg) /\ i.id >= arg.since
        /\ i.id \notin Ids(all) /\ i \in Expected(arg)
    BY DEF Missed, Expected
  <2>2. i \notin ToSet(got) /\ i.id \notin Ids(rows)
    BY <1>3, <2>1, IdsOfSet
  <2>3. i.id > cursor
    BY <1>6, <2>1, <2>2 DEF Missed
  <2>4. i.id \in Nat
    BY <2>1, ElementsAreRows
  <2> QED
    BY <1>1, <1>6, <2>1, <2>2, <2>3, <2>4
<1> QED
  BY <1>3, <1>4, <1>5, <1>6 DEF all

(* All that was read, newest first, cut at a limit.                        *)
LEMMA LimitNewest ==
    ASSUME NEW all \in Seq(Item), Asc(all), NEW arg, Missed(all, arg) = {},
           NEW n \in Nat, NEW s, s = Take(Newest(all), n)
    PROVE  /\ s \in Seq(Item) /\ Desc(s)
           /\ \A i \in Missed(s, arg) : Len(all) > n /\ Newer(s, i)
<1>1. /\ Newest(all) \in Seq(Item) /\ Len(Newest(all)) = Len(all)
      /\ ToSet(Newest(all)) = ToSet(all) /\ Desc(Newest(all))
  BY NewestRows
<1>2. /\ s \in Seq(Item) /\ Desc(s)
      /\ \A x \in ToSet(all) : \/ x \in ToSet(s)
                               \/ /\ Len(all) > n
                                  /\ \A y \in ToSet(s) : y.id > x.id
  BY <1>1, TakeNewest
<1>3. ASSUME NEW i \in Missed(s, arg)
      PROVE  Len(all) > n /\ Newer(s, i)
  <2>1. i.id \notin Ids(s) /\ i.id \in Ids(all)
    BY <1>3 DEF Missed
  <2>2. PICK x \in ToSet(all) : x.id = i.id
    BY <2>1, IdsOfSet
  <2>3. x \notin ToSet(s)
    BY <2>1, <2>2, IdsOfSet
  <2>4. Len(all) > n /\ \A y \in ToSet(s) : y.id > i.id
    BY <1>2, <2>2, <2>3
  <2> QED
    BY <2>4, NewerElements
<1> QED
  BY <1>2, <1>3

LEMMA BoardPageKeeps ==
    ASSUME ListingInv, BoardPage
    PROVE  ListingInv'
<1>1. call # Idle /\ list = "gh_board" /\ list \notin Threads /\ call.pc = "start"
  <2>1. At({"gh_board"}, "start")
    BY DEF BoardPage
  <2> QED
    BY <2>1 DEF At, Idle, Threads
<1> DEFINE rest == After(items, call.cursor)
           page == Take(rest, MaxPage)
           got  == Fitting(page)
           rows == call.rows \o got
           new  == [call EXCEPT !.rows = rows, !.cursor = page[MaxPage].id]
           cut  == Take(Newest(rows), Arg.limit)
<1>2. /\ Len(rest) > MaxPage => Step(Goto(new))
      /\ ~(Len(rest) > MaxPage) => Step(Return(cut, Len(rows) > Arg.limit))
  BY DEF BoardPage, Step
<1>3. /\ items \in Seq(Item) /\ Asc(items) /\ steady \subseteq ToSet(items)
      /\ call.cursor \in Nat /\ MaxPage \in Nat \ {0} /\ Arg.limit \in Nat
      /\ Arg.order = "desc" /\ Arg.since = 0 /\ Arg.page = 1
      /\ call.rows \in Seq(Item)
  BY <1>1, CallFacts DEF AskedInv, Arg
<1>4. /\ UpTo(call.rows, call.cursor)
      /\ \A i \in Missed(call.rows, Arg) : i.id > call.cursor
  BY <1>1, <1>3, CallFacts DEF CallOK, CursorInv, UpTo, Arg
<1>5. page \in Seq(Item) /\ Asc(page)
  BY <1>3, CursorPage
<1>6. got \in Seq(Item) /\ Asc(got) /\ ToSet(got) = {x \in ToSet(page) : Fits(x)}
  BY <1>5, FittingRows DEF Ordered
<1>7. ToSet(got) \subseteq ToSet(page)
  BY <1>6
<1>8. \A x \in ToSet(page) : Wants(x, Arg) /\ x.id >= Arg.since => x \in ToSet(got)
  BY <1>6 DEF Wants, Fits
<1>a. rest = After(items, call.cursor) /\ page = Take(rest, MaxPage)
  OBVIOUS
<1> HIDE DEF got, page, rest
<1>9. /\ rows \in Seq(Item) /\ Asc(rows)
      /\ Len(rest) > MaxPage => /\ page[MaxPage].id \in Nat
                                /\ UpTo(rows, page[MaxPage].id)
      /\ \A i \in Missed(rows, Arg) : Len(rest) > MaxPage /\ i.id > page[MaxPage].id
  BY <1>3, <1>4, <1>6, <1>7, <1>8, <1>a, CursorRows
<1> HIDE DEF rows
<1>10. CASE Len(rest) > MaxPage
  <2>1. /\ new \in CallType /\ new.pc = "start" /\ new.arg = Arg /\ new.rows = rows
        /\ new.cursor = page[MaxPage].id /\ new.page = call.page
    BY <1>1, <1>9, <1>10, CallFacts DEF CallType, Arg
  <2> HIDE DEF new
  <2>2. AskedInv(new)
    BY <1>1, <2>1, CallFacts DEF AskedInv, Arg
  <2>3. CursorInv(new)
    BY <1>9, <1>10, <2>1 DEF CursorInv, UpTo
  <2>4. CallOK(new)
    BY <1>1, <2>1, <2>2, <2>3
       DEF CallOK, IssuesInv, QueueInv, PartInv, HalvesInv, WalkInv
  <2> QED
    BY <1>1, <1>2, <1>10, <2>4, CallFacts, GotoKeeps
<1>11. CASE ~(Len(rest) > MaxPage)
  <2>1. Missed(rows, Arg) = {}
    BY <1>9, <1>11
  <2>2. /\ cut \in Seq(Item) /\ Desc(cut)
        /\ \A i \in Missed(cut, Arg) : Len(rows) > Arg.limit /\ Newer(cut, i)
    BY <1>3, <1>9, <2>1, LimitNewest
  <2> HIDE DEF cut
  <2>3. Promised(cut, Len(rows) > Arg.limit, Arg)
    <3>1. ~(Len(rows) > Arg.limit) => Missed(cut, Arg) = {}
      BY <2>2
    <3> QED
      BY <1>1, <1>3, <2>2, <3>1, NewestPromise DEF Unordered
  <2> QED
    BY <1>1, <1>2, <1>11, <2>3, CallFacts, ReturnKeeps
<1> QED
  BY <1>10, <1>11

LEMMA AzureNewestKeeps ==
    ASSUME ListingInv, AzureNewest
    PROVE  ListingInv'
<1>1. call # Idle /\ list = "az_comments" /\ list \in Threads /\ call.pc = "start"
      /\ Arg.order = "desc"
  BY DEF AzureNewest, Idle, Threads
<1> DEFINE rest == After(items, call.cursor)
           page == Take(rest, MaxPage)
           got  == Recent(page)
           rows == call.rows \o got
           new  == [call EXCEPT !.rows = rows, !.cursor = page[MaxPage].id]
           kept == SubSeq(Newest(rows), Skip + 1, Len(rows))
           cut  == Take(kept, Arg.limit)
<1>2. /\ Len(rest) > MaxPage => Step(Goto(new))
      /\ ~(Len(rest) > MaxPage) => Step(Return(cut, FALSE))
  BY DEF AzureNewest, Step
<1>3. /\ items \in Seq(Item) /\ Asc(items) /\ steady \subseteq ToSet(items)
      /\ call.cursor \in Nat /\ MaxPage \in Nat \ {0} /\ Arg.limit \in Nat
      /\ call.rows \in Seq(Item) /\ Arg.page \in Nat \ {0} /\ Size \in Nat
  BY <1>1, CallFacts
<1>4. /\ UpTo(call.rows, call.cursor)
      /\ \A i \in Missed(call.rows, Arg) : i.id > call.cursor
  BY <1>1, <1>3, CallFacts DEF CallOK, CursorInv, UpTo, Arg
<1>5. page \in Seq(Item) /\ Asc(page)
  BY <1>3, CursorPage
<1>6. got \in Seq(Item) /\ Asc(got) /\ ToSet(got) = {x \in ToSet(page) : x.id >= Arg.since}
  BY <1>5, RecentRows DEF Ordered
<1>7. ToSet(got) \subseteq ToSet(page)
  BY <1>6
<1>8. \A x \in ToSet(page) : Wants(x, Arg) /\ x.id >= Arg.since => x \in ToSet(got)
  BY <1>6
<1>a. rest = After(items, call.cursor) /\ page = Take(rest, MaxPage)
  OBVIOUS
<1> HIDE DEF got, page, rest
<1>9. /\ rows \in Seq(Item) /\ Asc(rows)
      /\ Len(rest) > MaxPage => /\ page[MaxPage].id \in Nat
                                /\ UpTo(rows, page[MaxPage].id)
      /\ \A i \in Missed(rows, Arg) : Len(rest) > MaxPage /\ i.id > page[MaxPage].id
  BY <1>3, <1>4, <1>6, <1>7, <1>8, <1>a, CursorRows
<1> HIDE DEF rows
<1>10. CASE Len(rest) > MaxPage
  <2>1. /\ new \in CallType /\ new.pc = "start" /\ new.arg = Arg /\ new.rows = rows
        /\ new.cursor = page[MaxPage].id /\ new.page = call.page
    BY <1>1, <1>9, <1>10, CallFacts DEF CallType, Arg
  <2> HIDE DEF new
  <2>2. AskedInv(new)
    BY <1>1, <2>1, CallFacts DEF AskedInv, Arg
  <2>3. CursorInv(new)
    BY <1>9, <1>10, <2>1 DEF CursorInv, UpTo
  <2>4. CallOK(new)
    BY <1>1, <2>1, <2>2, <2>3
       DEF CallOK, IssuesInv, QueueInv, PartInv, HalvesInv, WalkInv
  <2> QED
    BY <1>1, <1>2, <1>10, <2>4, CallFacts, GotoKeeps
<1>11. CASE ~(Len(rest) > MaxPage)
  <2>1. Missed(rows, Arg) = {}
    BY <1>9, <1>11
  <2>2. /\ Newest(rows) \in Seq(Item) /\ Desc(Newest(rows))
        /\ Len(Newest(rows)) = Len(rows) /\ Len(rows) \in Nat
    BY <1>9, NewestRows
  <2>3. Skip \in Nat /\ (Arg.page = 1 => Skip = 0)
    <3>1. (Arg.page - 1) * Size \in Nat /\ (Arg.page = 1 => (Arg.page - 1) * Size = 0)
      BY <1>3, PagesBefore
    <3> QED
      BY <3>1 DEF Skip
  <2>4. kept \in Seq(Item) /\ Desc(kept)
    <3> DEFINE s == Newest(rows)
               a == Skip + 1
               b == Len(rows)
    <3>1. s \in Seq(Item) /\ Desc(s) /\ a \in Nat \ {0} /\ b \in Nat /\ b <= Len(s)
      BY <2>2, <2>3
    <3> HIDE DEF s, a, b
    <3>2. Ordered(SubSeq(s, a, b), s)
      BY <3>1, SliceRows DEF IsSlice
    <3> QED
      BY <3>1, <3>2 DEF Ordered, s, a, b
  <2>5. Arg.page = 1 => kept = Newest(rows)
    BY <2>2, <2>3
  <2> HIDE DEF kept
  <2>6. cut \in Seq(Item) /\ Desc(cut)
    BY <1>3, <2>4, TakeNewest
  <2>7. Arg.page = 1 => \A i \in Missed(cut, Arg) : Newer(cut, i)
    BY <1>3, <1>9, <2>1, <2>5, LimitNewest
  <2> HIDE DEF cut
  <2>8. \A m, n \in DOMAIN cut : m # n => cut[m].id # cut[n].id
    BY <2>6, OrderedApart
  <2>9. Promised(cut, FALSE, Arg)
    BY <1>1, <2>6, <2>7, <2>8 DEF Promised, Unordered
  <2> QED
    BY <1>1, <1>2, <1>11, <2>9, CallFacts, ReturnKeeps
<1> QED
  BY <1>10, <1>11

(* The oldest rows that are taken, of some that miss only later ones.      *)
LEMMA TakeOldestMisses ==
    ASSUME NEW all \in Seq(Item), Asc(all), NEW n \in Nat, NEW arg, steady \subseteq ToSet(items),
           items \in Seq(Item), \A i \in Missed(all, arg) : Older(all, i),
           NEW s, s = Take(all, n)
    PROVE  /\ s \in Seq(Item) /\ Asc(s) /\ Len(s) <= n
           /\ \A i \in Missed(s, arg) : /\ Older(s, i)
                                        /\ i \in Missed(all, arg) \/ Len(all) > n
<1>1. /\ s \in Seq(Item) /\ Asc(s) /\ Len(s) <= n
      /\ ToSet(s) \subseteq ToSet(all)
      /\ \A x \in ToSet(all) : \/ x \in ToSet(s)
                               \/ /\ Len(all) > n
                                  /\ \A y \in ToSet(s) : y.id < x.id
  BY TakeOldest
<1>2. ASSUME NEW i \in Missed(s, arg)
      PROVE  Older(s, i) /\ (i \in Missed(all, arg) \/ Len(all) > n)
  <2>1. CASE i.id \in Ids(all)
    <3>1. PICK x \in ToSet(all) : x.id = i.id
      BY <2>1, IdsOfSet
    <3>2. x \notin ToSet(s)
      BY <1>2, <3>1, IdsOfSet DEF Missed
    <3> QED
      BY <1>1, <3>1, <3>2, OlderElements
  <2>2. CASE i.id \notin Ids(all)
    <3>1. i \in Missed(all, arg)
      BY <1>2, <2>2 DEF Missed
    <3>2. \A y \in ToSet(all) : y.id < i.id
      BY <3>1, OlderElements
    <3> QED
      BY <1>1, <3>1, <3>2, OlderElements
  <2> QED
    BY <2>1, <2>2
<1> QED
  BY <1>1, <1>2

LEMMA AzureCommentsKeeps ==
    ASSUME ListingInv, AzureComments
    PROVE  ListingInv'
<1>1. call # Idle /\ list = "az_comments" /\ list \in Threads /\ call.pc = "start"
      /\ Arg.order = "asc"
  BY DEF AzureComments, Idle, Threads
<1> DEFINE rest == After(items, call.cursor)
           page == Take(rest, Size)
           skip == IF Skip - call.seen < Len(page) THEN Skip - call.seen ELSE Len(page)
           tail == SubSeq(page, skip + 1, Len(page))
           got  == Recent(tail)
           all  == call.rows \o got
           rows == Take(all, Size)
           more == Len(rest) > Size
           new  == [call EXCEPT !.rows = rows, !.cursor = page[Size].id, !.seen = @ + skip]
<1>2. /\ more /\ Len(rows) < Size => Step(Goto(new))
      /\ ~(more /\ Len(rows) < Size) => Step(Return(rows, more /\ Len(rows) >= Size))
  BY DEF AzureComments, Step
<1>3. /\ items \in Seq(Item) /\ Asc(items) /\ steady \subseteq ToSet(items)
      /\ call.cursor \in Nat /\ Size \in Nat \ {0} /\ Size \in Nat
      /\ call.rows \in Seq(Item) /\ Arg.page \in Nat \ {0} /\ call.seen \in Nat
      /\ Size = SizeOf(Arg)
  BY <1>1, CallFacts
<1>4. /\ UpTo(call.rows, call.cursor)
      /\ Arg.page = 1 => \A i \in Missed(call.rows, Arg) : i.id > call.cursor
      /\ Len(call.rows) < Size /\ call.seen <= Skip
      /\ Arg.since = 0 /\ Arg.page = 1 => call.rows = <<>>
  BY <1>1, <1>3, CallFacts DEF CallOK, CursorInv, PartInv, UpTo, Arg, Skip
<1>5. /\ page \in Seq(Item) /\ Asc(page) /\ Len(rest) \in Nat
      /\ Len(page) = IF Len(rest) > Size THEN Size ELSE Len(rest)
  BY <1>3, CursorPage
<1>6. Skip \in Nat /\ (Arg.page = 1 => Skip = 0)
  <2>1. (Arg.page - 1) * Size \in Nat /\ (Arg.page = 1 => (Arg.page - 1) * Size = 0)
    <3>1. Arg.page \in Nat \ {0} /\ Size \in Nat
      BY <1>3
    <3> QED
      BY <3>1, PagesBefore
  <2> QED
    BY <2>1 DEF Skip
<1>a. rest = After(items, call.cursor) /\ page = Take(rest, Size)
  OBVIOUS
<1> HIDE DEF rest, page
<1>7. /\ skip \in Nat /\ skip <= Len(page) /\ skip <= Skip - call.seen
      /\ Arg.page = 1 => skip = 0
  BY <1>3, <1>4, <1>5, <1>6
<1> HIDE DEF skip
<1>8. /\ tail \in Seq(Item) /\ Asc(tail) /\ ToSet(tail) \subseteq ToSet(page)
      /\ Arg.page = 1 => tail = page
  <2> DEFINE a == skip + 1
             b == Len(page)
  <2>1. a \in Nat \ {0} /\ b \in Nat /\ b <= Len(page) /\ DOMAIN page = 1..b
    BY <1>5, <1>7
  <2> HIDE DEF a, b
  <2>2. /\ Ordered(SubSeq(page, a, b), page)
        /\ ToSet(SubSeq(page, a, b)) = {page[n] : n \in a..b}
    BY <1>5, <2>1, SliceRows DEF IsSlice
  <2>3. \A n \in a..b : n \in DOMAIN page
    BY <2>1
  <2>4. ToSet(SubSeq(page, a, b)) \subseteq ToSet(page)
    BY <2>2, <2>3 DEF ToSet
  <2>5. SubSeq(page, 1, Len(page)) = page
    BY <1>5
  <2>6. Arg.page = 1 => a = 1
    BY <1>7 DEF a
  <2> QED
    BY <1>5, <2>2, <2>4, <2>5, <2>6 DEF Ordered, a, b
<1> HIDE DEF tail
<1>9. /\ got \in Seq(Item) /\ Asc(got) /\ ToSet(got) = {x \in ToSet(tail) : x.id >= Arg.since}
      /\ Arg.since = 0 => Len(got) = Len(tail)
  BY <1>8, RecentRows DEF Ordered
<1>10. ToSet(got) \subseteq ToSet(page)
  BY <1>8, <1>9
<1>11. Arg.page = 1 =>
         \A x \in ToSet(page) : Wants(x, Arg) /\ x.id >= Arg.since => x \in ToSet(got)
  BY <1>8, <1>9
<1> HIDE DEF got
<1>12. /\ all \in Seq(Item) /\ Asc(all)
       /\ Len(rest) > Size => page[Size].id \in Nat /\ UpTo(all, page[Size].id)
       /\ Arg.page = 1 =>
            \A i \in Missed(all, Arg) : Len(rest) > Size /\ i.id > page[Size].id
  BY <1>3, <1>4, <1>9, <1>10, <1>11, <1>a, CursorRows
<1>13. Arg.page = 1 /\ Arg.since = 0 => Len(all) = Len(page)
  BY <1>4, <1>8, <1>9, NoRowsYet
<1> HIDE DEF all
<1>14. Len(rows) = (IF Len(all) > Size THEN Size ELSE Len(all)) /\ Len(all) \in Nat
  BY <1>3, <1>12, TakeRows
<1>15. CASE more /\ Len(rows) < Size
  <2>1. rows = all
    <3>1. ~(Len(all) > Size)
      BY <1>3, <1>14, <1>15
    <3> QED
      BY <3>1 DEF Take
  <2> HIDE DEF rows
  <2>2. call.seen + skip \in Nat /\ call.seen + skip <= Skip
    BY <1>3, <1>6, <1>7
  <2>3. /\ new \in CallType /\ new.pc = "start" /\ new.arg = Arg /\ new.rows = all
        /\ new.cursor = page[Size].id /\ new.page = call.page
        /\ new.seen = call.seen + skip
    BY <1>1, <1>12, <1>15, <2>1, <2>2, CallFacts DEF CallType, Arg
  <2> HIDE DEF new
  <2>4. AskedInv(new)
    BY <1>1, <2>3, CallFacts DEF AskedInv, Arg
  <2>5. CursorInv(new)
    BY <1>1, <1>12, <1>15, <2>3 DEF CursorInv, UpTo
  <2>6. PartInv(new)
    <3>1. Arg.since = 0 /\ Arg.page = 1 => Len(rows) = Size
      BY <1>5, <1>13, <1>15, <2>1
    <3>2. ~(Arg.since = 0 /\ Arg.page = 1)
      BY <1>3, <1>15, <3>1
    <3> QED
      BY <1>3, <1>15, <2>1, <2>2, <2>3, <3>2 DEF PartInv, Skip
  <2>7. CallOK(new)
    BY <1>1, <2>3, <2>4, <2>5, <2>6 DEF CallOK, IssuesInv, QueueInv, HalvesInv, WalkInv
  <2> QED
    BY <1>1, <1>2, <1>15, <2>7, CallFacts, GotoKeeps
<1>16. CASE ~(more /\ Len(rows) < Size)
  <2>1. Arg.page = 1 => \A i \in Missed(all, Arg) : Older(all, i)
    <3> SUFFICES ASSUME Arg.page = 1, NEW i \in Missed(all, Arg)
                 PROVE  Older(all, i)
      OBVIOUS
    <3>1. /\ Len(rest) > Size /\ i.id > page[Size].id /\ page[Size].id \in Nat
          /\ UpTo(all, page[Size].id)
      BY <1>12
    <3>2. i.id \in Nat
      BY <1>3, ElementsAreRows DEF Missed, Expected
    <3>3. \A x \in ToSet(all) : x.id \in Nat /\ x.id <= page[Size].id
      BY <1>12, <3>1, UpToElements, ElementsAreRows
    <3>4. \A x \in ToSet(all) : x.id < i.id
      BY <3>1, <3>2, <3>3
    <3> QED
      BY <3>4, OlderElements
  <2>2. rows \in Seq(Item) /\ Asc(rows)
    BY <1>3, <1>12, TakeOldest
  <2>3. Arg.page = 1 =>
          \A i \in Missed(rows, Arg) : /\ Older(rows, i)
                                       /\ i \in Missed(all, Arg) \/ Len(all) > Size
    BY <1>3, <1>12, <2>1, TakeOldestMisses
  <2> HIDE DEF rows
  <2>4. Arg.page = 1 /\ Arg.since = 0 /\ ~(more /\ Len(rows) >= Size)
          => Missed(rows, Arg) = {}
    <3> SUFFICES ASSUME Arg.page = 1, Arg.since = 0, ~(more /\ Len(rows) >= Size)
                 PROVE  Missed(rows, Arg) = {}
      OBVIOUS
    <3>1. ~more
      BY <1>3, <1>14, <1>16, <2>2
    <3>2. Missed(all, Arg) = {}
      BY <1>12, <3>1
    <3>3. ~(Len(all) > Size)
      BY <1>3, <1>5, <1>13, <3>1
    <3> QED
      BY <2>3, <3>2, <3>3
  <2>5. \A m, n \in DOMAIN rows : m # n => rows[m].id # rows[n].id
    BY <2>2, OrderedApart
  <2>6. Arg.since = 0 \/ Arg.since > 0
    BY <1>1, CallFacts
  <2>7. Promised(rows, more /\ Len(rows) >= Size, Arg)
    BY <1>1, <2>2, <2>3, <2>4, <2>5, <2>6 DEF Promised, Unordered
  <2> QED
    BY <1>1, <1>2, <1>16, <2>7, CallFacts, ReturnKeeps
<1> QED
  BY <1>15, <1>16

-----------------------------------------------------------------------------
(* Reading by pages: GitHub's issues.                                      *)

LEMMA PageType ==
    ASSUME NEW s \in Seq(Item), NEW n \in Nat \ {0}, NEW size \in Nat \ {0}
    PROVE  Ordered(Page(s, n, size), s)
<1> DEFINE k == (n - 1) * size
           m == n * size
           a == k + 1
           b == IF m < Len(s) THEN m ELSE Len(s)
<1>1. Len(s) \in Nat
  OBVIOUS
<1>2. k \in Nat /\ m \in Nat
  OBVIOUS
<1> HIDE DEF k, m
<1>3. a \in Nat \ {0} /\ b \in Nat /\ b <= Len(s)
  BY <1>1, <1>2
<1>4. Page(s, n, size) = SubSeq(s, a, b)
  BY DEF Page, k, m
<1> HIDE DEF a, b
<1>5. IsSlice(SubSeq(s, a, b), s, a, b)
  BY <1>3, SliceRows
<1> QED
  BY <1>4, <1>5 DEF IsSlice

(* What fits of the first places of s.                                     *)
FitsOf(s, places) == {x \in {s[n] : n \in {j \in DOMAIN s : j <= places}} : Fits(x)}

(* With one page more, the rows are what fits of the pages read.           *)
PageAdded(all, size, p, rows, page) ==
    LET sum == rows \o Fitting(page)
    IN  /\ page \in Seq(Item) /\ p * size \in Nat
        /\ Len(page) >= size <=> p * size <= Len(all)
        /\ sum \in Seq(Item) /\ Desc(sum) /\ ToSet(sum) = FitsOf(all, p * size)

LEMMA IssuesRead ==
    ASSUME NEW all \in Seq(Item), Desc(all), NEW size \in Nat \ {0}, NEW p \in Nat \ {0},
           (p - 1) * size <= Len(all),
           NEW rows \in Seq(Item), Desc(rows), ToSet(rows) = FitsOf(all, (p - 1) * size),
           NEW page, page = Page(all, p, size)
    PROVE  PageAdded(all, size, p, rows, page)
<1> DEFINE k == (p - 1) * size
           m == p * size
           sum == rows \o Fitting(page)
<1>1. Len(all) \in Nat /\ DOMAIN all = 1..Len(all)
  OBVIOUS
<1>2. /\ Ordered(page, all) /\ m = k + size /\ k \in Nat
      /\ Len(page) < size <=> m > Len(all)
      /\ ToSet(page) = {all[n] : n \in {j \in DOMAIN all : k < j /\ j <= m}}
  BY PageRows
<1>a. k <= Len(all) /\ ToSet(rows) = FitsOf(all, k)
  OBVIOUS
<1> HIDE DEF k, m
<1>3. page \in Seq(Item) /\ Desc(page) /\ Len(page) \in Nat /\ m \in Nat
  BY <1>2 DEF Ordered
<1>4. /\ Fitting(page) \in Seq(Item) /\ Desc(Fitting(page))
      /\ ToSet(Fitting(page)) = {x \in ToSet(page) : Fits(x)}
  BY <1>3, FittingRows DEF Ordered
<1>5. ASSUME NEW x \in ToSet(rows), NEW y \in ToSet(Fitting(page))
      PROVE  x.id > y.id
  <2>1. PICK i \in DOMAIN all : i <= k /\ x = all[i]
    BY <1>a DEF FitsOf
  <2>2. PICK j \in DOMAIN all : k < j /\ y = all[j]
    BY <1>2, <1>4
  <2>3. i < j
    BY <1>1, <1>2, <2>1, <2>2
  <2> QED
    BY <2>1, <2>2, <2>3 DEF Desc
<1>6. sum \in Seq(Item) /\ ToSet(sum) = ToSet(rows) \cup ToSet(Fitting(page))
  BY <1>4, ConcatRows
<1>7. Desc(sum)
  BY <1>4, <1>5, ConcatOrder
<1> HIDE DEF sum
<1>8. ToSet(sum) = FitsOf(all, m)
  <2>1. ASSUME NEW x \in FitsOf(all, m)
        PROVE  x \in ToSet(sum)
    <3>1. PICK j \in DOMAIN all : j <= m /\ x = all[j] /\ Fits(x)
      BY <2>1 DEF FitsOf
    <3>2. j <= k \/ k < j
      BY <1>1, <1>2
    <3>3. j <= k => x \in ToSet(rows)
      BY <1>a, <3>1 DEF FitsOf
    <3>4. k < j => x \in ToSet(Fitting(page))
      BY <1>2, <1>4, <3>1
    <3> QED
      BY <1>6, <3>2, <3>3, <3>4
  <2>2. ASSUME NEW x \in ToSet(rows)
        PROVE  x \in FitsOf(all, m)
    <3>1. PICK j \in DOMAIN all : j <= k /\ x = all[j] /\ Fits(x)
      BY <1>a DEF FitsOf
    <3>2. j <= m
      BY <1>1, <1>2, <3>1
    <3> QED
      BY <3>1, <3>2 DEF FitsOf
  <2>3. ASSUME NEW x \in ToSet(Fitting(page))
        PROVE  x \in FitsOf(all, m)
    <3>1. PICK j \in DOMAIN all : j <= m /\ x = all[j]
      BY <1>2, <1>4
    <3>2. Fits(x)
      BY <1>4
    <3> QED
      BY <3>1, <3>2 DEF FitsOf
  <2> QED
    BY <1>6, <2>1, <2>2, <2>3
<1>9. Len(page) >= size <=> m <= Len(all)
  BY <1>1, <1>2, <1>3
<1> QED
  BY <1>3, <1>6, <1>7, <1>8, <1>9 DEF PageAdded, m, sum

(* What a cut of the rows that fit the pages read leaves out.              *)
LEMMA IssuesCut ==
    ASSUME NEW all \in Seq(Item), Desc(all), NEW places \in Nat,
           NEW sum \in Seq(Item), Desc(sum), ToSet(sum) = FitsOf(all, places),
           NEW n \in Nat, NEW rows, rows = Take(sum, n),
           \A i \in Expected(Arg) : i \in ToSet(all)
    PROVE  /\ rows \in Seq(Item) /\ Desc(rows) /\ Len(rows) <= n
           /\ \A i \in Missed(rows, Arg) :
                Newer(rows, i) /\ (Len(rows) >= n \/ places < Len(all))
<1>1. Len(all) \in Nat /\ DOMAIN all = 1..Len(all)
  OBVIOUS
<1>2. /\ rows \in Seq(Item) /\ Desc(rows) /\ Len(rows) <= n
      /\ ToSet(rows) \subseteq ToSet(sum)
      /\ \A x \in ToSet(sum) : \/ x \in ToSet(rows)
                               \/ /\ Len(rows) = n
                                  /\ \A y \in ToSet(rows) : y.id > x.id
  BY TakeNewest
<1>3. ASSUME NEW i \in Missed(rows, Arg)
      PROVE  Newer(rows, i) /\ (Len(rows) >= n \/ places < Len(all))
  <2>1. i \in Expected(Arg) /\ i \in ToSet(all) /\ Fits(i) /\ i \notin ToSet(rows)
    <3>1. i \in Expected(Arg) /\ i \notin ToSet(rows)
      BY IdsOfSet DEF Missed
    <3> QED
      BY <3>1 DEF Expected, Wants, Fits
  <2>2. PICK m \in DOMAIN all : i = all[m]
    BY <2>1 DEF ToSet
  <2>3. CASE m <= places
    <3>1. i \in ToSet(sum)
      BY <2>1, <2>2, <2>3 DEF FitsOf
    <3>2. Len(rows) = n /\ \A y \in ToSet(rows) : y.id > i.id
      BY <1>2, <2>1, <3>1
    <3>3. Len(rows) >= n
      BY <3>2
    <3> QED
      BY <3>2, <3>3, NewerElements
  <2>4. CASE ~(m <= places)
    <3>1. places < Len(all) /\ \A j \in DOMAIN all : j <= places => j < m
      BY <1>1, <2>4
    <3>2. \A y \in ToSet(sum) : y.id > i.id
      BY <2>2, <3>1 DEF FitsOf, Desc
    <3> QED
      BY <1>2, <3>1, <3>2, NewerElements
  <2> QED
    BY <2>3, <2>4
<1> QED
  BY <1>2, <1>3

LEMMA IssuesPageKeeps ==
    ASSUME ListingInv, IssuesPage
    PROVE  ListingInv'
<1>1. call # Idle /\ list = "gh_issues" /\ list \notin Threads /\ call.pc = "start"
  <2>1. At({"gh_issues"}, "start")
    BY DEF IssuesPage
  <2> QED
    BY <2>1 DEF At, Idle, Threads
<1> DEFINE all  == Newest(Only(Coarse(Arg.filter)))
           page == ServerPage(Only(Coarse(Arg.filter)))
           sum  == call.rows \o Fitting(page)
           rows == Take(sum, Arg.limit)
           full == FullPage(page)
           new  == [call EXCEPT !.page = @ + 1, !.rows = rows]
<1>2. /\ full /\ ~Enough(rows) => Step(Goto(new))
      /\ ~(full /\ ~Enough(rows)) => Step(Return(rows, full /\ Enough(rows)))
  BY DEF IssuesPage, Step
<1>3. /\ items \in Seq(Item) /\ Asc(items) /\ steady \subseteq ToSet(items)
      /\ Size \in Nat \ {0} /\ Size = SizeOf(Arg) /\ call.page \in Nat \ {0}
      /\ call.rows \in Seq(Item) /\ Arg.limit \in Nat \ {0}
      /\ Arg.order = "desc" /\ Arg.since = 0 /\ Arg.page = 1 /\ Arg.filter \in Filters
  BY <1>1, CallFacts DEF AskedInv, Arg
<1>4. /\ all \in Seq(Item) /\ Desc(all)
      /\ ToSet(all) = {x \in ToSet(items) : x.state \in Coarse(Arg.filter)}
  <2>1. /\ Only(Coarse(Arg.filter)) \in Seq(Item) /\ Asc(Only(Coarse(Arg.filter)))
        /\ ToSet(Only(Coarse(Arg.filter)))
             = {x \in ToSet(items) : x.state \in Coarse(Arg.filter)}
    BY <1>3, OnlyRows DEF Ordered
  <2> QED
    BY <2>1, NewestRows
<1>5. \A i \in Expected(Arg) : i \in ToSet(all)
  BY <1>3, <1>4, CoarseCovers DEF Expected, Wants
<1>6. page = Page(all, call.page, Size)
  BY DEF ServerPage
<1>7. full <=> Len(page) >= Size
  BY DEF FullPage
<1>8. Enough(rows) <=> Len(rows) >= Arg.limit
  BY DEF Enough
<1>9. alone => /\ (call.page - 1) * Size <= Len(all)
               /\ Desc(call.rows)
               /\ ToSet(call.rows) = FitsOf(all, (call.page - 1) * Size)
  BY <1>1, <1>3, CallFacts DEF CallOK, IssuesInv, Arg, FitsOf, Fits, Wants
<1> HIDE DEF all, page, full
<1>10. page \in Seq(Item)
  BY <1>3, <1>4, <1>6, PageType DEF Ordered
<1>11. sum \in Seq(Item)
  BY <1>3, <1>10, FittingRows, ConcatRows DEF Ordered
<1>12. alone => /\ call.page * Size \in Nat
                /\ full <=> call.page * Size <= Len(all)
                /\ Desc(sum) /\ ToSet(sum) = FitsOf(all, call.page * Size)
  <2> SUFFICES ASSUME alone
               PROVE  /\ call.page * Size \in Nat
                      /\ full <=> call.page * Size <= Len(all)
                      /\ Desc(sum) /\ ToSet(sum) = FitsOf(all, call.page * Size)
    OBVIOUS
  <2>1. PageAdded(all, Size, call.page, call.rows, page)
    BY <1>3, <1>4, <1>6, <1>9, IssuesRead
  <2> QED
    BY <1>7, <2>1 DEF PageAdded
<1> HIDE DEF sum
<1>13. /\ rows \in Seq(Item) /\ Len(rows) \in Nat /\ Len(rows) <= Arg.limit
       /\ Len(rows) < Arg.limit => rows = sum
  <2>1. Ordered(rows, sum) /\ Len(rows) = IF Len(sum) > Arg.limit THEN Arg.limit ELSE Len(sum)
    BY <1>3, <1>11, TakeRows
  <2>2. Len(sum) \in Nat
    BY <1>11
  <2>3. Len(rows) < Arg.limit => rows = sum
    <3> SUFFICES ASSUME Len(rows) < Arg.limit
                 PROVE  rows = sum
      OBVIOUS
    <3>1. ~(Len(sum) > Arg.limit)
      BY <1>3, <2>1, <2>2
    <3> QED
      BY <3>1 DEF Take
  <2> QED
    BY <1>3, <2>1, <2>2, <2>3 DEF Ordered
<1>14. alone => /\ Desc(rows)
                /\ \A i \in Missed(rows, Arg) :
                     /\ Newer(rows, i)
                     /\ Len(rows) >= Arg.limit \/ call.page * Size < Len(all)
  BY <1>3, <1>4, <1>5, <1>11, <1>12, IssuesCut
<1> HIDE DEF rows
<1>15. CASE full /\ ~Enough(rows)
  <2>1. rows = sum
    BY <1>3, <1>8, <1>13, <1>15
  <2>2. call.page + 1 \in Nat \ {0} /\ (call.page + 1) - 1 = call.page
    BY <1>3
  <2>3. /\ new \in CallType /\ new.pc = "start" /\ new.arg = Arg /\ new.rows = sum
        /\ new.page = call.page + 1
    BY <1>1, <1>11, <2>1, <2>2, CallFacts DEF CallType, Arg
  <2> HIDE DEF new
  <2>4. AskedInv(new)
    BY <1>1, <2>3, CallFacts DEF AskedInv, Arg
  <2>5. IssuesInv(new)
    <3>1. (new.page - 1) * SizeOf(new.arg) = call.page * Size
      BY <1>3, <2>2, <2>3
    <3>2. all = Newest(Only(Coarse(new.arg.filter)))
      BY <2>3 DEF all
    <3>3. alone => /\ call.page * Size <= Len(all)
                   /\ Desc(new.rows) /\ ToSet(new.rows) = FitsOf(all, call.page * Size)
      BY <1>12, <1>15, <2>3
    <3>4. \A s, k : FitsOf(s, k) = {x \in {s[n] : n \in {j \in DOMAIN s : j <= k}} :
                                       Wants(x, new.arg)}
      BY <2>3 DEF FitsOf, Fits, Wants
    <3> QED
      BY <3>1, <3>2, <3>3, <3>4 DEF IssuesInv
  <2>6. CallOK(new)
    BY <1>1, <2>3, <2>4, <2>5
       DEF CallOK, QueueInv, CursorInv, PartInv, HalvesInv, WalkInv
  <2> QED
    BY <1>1, <1>2, <1>15, <2>6, CallFacts, GotoKeeps
<1>16. CASE ~(full /\ ~Enough(rows))
  <2>1. alone /\ ~(full /\ Enough(rows)) => Missed(rows, Arg) = {} \/ Len(rows) = Arg.limit
    <3> SUFFICES ASSUME alone, ~(full /\ Enough(rows)), Len(rows) # Arg.limit
                 PROVE  Missed(rows, Arg) = {}
      OBVIOUS
    <3>1. ~(Len(rows) >= Arg.limit)
      BY <1>3, <1>13
    <3>2. ~full
      BY <1>8, <1>16, <3>1
    <3>3. ~(call.page * Size < Len(all))
      <4> DEFINE m == call.page * Size
      <4>1. m \in Nat /\ ~(m <= Len(all)) /\ Len(all) \in Nat
        BY <1>4, <1>12, <3>2
      <4> HIDE DEF m
      <4>2. ~(m < Len(all))
        BY <4>1
      <4> QED
        BY <4>2 DEF m
    <3> QED
      BY <1>14, <3>1, <3>3
  <2>2. alone => \A m, n \in DOMAIN rows : m # n => rows[m].id # rows[n].id
    BY <1>13, <1>14, OrderedApart
  <2>3. ~alone => ~(alone \/ ~Paged)
    BY <1>1 DEF Paged
  <2>4. Promised(rows, full /\ Enough(rows), Arg)
    BY <1>1, <1>3, <1>13, <1>14, <2>1, <2>2, <2>3 DEF Promised, Unordered
  <2> QED
    BY <1>1, <1>2, <1>16, <2>4, CallFacts, ReturnKeeps
<1> QED
  BY <1>15, <1>16

-----------------------------------------------------------------------------
(* GitLab's merge requests: two requests, sorted together.                 *)

LEMMA SortedCut ==
    ASSUME NEW all \in Seq(Item), NEW n \in Nat, NEW cut, cut = Take(SortNewest(all), n)
    PROVE  /\ cut \in Seq(Item)
           /\ Len(all) <= n => ToSet(cut) = ToSet(all)
           /\ (\A k, m \in DOMAIN all : k # m => all[k].id # all[m].id) => Desc(cut)
           /\ \A x \in Nat : x \in Ids(all) /\ x \notin Ids(cut) =>
                \A y \in ToSet(cut) : y.id > x
           /\ \A x \in Nat, P \in SUBSET DOMAIN all :
                Cardinality(P) >= n /\ (\A j \in P : all[j].id > x) =>
                  \A y \in ToSet(cut) : y.id > x
<1> DEFINE t == SortNewest(all)
<1>1. /\ t \in Seq(Item) /\ Len(t) = Len(all) /\ ToSet(t) = ToSet(all)
      /\ \A k, m \in DOMAIN t : k < m => t[k].id >= t[m].id
      /\ (\A k, m \in DOMAIN all : k # m => all[k].id # all[m].id) => Desc(t)
      /\ \A k \in DOMAIN t, x \in Nat, P \in SUBSET DOMAIN all :
           Cardinality(P) >= k /\ (\A j \in P : all[j].id > x) => t[k].id > x
  BY SortRows
<1>a. cut = Take(t, n)
  OBVIOUS
<1> HIDE DEF t
<1>2. /\ Ordered(cut, t)
      /\ Len(cut) = IF Len(t) > n THEN n ELSE Len(t)
      /\ ToSet(cut) = {t[m] : m \in {j \in DOMAIN t : j <= n}}
  BY <1>1, <1>a, TakeRows
<1>3. /\ Len(t) \in Nat /\ DOMAIN t = 1..Len(t) /\ Len(all) \in Nat
      /\ \A k \in DOMAIN t : t[k].id \in Nat
  <2>1. \A k \in DOMAIN t : t[k] \in Item
    BY <1>1
  <2> QED
    BY <1>1, <2>1 DEF Item
<1>4. Len(all) <= n => ToSet(cut) = ToSet(all)
  <2> SUFFICES ASSUME Len(all) <= n
               PROVE  ToSet(cut) = ToSet(t)
    BY <1>1
  <2>1. {j \in DOMAIN t : j <= n} = DOMAIN t
    BY <1>1, <1>3
  <2> QED
    BY <1>2, <2>1 DEF ToSet
<1>5. ASSUME NEW x \in Nat, x \in Ids(all), x \notin Ids(cut), NEW y \in ToSet(cut)
      PROVE  y.id > x
  <2>1. PICK k \in DOMAIN t : t[k].id = x
    <3>1. Ids(all) = Ids(t)
      BY <1>1, IdsOfSet
    <3> QED
      BY <1>5, <3>1 DEF Ids
  <2>2. PICK m \in DOMAIN t : m <= n /\ y = t[m]
    BY <1>2
  <2>3. t[k] \notin ToSet(cut) /\ y.id # x
    BY <1>5, <2>1, IdsOfSet
  <2>4. ~(k <= n)
    BY <1>2, <2>3
  <2>5. m < k
    BY <1>3, <2>2, <2>4
  <2>6. y.id >= x
    BY <1>1, <2>1, <2>2, <2>5
  <2>7. y.id \in Nat
    BY <1>3, <2>2
  <2> QED
    BY <2>3, <2>6, <2>7
<1>6. ASSUME NEW x \in Nat, NEW P \in SUBSET DOMAIN all,
             Cardinality(P) >= n, \A j \in P : all[j].id > x, NEW y \in ToSet(cut)
      PROVE  y.id > x
  <2>1. PICK m \in DOMAIN t : m <= n /\ y = t[m]
    BY <1>2
  <2>2. Cardinality(P) \in Nat
    <3>1. IsFiniteSet(DOMAIN all)
      <4>1. DOMAIN all = 1..Len(all) /\ \A k \in Nat : IsFiniteSet(1..k)
        BY FS_Interval
      <4> QED
        BY <1>3, <4>1
    <3> QED
      BY <3>1, FS_Subset, FS_CardinalityType
  <2>3. Cardinality(P) >= m
    BY <1>3, <1>6, <2>1, <2>2
  <2> QED
    BY <1>1, <1>6, <2>1, <2>3
<1>7. cut \in Seq(Item) /\ (Desc(t) => Desc(cut))
  BY <1>2 DEF Ordered
<1> QED
  BY <1>1, <1>4, <1>5, <1>6, <1>7

(* The newest of what has one of some states: what is not among them.      *)
IsFront(s, states, n) ==
    /\ s \in Seq(Item) /\ Desc(s) /\ Len(s) <= n
    /\ \A x \in ToSet(s) : x \in ToSet(items) /\ x.state \in states
    /\ \A x \in ToSet(items) :
         x.state \in states /\ x \notin ToSet(s) => Len(s) = n /\ Newer(s, x)

LEMMA FrontOf ==
    ASSUME items \in Seq(Item), Asc(items), NEW states, NEW n \in Nat
    PROVE  IsFront(Take(Newest(Only(states)), n), states, n)
<1> DEFINE all == Newest(Only(states))
           s   == Take(all, n)
<1>1. /\ Only(states) \in Seq(Item) /\ Asc(Only(states))
      /\ ToSet(Only(states)) = {x \in ToSet(items) : x.state \in states}
  BY OnlyRows DEF Ordered
<1>2. /\ all \in Seq(Item) /\ Desc(all)
      /\ ToSet(all) = {x \in ToSet(items) : x.state \in states}
  BY <1>1, NewestRows
<1> HIDE DEF all
<1>3. /\ s \in Seq(Item) /\ Desc(s) /\ Len(s) <= n
      /\ ToSet(s) \subseteq ToSet(all)
      /\ \A x \in ToSet(all) : \/ x \in ToSet(s)
                               \/ /\ Len(s) = n /\ Len(all) > n
                                  /\ \A y \in ToSet(s) : y.id > x.id
  BY <1>2, TakeNewest
<1> HIDE DEF s
<1>4. IsFront(s, states, n)
  BY <1>2, <1>3, NewerElements DEF IsFront
<1> QED
  BY <1>4 DEF s, all

(* Two parts without a common id.                                          *)
LEMMA ConcatApart ==
    ASSUME NEW a \in Seq(Item), NEW b \in Seq(Item),
           \A k, m \in DOMAIN a : k # m => a[k].id # a[m].id,
           \A k, m \in DOMAIN b : k # m => b[k].id # b[m].id,
           \A k \in DOMAIN a, m \in DOMAIN b : a[k].id # b[m].id
    PROVE  \A k, m \in DOMAIN (a \o b) : k # m => (a \o b)[k].id # (a \o b)[m].id
<1> DEFINE c == a \o b
           A == Len(a)
           B == Len(b)
<1>1. A \in Nat /\ B \in Nat /\ DOMAIN a = 1..A /\ DOMAIN b = 1..B
  OBVIOUS
<1>2. /\ \A k \in 1..A : c[k] = a[k]
      /\ \A k \in 1..B : c[A + k] = b[k]
      /\ \A k \in DOMAIN c : k \in 1..A \/ \E j \in 1..B : k = A + j
  BY ConcatRows
<1> HIDE DEF A, B, c
<1> SUFFICES ASSUME NEW k \in DOMAIN c, NEW m \in DOMAIN c, k # m
             PROVE  c[k].id # c[m].id
  BY DEF c
<1>3. CASE k \in 1..A /\ m \in 1..A
  BY <1>1, <1>2, <1>3
<1>4. CASE k \in 1..A /\ m \notin 1..A
  <2>1. PICK j \in 1..B : m = A + j
    BY <1>2, <1>4
  <2>2. c[k] = a[k] /\ c[m] = b[j]
    BY <1>2, <1>4, <2>1
  <2> QED
    BY <1>1, <1>4, <2>2
<1>5. CASE k \notin 1..A /\ m \in 1..A
  <2>1. PICK j \in 1..B : k = A + j
    BY <1>2, <1>5
  <2>2. c[m] = a[m] /\ c[k] = b[j]
    BY <1>2, <1>5, <2>1
  <2> QED
    BY <1>1, <1>5, <2>2
<1>6. CASE k \notin 1..A /\ m \notin 1..A
  <2>1. PICK i \in 1..B : k = A + i
    BY <1>2, <1>6
  <2>2. PICK j \in 1..B : m = A + j
    BY <1>2, <1>6
  <2>3. c[k] = b[i] /\ c[m] = b[j] /\ i # j
    BY <1>2, <2>1, <2>2
  <2> QED
    BY <1>1, <2>3
<1> QED
  BY <1>3, <1>4, <1>5, <1>6

(* Enough newer ones before or after the place where two parts meet.       *)
LEMMA PartCounts ==
    ASSUME NEW a \in Seq(Item), NEW b \in Seq(Item), NEW i
    PROVE  /\ Newer(a, i) => \E P \in SUBSET DOMAIN (a \o b) :
                               /\ Cardinality(P) = Len(a)
                               /\ \A j \in P : (a \o b)[j].id > i.id
           /\ Newer(b, i) => \E P \in SUBSET DOMAIN (a \o b) :
                               /\ Cardinality(P) = Len(b)
                               /\ \A j \in P : (a \o b)[j].id > i.id
<1> DEFINE c == a \o b
           A == Len(a)
           B == Len(b)
<1>1. A \in Nat /\ B \in Nat /\ DOMAIN a = 1..A /\ DOMAIN b = 1..B
  OBVIOUS
<1>2. /\ c \in Seq(Item) /\ Len(c) = A + B
      /\ \A k \in 1..A : c[k] = a[k]
      /\ \A k \in 1..B : c[A + k] = b[k]
  BY ConcatRows
<1> HIDE DEF A, B, c
<1>3. DOMAIN c = 1..(A + B)
  BY <1>2
<1>4. ASSUME Newer(a, i)
      PROVE  \E P \in SUBSET DOMAIN c : Cardinality(P) = A /\ \A j \in P : c[j].id > i.id
  <2>1. 1..A \in SUBSET DOMAIN c
    BY <1>1, <1>3
  <2>2. Cardinality(1..A) = A
    BY <1>1, FS_Interval
  <2>3. \A j \in 1..A : c[j].id > i.id
    BY <1>1, <1>2, <1>4 DEF Newer
  <2> QED
    BY <2>1, <2>2, <2>3
<1>5. ASSUME Newer(b, i)
      PROVE  \E P \in SUBSET DOMAIN c : Cardinality(P) = B /\ \A j \in P : c[j].id > i.id
  <2>1. (A + 1)..(A + B) \in SUBSET DOMAIN c
    BY <1>1, <1>3
  <2>2. Cardinality((A + 1)..(A + B)) = B
    <3>1. A + 1 \in Int /\ A + B \in Int
      BY <1>1
    <3>2. Cardinality((A + 1)..(A + B))
            = IF A + 1 > A + B THEN 0 ELSE (A + B) - (A + 1) + 1
      BY <3>1, FS_Interval
    <3> QED
      BY <1>1, <3>2
  <2>3. ASSUME NEW j \in (A + 1)..(A + B)
        PROVE  c[j].id > i.id
    <3>1. j - A \in 1..B /\ A + (j - A) = j
      BY <1>1
    <3>2. c[j] = b[j - A]
      BY <1>2, <3>1
    <3> QED
      BY <1>1, <1>5, <3>1, <3>2 DEF Newer
  <2> QED
    BY <2>1, <2>2, <2>3
<1> QED
  BY <1>4, <1>5 DEF c, A, B

(* One request is all: the rows are the page, which is sorted already.     *)
LEMMA OneState ==
    ASSUME items \in Seq(Item), Asc(items), steady \subseteq ToSet(items), ~Unordered,
           NEW arg, arg.order = "desc", arg.since = 0, NEW n \in Nat,
           NEW page, page = Take(Newest(Only(arg.filter)), n),
           NEW cut, cut = Take(SortNewest(page), n),
           NEW more, ~more => Len(page) < n
    PROVE  Promised(cut, more, arg)
<1>1. /\ page \in Seq(Item) /\ Desc(page) /\ Len(page) <= n
      /\ \A x \in ToSet(items) :
           x.state \in arg.filter /\ x \notin ToSet(page) => Len(page) = n /\ Newer(page, x)
  BY FrontOf DEF IsFront
<1>2. \A k, m \in DOMAIN page : k # m => page[k].id # page[m].id
  BY <1>1, OrderedApart
<1>3. cut \in Seq(Item) /\ Desc(cut) /\ ToSet(cut) = ToSet(page)
  BY <1>1, <1>2, SortedCut
<1>4. ASSUME NEW i \in Missed(cut, arg)
      PROVE  Len(page) = n /\ Newer(cut, i)
  <2>1. i \in ToSet(items) /\ i.state \in arg.filter /\ i \notin ToSet(page)
    BY <1>3, IdsOfSet DEF Missed, Expected, Wants
  <2>2. Len(page) = n /\ Newer(page, i)
    BY <1>1, <2>1
  <2> QED
    BY <1>3, <2>2, NewerElements
<1>5. ~more => Missed(cut, arg) = {}
  <2>1. Len(page) \in Nat /\ ~(Len(page) = n /\ Len(page) < n)
    BY <1>1
  <2> QED
    BY <1>4, <2>1
<1> QED
  BY <1>3, <1>4, <1>5, NewestPromise

(* Two requests: the closed ones, read earlier, and the merged ones.       *)
LEMMA TwoStates ==
    ASSUME items \in Seq(Item), Asc(items), steady \subseteq ToSet(items), list = "gl_pulls",
           NEW arg, arg.order = "desc", arg.since = 0, arg.filter = Closed,
           NEW n \in Nat,
           NEW rows \in Seq(Item), Desc(rows),
           \A i \in Missed(rows, arg) :
             i.state = "closed" => Len(rows) = n /\ Newer(rows, i),
           alone => \A k \in DOMAIN rows :
                      rows[k] \in ToSet(items) /\ rows[k].state = "closed",
           NEW page, page = Take(Newest(Only({"merged"})), n),
           NEW cut, cut = Take(SortNewest(rows \o page), n),
           NEW more, ~more => /\ Len(rows) < n /\ Len(page) < n
                              /\ Len(rows \o page) <= n
    PROVE  Promised(cut, more, arg)
<1> DEFINE all == rows \o page
<1>1. /\ page \in Seq(Item) /\ Desc(page) /\ Len(page) <= n
      /\ \A x \in ToSet(page) : x \in ToSet(items) /\ x.state = "merged"
      /\ \A x \in ToSet(items) :
           x.state = "merged" /\ x \notin ToSet(page) => Len(page) = n /\ Newer(page, x)
  <2>1. IsFront(page, {"merged"}, n)
    BY FrontOf
  <2> QED
    BY <2>1 DEF IsFront
<1>2. /\ all \in Seq(Item) /\ Len(all) = Len(rows) + Len(page)
      /\ \A k \in 1..Len(rows) : all[k] = rows[k]
      /\ \A k \in 1..Len(page) : all[Len(rows) + k] = page[k]
      /\ \A k \in DOMAIN all : k \in 1..Len(rows) \/ \E j \in 1..Len(page) : k = Len(rows) + j
      /\ ToSet(all) = ToSet(rows) \cup ToSet(page)
  BY <1>1, ConcatRows
<1>a. /\ \A i : Newer(rows, i) => \E P \in SUBSET DOMAIN all :
                                    /\ Cardinality(P) = Len(rows)
                                    /\ \A j \in P : all[j].id > i.id
      /\ \A i : Newer(page, i) => \E P \in SUBSET DOMAIN all :
                                    /\ Cardinality(P) = Len(page)
                                    /\ \A j \in P : all[j].id > i.id
  BY <1>1, PartCounts
<1>b. cut = Take(SortNewest(all), n) /\ (~more => Len(rows) < n /\ Len(page) < n /\ Len(all) <= n)
  OBVIOUS
<1> HIDE DEF all
<1>3. /\ cut \in Seq(Item)
      /\ Len(all) <= n => ToSet(cut) = ToSet(all)
      /\ (\A k, m \in DOMAIN all : k # m => all[k].id # all[m].id) => Desc(cut)
      /\ \A x \in Nat : x \in Ids(all) /\ x \notin Ids(cut) =>
           \A y \in ToSet(cut) : y.id > x
      /\ \A x \in Nat, P \in SUBSET DOMAIN all :
           Cardinality(P) >= n /\ (\A j \in P : all[j].id > x) =>
             \A y \in ToSet(cut) : y.id > x
  BY <1>2, <1>b, SortedCut
<1>4. /\ Len(rows) \in Nat /\ DOMAIN rows = 1..Len(rows)
      /\ Len(page) \in Nat /\ DOMAIN page = 1..Len(page)
  BY <1>1
<1>5. ASSUME NEW i \in Missed(cut, arg), i.id \notin Ids(all)
      PROVE  \/ i.state = "closed" /\ Len(rows) = n /\ Newer(rows, i)
             \/ i.state = "merged" /\ Len(page) = n /\ Newer(page, i)
  <2>1. i \in Expected(arg) /\ i \in ToSet(items) /\ i.state \in {"closed", "merged"}
    BY <1>5 DEF Missed, Expected, Wants, Closed
  <2>2. i.id \notin Ids(rows) /\ i \notin ToSet(page)
    BY <1>2, <1>5, IdsOfSet
  <2>3. i \in Missed(rows, arg)
    BY <2>1, <2>2 DEF Missed
  <2> QED
    BY <1>1, <2>1, <2>2, <2>3
<1>6. ASSUME NEW i \in Missed(cut, arg)
      PROVE  Newer(cut, i)
  <2>1. i.id \in Nat /\ i.id \notin Ids(cut)
    BY ElementsAreRows DEF Missed, Expected
  <2>2. CASE i.id \in Ids(all)
    BY <1>3, <2>1, <2>2, NewerElements
  <2>3. CASE i.id \notin Ids(all)
    <3>1. \E P \in SUBSET DOMAIN all :
            Cardinality(P) = n /\ \A j \in P : all[j].id > i.id
      BY <1>5, <1>a, <2>3
    <3>2. PICK P \in SUBSET DOMAIN all :
            Cardinality(P) = n /\ \A j \in P : all[j].id > i.id
      BY <3>1
    <3>3. Cardinality(P) >= n
      BY <3>2
    <3>4. \A y \in ToSet(cut) : y.id > i.id
      BY <1>3, <2>1, <3>2, <3>3
    <3> QED
      BY <3>4, NewerElements
  <2> QED
    BY <2>2, <2>3
<1>7. ASSUME ~more
      PROVE  Missed(cut, arg) = {}
  <2> SUFFICES ASSUME NEW i \in Missed(cut, arg)
               PROVE  FALSE
    OBVIOUS
  <2>a. Len(rows) < n /\ Len(page) < n
    BY <1>7, <1>b
  <2>b. \A k \in Nat : k < n => k # n
    OBVIOUS
  <2>1. Len(rows) # n /\ Len(page) # n
    BY <1>4, <2>a, <2>b
  <2>2. i.id \in Ids(all)
    BY <1>5, <2>1
  <2>3. i.id \in Ids(cut)
    BY <1>3, <1>7, <1>b, <2>2, IdsOfSet
  <2> QED
    BY <2>3 DEF Missed
<1>8. ASSUME alone
      PROVE  \A k, m \in DOMAIN cut : k # m => cut[k].id # cut[m].id
  <2>1. \A k \in DOMAIN rows, j \in DOMAIN page : rows[k].id # page[j].id
    <3> TAKE k \in DOMAIN rows, j \in DOMAIN page
    <3>1. rows[k] \in ToSet(items) /\ rows[k].state = "closed"
      BY <1>8
    <3>2. page[j] \in ToSet(page)
      BY DEF ToSet
    <3>3. page[j] \in ToSet(items) /\ page[j].state = "merged"
      BY <1>1, <3>2
    <3>4. rows[k] # page[j]
      BY <3>1, <3>3
    <3> QED
      BY <3>1, <3>3, <3>4, SameItem
  <2>2. \A k, m \in DOMAIN rows : k # m => rows[k].id # rows[m].id
    BY OrderedApart
  <2>3. \A k, m \in DOMAIN page : k # m => page[k].id # page[m].id
    BY <1>1, OrderedApart
  <2>4. \A k, m \in DOMAIN all : k # m => all[k].id # all[m].id
    BY <1>1, <2>1, <2>2, <2>3, ConcatApart DEF all
  <2>5. Desc(cut)
    BY <1>3, <2>4
  <2> QED
    BY <1>3, <2>5, OrderedApart
<1>9. list = "gl_pulls" => Paged
  BY DEF Paged
<1> QED
  BY <1>3, <1>6, <1>7, <1>8, <1>9 DEF Promised, Unordered

LEMMA MergeRequestsKeeps ==
    ASSUME ListingInv, MergeRequests
    PROVE  ListingInv'
<1>1. call # Idle /\ list = "gl_pulls" /\ list \notin Threads /\ call.pc = "start"
  <2>1. At({"gl_pulls"}, "start")
    BY DEF MergeRequests
  <2> QED
    BY <2>1 DEF At, Idle, Threads
<1> DEFINE half == Halves(Arg.filter)
           page == Take(Newest(Only(half[call.page])), Size)
           all  == call.rows \o page
           full == call.seen = 1 \/ FullPage(page)
           cut  == Take(SortNewest(all), Size)
           seen == IF full THEN 1 ELSE 0
           new  == [call EXCEPT !.page = @ + 1, !.rows = all, !.seen = seen]
<1>2. /\ call.page < Len(half) => Step(Goto(new))
      /\ ~(call.page < Len(half)) => Step(Return(cut, full \/ Len(all) > Size))
  BY DEF MergeRequests, Step
<1>3. /\ items \in Seq(Item) /\ Asc(items) /\ steady \subseteq ToSet(items)
      /\ Size \in Nat \ {0} /\ Size = SizeOf(Arg) /\ Size \in Nat
      /\ call.rows \in Seq(Item)
      /\ Arg.order = "desc" /\ Arg.since = 0 /\ Arg.page = 1 /\ Arg.filter \in Filters
  BY <1>1, CallFacts DEF AskedInv, Arg
<1>4. \/ call.page = 1 /\ call.rows = <<>> /\ call.seen = 0
      \/ /\ call.page = 2 /\ Arg.filter = Closed
         /\ Desc(call.rows) /\ Len(call.rows) <= Size
         /\ \A i \in Missed(call.rows, Arg) :
              i.state = "closed" => Len(call.rows) = Size /\ Newer(call.rows, i)
         /\ call.seen # 1 => Len(call.rows) < Size
         /\ alone => \A n \in DOMAIN call.rows :
                       call.rows[n] \in ToSet(items) /\ call.rows[n].state = "closed"
  BY <1>1, <1>3, CallFacts DEF CallOK, HalvesInv, Arg
<1>5. /\ Arg.filter = Closed => half = <<{"closed"}, {"merged"}>>
      /\ Arg.filter # Closed => half = <<Arg.filter>>
  BY DEF Halves
<1> HIDE DEF half
<1>a. IsFront(page, half[call.page], Size)
  BY <1>3, FrontOf
<1> HIDE DEF page
<1>6. /\ page \in Seq(Item) /\ Desc(page) /\ Len(page) <= Size
      /\ \A x \in ToSet(page) : x \in ToSet(items) /\ x.state \in half[call.page]
      /\ \A x \in ToSet(items) : x.state \in half[call.page] /\ x \notin ToSet(page)
           => Len(page) = Size /\ Newer(page, x)
  BY <1>a DEF IsFront
<1>7. Len(page) \in Nat /\ (~full => call.seen # 1 /\ Len(page) < Size)
  BY <1>3, <1>6 DEF FullPage
<1>8. CASE call.page = 1 /\ call.rows = <<>> /\ call.seen = 0 /\ Arg.filter # Closed
  <2>1. half = <<Arg.filter>> /\ half[call.page] = Arg.filter /\ ~(call.page < Len(half))
    <3>1. half = <<Arg.filter>>
      BY <1>5, <1>8
    <3>2. Len(half) = 1 /\ half[1] = Arg.filter
      BY <3>1
    <3> QED
      BY <1>8, <3>1, <3>2
  <2>2. page = Take(Newest(Only(Arg.filter)), Size) /\ all = page
    BY <1>6, <1>8, <2>1, NoRowsYet DEF page
  <2>3. cut = Take(SortNewest(page), Size)
    BY <2>2
  <2> HIDE DEF cut, page, all, full
  <2>4. ~(full \/ Len(all) > Size) => Len(page) < Size
    BY <1>7
  <2>5. Promised(cut, full \/ Len(all) > Size, Arg)
    <3> DEFINE more == full \/ Len(all) > Size
    <3>1. ~more => Len(page) < Size
      BY <2>4
    <3> HIDE DEF more
    <3>2. Promised(cut, more, Arg)
      BY <1>1, <1>3, <2>2, <2>3, <3>1, OneState DEF Unordered
    <3> QED
      BY <3>2 DEF more
  <2> QED
    BY <1>1, <1>2, <2>1, <2>5, CallFacts, ReturnKeeps
<1>9. CASE call.page = 1 /\ call.rows = <<>> /\ call.seen = 0 /\ Arg.filter = Closed
  <2>1. half[call.page] = {"closed"} /\ call.page < Len(half)
    BY <1>5, <1>9
  <2>2. all = page
    BY <1>6, <1>9, NoRowsYet
  <2> HIDE DEF page, all, full
  <2>3. /\ new \in CallType /\ new.pc = "start" /\ new.arg = Arg /\ new.rows = page
        /\ new.page = 2 /\ new.seen = seen
    <3>1. call.page + 1 = 2 /\ 2 \in Nat \ {0} /\ seen \in Nat
      BY <1>9
    <3>2. call \in CallType
      BY <1>1, CallFacts
    <3> HIDE DEF seen
    <3>3. new = [call EXCEPT !.page = 2, !.rows = page, !.seen = seen]
      BY <2>2, <3>1
    <3> HIDE DEF new
    <3>4. /\ new \in CallType /\ new.pc = "start" /\ new.arg = Arg /\ new.rows = page
          /\ new.page = 2 /\ new.seen = seen
      BY <1>1, <1>6, <3>1, <3>2, <3>3 DEF CallType, Arg
    <3> QED
      BY <3>4
  <2> HIDE DEF new
  <2>4. AskedInv(new)
    BY <1>1, <2>3, CallFacts DEF AskedInv, Arg
  <2>5. \A i \in Missed(page, Arg) :
          i.state = "closed" => Len(page) = Size /\ Newer(page, i)
    <3> TAKE i \in Missed(page, Arg)
    <3> HAVE i.state = "closed"
    <3>1. i \in ToSet(items) /\ i \notin ToSet(page)
      BY <1>3, IdsOfSet DEF Missed, Expected
    <3> QED
      BY <1>6, <2>1, <3>1
  <2>6. \A n \in DOMAIN page : page[n] \in ToSet(items) /\ page[n].state = "closed"
    <3>1. \A n \in DOMAIN page : page[n] \in ToSet(page)
      BY DEF ToSet
    <3> QED
      BY <1>6, <2>1, <3>1
  <2>7. HalvesInv(new)
    <3>1. new.seen # 1 => Len(page) < Size
      BY <1>7, <2>3
    <3> HIDE DEF seen
    <3> QED
      BY <1>3, <1>6, <1>9, <2>3, <2>5, <2>6, <3>1 DEF HalvesInv
  <2>8. CallOK(new)
    BY <1>1, <2>3, <2>4, <2>7
       DEF CallOK, IssuesInv, QueueInv, CursorInv, PartInv, WalkInv
  <2> QED
    BY <1>1, <1>2, <2>1, <2>8, CallFacts, GotoKeeps
<1>10. CASE /\ call.page = 2 /\ Arg.filter = Closed
            /\ Desc(call.rows) /\ Len(call.rows) <= Size
            /\ \A i \in Missed(call.rows, Arg) :
                 i.state = "closed" => Len(call.rows) = Size /\ Newer(call.rows, i)
            /\ call.seen # 1 => Len(call.rows) < Size
            /\ alone => \A n \in DOMAIN call.rows :
                          call.rows[n] \in ToSet(items) /\ call.rows[n].state = "closed"
  <2>1. half[call.page] = {"merged"} /\ ~(call.page < Len(half))
    <3>1. half = <<{"closed"}, {"merged"}>>
      BY <1>5, <1>10
    <3>2. Len(half) = 2 /\ half[2] = {"merged"}
      BY <3>1
    <3> QED
      BY <1>10, <3>2
  <2>2. page = Take(Newest(Only({"merged"})), Size)
    BY <2>1 DEF page
  <2>3. cut = Take(SortNewest(call.rows \o page), Size)
    OBVIOUS
  <2> DEFINE more == full \/ Len(all) > Size
  <2>4. ~more => Len(call.rows) < Size /\ Len(page) < Size /\ Len(call.rows \o page) <= Size
    <3>1. Len(call.rows \o page) \in Nat
      BY <1>3, <1>6, ConcatRows
    <3> HIDE DEF page, full
    <3> QED
      BY <1>3, <1>7, <1>10, <3>1
  <2> HIDE DEF more, cut, page
  <2>5. Promised(cut, more, Arg)
    BY <1>1, <1>3, <1>10, <2>2, <2>3, <2>4, TwoStates
  <2> QED
    BY <1>1, <1>2, <2>1, <2>5, CallFacts, ReturnKeeps DEF more
<1> QED
  BY <1>4, <1>8, <1>9, <1>10

-----------------------------------------------------------------------------
(* Comments: a page of them, or the walk from the last page to the front.  *)

LEMMA PageSet ==
    ASSUME NEW s \in Seq(Item), NEW n \in Nat \ {0}, NEW size \in Nat \ {0}
    PROVE  /\ (n - 1) * size \in Nat /\ n * size = (n - 1) * size + size
           /\ ToSet(Page(s, n, size)) = {s[m] : m \in {j \in DOMAIN s : /\ (n - 1) * size < j
                                                                      /\ j <= n * size}}
<1> DEFINE k == (n - 1) * size
           m == n * size
           a == k + 1
           b == IF m < Len(s) THEN m ELSE Len(s)
<1>1. Len(s) \in Nat /\ DOMAIN s = 1..Len(s)
  OBVIOUS
<1>2. k \in Nat /\ m \in Nat /\ m = k + size
  OBVIOUS
<1> HIDE DEF k, m
<1>3. a \in Nat \ {0} /\ b \in Nat /\ b <= Len(s)
  BY <1>1, <1>2
<1>4. Page(s, n, size) = SubSeq(s, a, b)
  BY DEF Page, k, m
<1>5. {j \in DOMAIN s : k < j /\ j <= m} = a..b
  BY <1>1, <1>2
<1> HIDE DEF a, b
<1>6. ToSet(SubSeq(s, a, b)) = {s[j] : j \in a..b}
  BY <1>3, SliceRows DEF IsSlice
<1>7. ToSet(Page(s, n, size)) = {s[i] : i \in {j \in DOMAIN s : k < j /\ j <= m}}
  BY <1>4, <1>5, <1>6
<1> QED
  BY <1>2, <1>7 DEF k, m

(* The last page is the one that holds the last comment.                   *)
LEMMA PageCountFacts ==
    ASSUME NEW s \in Seq(Item), NEW size \in Nat \ {0}
    PROVE  PageCount(s, size) \in Nat /\ Len(s) <= PageCount(s, size) * size
<1> DEFINE a == Len(s) + size - 1
           q == a \div size
<1>1. Len(s) \in Nat /\ a \in Nat
  OBVIOUS
<1>2. PageCount(s, size) = q
  BY DEF PageCount
<1>3. q \in Nat /\ a < q * size + size
  <2>1. \A x \in Nat, y \in Nat \ {0} : x \div y \in Nat /\ x < (x \div y) * y + y
    OBVIOUS
  <2> HIDE DEF a
  <2> QED
    BY <1>1, <2>1
<1>4. Len(s) <= q * size
  <2> DEFINE m == q * size
  <2>1. m \in Int /\ a < m + size /\ a = Len(s) + size - 1
    BY <1>3
  <2> HIDE DEF m, q, a
  <2>2. Len(s) <= m
    BY <1>1, <2>1
  <2> QED
    BY <2>2 DEF m
<1> QED
  BY <1>2, <1>3, <1>4

LEMMA CommentPageKeeps ==
    ASSUME ListingInv, CommentPage
    PROVE  ListingInv'
<1>1. /\ call # Idle /\ list \in {"gh_comments", "gl_notes"} /\ list \in Threads
      /\ call.pc = "start" /\ ~TailOnly
  BY DEF CommentPage, Idle, Threads
<1> DEFINE all  == IF list = "gh_comments" THEN Recent(items) ELSE items
           page == Page(all, Arg.page, Size)
           rows == Own(Recent(page))
           more == Arg.page * Size < Len(all)
<1>2. Step(Return(rows, more))
  BY DEF CommentPage
<1>3. /\ items \in Seq(Item) /\ Asc(items) /\ steady \subseteq ToSet(items)
      /\ Size \in Nat \ {0} /\ Size \in Nat /\ Arg.page \in Nat \ {0}
  BY <1>1, CallFacts
<1>4. /\ all \in Seq(Item) /\ Asc(all)
      /\ \A x \in ToSet(items) : x.id >= Arg.since => x \in ToSet(all)
  <2>1. /\ Recent(items) \in Seq(Item) /\ Asc(Recent(items))
        /\ ToSet(Recent(items)) = {x \in ToSet(items) : x.id >= Arg.since}
    BY <1>3, RecentRows DEF Ordered
  <2> QED
    BY <1>3, <2>1
<1> HIDE DEF all
<1>5. page \in Seq(Item) /\ Asc(page)
  BY <1>3, <1>4, PageType DEF Ordered
<1>6. Arg.page = 1 => page = Take(all, Size) /\ (more <=> Size < Len(all))
  <2>1. Page(all, 1, Size) = Take(all, Size)
    BY <1>3, <1>4, FirstPage
  <2>2. 1 * Size = Size
    BY <1>3
  <2> QED
    BY <2>1, <2>2
<1> HIDE DEF page, more
<1>7. /\ rows \in Seq(Item) /\ Asc(rows)
      /\ ToSet(rows) = {x \in ToSet(page) : x.id >= Arg.since /\ x.own}
  <2>1. /\ Recent(page) \in Seq(Item) /\ Asc(Recent(page))
        /\ ToSet(Recent(page)) = {x \in ToSet(page) : x.id >= Arg.since}
    BY <1>5, RecentRows DEF Ordered
  <2>2. /\ rows \in Seq(Item) /\ Asc(rows)
        /\ ToSet(rows) = {x \in ToSet(Recent(page)) : x.own}
    BY <2>1, OwnRows DEF Ordered
  <2> QED
    BY <2>1, <2>2
<1> HIDE DEF rows
<1>8. ASSUME Arg.page = 1, NEW i \in Missed(rows, Arg)
      PROVE  Older(rows, i) /\ more
  <2>1. /\ \A x \in ToSet(all) : \/ x \in ToSet(page)
                                 \/ Len(all) > Size /\ \A y \in ToSet(page) : y.id < x.id
    BY <1>3, <1>4, <1>6, <1>8, TakeOldest
  <2>2. i \in ToSet(items) /\ i.own /\ i.id >= Arg.since /\ i \notin ToSet(rows)
    BY <1>3, IdsOfSet DEF Missed, Expected, Wants
  <2>3. i \in ToSet(all) /\ i \notin ToSet(page)
    BY <1>4, <1>7, <2>2
  <2>4. Len(all) > Size /\ \A y \in ToSet(page) : y.id < i.id
    BY <2>1, <2>3
  <2>5. Len(all) \in Nat
    BY <1>4
  <2>6. more
    BY <1>3, <1>6, <1>8, <2>4, <2>5
  <2> QED
    BY <1>7, <2>4, <2>6, OlderElements
<1>9. \A m, n \in DOMAIN rows : m # n => rows[m].id # rows[n].id
  BY <1>7, OrderedApart
<1>10. Arg.page = 1 => ~(Arg.order = "desc" /\ (Arg.since = 0 \/ list = "az_comments"))
  BY <1>1 DEF TailOnly
<1>11. Promised(rows, more, Arg)
  <2>1. (alone /\ Arg.page = 1 /\ ~more) => Missed(rows, Arg) = {}
    BY <1>8
  <2>2. Arg.page = 1 => \A i \in Missed(rows, Arg) : Older(rows, i)
    BY <1>8
  <2> QED
    BY <1>1, <1>7, <1>9, <1>10, <2>1, <2>2 DEF Promised, Unordered
<1> QED
  BY <1>1, <1>2, <1>11, CallFacts, ReturnKeeps

LEMMA ProbeKeeps ==
    ASSUME ListingInv, Probe
    PROVE  ListingInv'
<1>1. /\ call # Idle /\ list \in {"gh_comments", "gl_notes"} /\ list \in Threads
      /\ call.pc = "start" /\ TailOnly
  BY DEF Probe, Idle, Threads
<1> DEFINE count == PageCount(items, Size)
           rows  == Newest(Own(items))
           first == Page(items, 1, Size)
           new   == [call EXCEPT !.pc = "walk", !.page = count]
<1>2. \/ count <= 1 /\ Step(Return(rows, FALSE))
      \/ ~(count <= 1) /\ Step(Goto(new))
      \/ /\ list = "gl_notes" /\ Len(items) >= MaxItems
         /\ Step(Return(Newest(Own(first)), FALSE))
  BY DEF Probe, Step
<1>3. /\ items \in Seq(Item) /\ Asc(items) /\ steady \subseteq ToSet(items)
      /\ Size \in Nat \ {0} /\ Size = SizeOf(Arg) /\ Arg.limit \in Nat \ {0}
      /\ Arg.page = 1 /\ Arg.order = "desc" /\ Arg.since = 0
  BY <1>1, CallFacts DEF TailOnly
<1>4. count \in Nat /\ Len(items) <= count * Size
  BY <1>3, PageCountFacts
<1> HIDE DEF count
<1>5. CASE count <= 1 /\ Step(Return(rows, FALSE))
  <2>1. /\ Own(items) \in Seq(Item) /\ Asc(Own(items))
        /\ ToSet(Own(items)) = {x \in ToSet(items) : x.own}
    BY <1>3, OwnRows DEF Ordered
  <2>2. rows \in Seq(Item) /\ Desc(rows) /\ ToSet(rows) = {x \in ToSet(items) : x.own}
    BY <2>1, NewestRows
  <2> HIDE DEF rows
  <2>3. Missed(rows, Arg) = {}
    BY <1>3, <2>2, IdsOfSet DEF Missed, Expected, Wants
  <2>4. Promised(rows, FALSE, Arg)
    BY <1>1, <1>3, <2>2, <2>3, NewestPromise DEF Unordered
  <2> QED
    BY <1>1, <1>5, <2>4, CallFacts, ReturnKeeps
<1>6. CASE ~(count <= 1) /\ Step(Goto(new))
  <2>1. call.rows = <<>>
    BY <1>1, CallFacts DEF CallOK, QueueInv
  <2>2. count \in Nat \ {0}
    BY <1>4, <1>6
  <2>3. /\ new \in CallType /\ new.pc = "walk" /\ new.arg = Arg /\ new.rows = <<>>
        /\ new.page = count
    BY <1>1, <2>1, <2>2, CallFacts DEF CallType, Arg
  <2> HIDE DEF new
  <2>4. AskedInv(new)
    BY <1>1, <1>3, <2>3, CallFacts DEF AskedInv, Arg
  <2>5. WalkInv(new)
    <3>1. \A n \in DOMAIN items : n <= count * Size
      <4> DEFINE m == count * Size
      <4>1. m \in Int /\ Len(items) <= m /\ Len(items) \in Nat /\ DOMAIN items = 1..Len(items)
        BY <1>3, <1>4
      <4> HIDE DEF m
      <4>2. \A n \in DOMAIN items : n <= m
        BY <4>1
      <4> QED
        BY <4>2 DEF m
    <3>2. /\ Len(<<>>) < Arg.limit /\ Asc(<<>>)
          /\ \A i : Newer(<<>>, i)
      BY <1>3, EmptyRows DEF Newer
    <3> QED
      BY <1>3, <2>3, <3>1, <3>2 DEF WalkInv
  <2>6. CallOK(new)
    BY <1>1, <2>3, <2>4, <2>5
       DEF CallOK, IssuesInv, QueueInv, CursorInv, PartInv, HalvesInv
  <2> QED
    BY <1>1, <1>6, <2>6, CallFacts, GotoKeeps
<1>7. CASE /\ list = "gl_notes" /\ Len(items) >= MaxItems
           /\ Step(Return(Newest(Own(first)), FALSE))
  <2>1. first \in Seq(Item) /\ Asc(first)
    BY <1>3, PageType DEF Ordered
  <2> HIDE DEF first
  <2>2. Own(first) \in Seq(Item) /\ Asc(Own(first))
    BY <2>1, OwnRows DEF Ordered
  <2>3. Newest(Own(first)) \in Seq(Item) /\ Desc(Newest(Own(first)))
    BY <2>2, NewestRows
  <2>4. \A m, n \in DOMAIN Newest(Own(first)) :
          m # n => Newest(Own(first))[m].id # Newest(Own(first))[n].id
    BY <2>3, OrderedApart
  <2>5. Uncounted
    <3>1. made \in Nat /\ Len(items) <= made /\ Len(items) \in Nat /\ MaxItems \in Nat
      BY <1>1, CallFacts, ListConstants DEF WorldInv
    <3>2. made >= MaxItems
      BY <1>7, <3>1
    <3> QED
      BY <1>7, <3>2 DEF Uncounted
  <2>6. Promised(Newest(Own(first)), FALSE, Arg)
    BY <1>3, <2>3, <2>4, <2>5 DEF Promised
  <2> QED
    BY <1>1, <1>7, <2>6, CallFacts, ReturnKeeps
<1> QED
  BY <1>2, <1>5, <1>6, <1>7

(* The last rows of two parts, the second of which is kept whole.          *)
IsEnding(e, a, b, n) ==
    /\ e \in Seq(Item)
    /\ Asc(a \o b) => Asc(e)
    /\ ToSet(e) \subseteq ToSet(a \o b) /\ ToSet(b) \subseteq ToSet(e)
    /\ Len(a \o b) <= n => e = a \o b
    /\ \A x \in ToSet(a) : \/ x \in ToSet(e)
                           \/ \A y \in ToSet(e) : y \in ToSet(b) \/ y.id > x.id

LEMMA EndingRows ==
    ASSUME NEW a \in Seq(Item), NEW b \in Seq(Item), Asc(a),
           NEW n \in Nat \ {0}, Len(b) < n
    PROVE  IsEnding(Ending(a \o b, n), a, b, n)
<1> DEFINE c == a \o b
           e == Ending(c, n)
           A == Len(a)
           B == Len(b)
           L == Len(c)
<1>1. A \in Nat /\ B \in Nat /\ DOMAIN a = 1..A /\ DOMAIN b = 1..B
  OBVIOUS
<1>2. /\ c \in Seq(Item) /\ L = A + B
      /\ \A k \in 1..A : c[k] = a[k]
      /\ \A k \in 1..B : c[A + k] = b[k]
      /\ \A k \in DOMAIN c : k \in 1..A \/ \E j \in 1..B : k = A + j
  BY ConcatRows
<1>3. DOMAIN c = 1..L /\ L \in Nat
  BY <1>2
<1>a. e = IF L > n THEN SubSeq(c, L - n + 1, L) ELSE c
  BY DEF Ending
<1>b. B < n
  OBVIOUS
<1> HIDE DEF A, B, L, c, e
<1>4. CASE ~(L > n)
  <2>1. e = c
    BY <1>4, <1>a
  <2>2. ToSet(a) \subseteq ToSet(c) /\ ToSet(b) \subseteq ToSet(c)
    BY ConcatRows DEF c
  <2> QED
    BY <1>2, <2>1, <2>2 DEF c, e, IsEnding
<1>5. CASE L > n
  <2> DEFINE f == L - n + 1
  <2>1. f \in Nat \ {0} /\ f <= A + 1 /\ f <= L
    BY <1>1, <1>2, <1>3, <1>5, <1>b
  <2>2. e = SubSeq(c, f, L)
    BY <1>5, <1>a
  <2> HIDE DEF f
  <2>3. Ordered(e, c) /\ ToSet(e) = {c[k] : k \in f..L}
    <3>1. L \in Nat /\ L <= Len(c)
      BY <1>3 DEF L
    <3> QED
      BY <1>2, <2>1, <2>2, <3>1, SliceRows DEF IsSlice
  <2>4. ToSet(e) \subseteq ToSet(c)
    <3>1. \A k \in f..L : k \in DOMAIN c
      BY <1>3, <2>1
    <3> QED
      BY <2>3, <3>1 DEF ToSet
  <2>5. ToSet(b) \subseteq ToSet(e)
    <3>1. \A k \in 1..B : A + k \in f..L
      BY <1>1, <1>2, <2>1
    <3>2. \A k \in DOMAIN b : \E j \in f..L : b[k] = c[j]
      BY <1>1, <1>2, <3>1
    <3> QED
      BY <2>3, <3>2 DEF ToSet
  <2>6. ASSUME NEW x \in ToSet(a), x \notin ToSet(e), NEW y \in ToSet(e), y \notin ToSet(b)
        PROVE  y.id > x.id
    <3>1. PICK i \in 1..A : x = a[i]
      BY <1>1 DEF ToSet
    <3>2. PICK k \in f..L : y = c[k]
      BY <2>3
    <3>3. x = c[i]
      BY <1>2, <3>1
    <3>4. i \notin f..L
      BY <2>3, <2>6, <3>3
    <3>5. i < k
      BY <1>1, <1>2, <1>3, <2>1, <3>1, <3>4
    <3>6. k \in DOMAIN c
      BY <1>3, <2>1
    <3>7. k \in 1..A
      <4>1. ASSUME NEW j \in 1..B, k = A + j
            PROVE  FALSE
        <5>1. y = b[j]
          BY <1>2, <3>2, <4>1
        <5> QED
          BY <1>1, <2>6, <5>1 DEF ToSet
      <4> QED
        BY <1>2, <3>6, <4>1
    <3>8. y = a[k]
      BY <1>2, <3>2, <3>7
    <3> QED
      BY <1>1, <3>1, <3>5, <3>7, <3>8 DEF Asc
  <2>7. e \in Seq(Item) /\ (Asc(c) => Asc(e))
    BY <2>3 DEF Ordered
  <2>8. ~(L <= n)
    BY <1>3, <1>5
  <2> QED
    BY <2>4, <2>5, <2>6, <2>7, <2>8 DEF L, c, e, IsEnding
<1> QED
  BY <1>4, <1>5

(* One step of the walk: what the page before the rows adds to them.       *)
WalkRows(c, rows, left) ==
    /\ \A i \in Missed(rows, c.arg) : Newer(rows, i)
    /\ \A n \in DOMAIN items : items[n] \in Missed(rows, c.arg) => n <= left * SizeOf(c.arg)
    /\ alone => /\ Asc(rows)
                /\ \A n \in DOMAIN items : n <= left * SizeOf(c.arg) => Newer(rows, items[n])

LEMMA WalkStep ==
    ASSUME ListingInv, call # Idle, call.pc = "walk",
           NEW own, own = Own(Page(items, call.page, Size)), NEW rows, rows = own \o call.rows
    PROVE  /\ own \in Seq(Item) /\ Asc(own) /\ rows \in Seq(Item)
           /\ ToSet(own) \subseteq ToSet(items)
           /\ ToSet(rows) = ToSet(own) \cup ToSet(call.rows)
           /\ call.page - 1 \in Nat /\ (call.page - 1) * Size \in Nat
           /\ WalkRows(call, rows, call.page - 1)
<1> DEFINE page == Page(items, call.page, Size)
           k == (call.page - 1) * Size
           m == call.page * Size
<1>1. /\ items \in Seq(Item) /\ Asc(items) /\ steady \subseteq ToSet(items)
      /\ Size \in Nat \ {0} /\ Size = SizeOf(Arg) /\ call.page \in Nat \ {0}
      /\ call.rows \in Seq(Item) /\ Arg = call.arg
  BY CallFacts DEF Arg
<1>2. /\ \A i \in Missed(call.rows, Arg) : Newer(call.rows, i)
      /\ \A n \in DOMAIN items : items[n] \in Missed(call.rows, Arg) => n <= m
      /\ alone => /\ Asc(call.rows)
                  /\ \A n \in DOMAIN items : n <= m => Newer(call.rows, items[n])
  BY <1>1, CallFacts DEF CallOK, WalkInv
<1>3. /\ k \in Nat /\ m = k + Size
      /\ ToSet(page) = {items[n] : n \in {j \in DOMAIN items : k < j /\ j <= m}}
  BY <1>1, PageSet
<1>4. page \in Seq(Item) /\ Asc(page)
  BY <1>1, PageType DEF Ordered
<1>a. SizeOf(call.arg) = Size /\ call.page - 1 \in Nat
  BY <1>1
<1>b. own = Own(page)
  OBVIOUS
<1> HIDE DEF page
<1>5. own \in Seq(Item) /\ Asc(own) /\ ToSet(own) = {x \in ToSet(page) : x.own}
  BY <1>4, <1>b, OwnRows DEF Ordered
<1>6. rows \in Seq(Item) /\ ToSet(rows) = ToSet(own) \cup ToSet(call.rows)
  BY <1>1, <1>5, ConcatRows
<1>c. WalkRows(call, rows, call.page - 1) <=>
        /\ \A i \in Missed(rows, Arg) : Newer(rows, i)
        /\ \A n \in DOMAIN items : items[n] \in Missed(rows, Arg) => n <= k
        /\ alone => /\ Asc(rows)
                    /\ \A n \in DOMAIN items : n <= k => Newer(rows, items[n])
  BY <1>1, <1>a DEF WalkRows
<1> HIDE DEF k, m
<1>7. Len(items) \in Nat /\ DOMAIN items = 1..Len(items)
  BY <1>1
<1>8. ASSUME NEW n \in DOMAIN items, n <= k, NEW x \in ToSet(own)
      PROVE  x.id > items[n].id
  <2>1. PICK j \in DOMAIN items : k < j /\ x = items[j]
    BY <1>3, <1>5
  <2>2. n < j
    BY <1>3, <1>7, <1>8, <2>1
  <2>3. items[n].id < items[j].id
    BY <1>1, <2>2 DEF Asc
  <2>4. items[n] \in Item /\ items[j] \in Item
    BY <1>1
  <2>5. items[n].id \in Nat /\ items[j].id \in Nat
    BY <2>4 DEF Item
  <2> QED
    BY <2>1, <2>3, <2>5
<1>9. ASSUME NEW n \in DOMAIN items, items[n] \in Missed(rows, Arg)
      PROVE  n <= k /\ items[n] \in Missed(call.rows, Arg)
  <2>1. /\ items[n] \in Expected(Arg) /\ items[n].own
        /\ items[n] \notin ToSet(own) /\ items[n].id \notin Ids(call.rows)
    BY <1>6, <1>9, IdsOfSet DEF Missed, Expected, Wants
  <2>2. items[n] \in Missed(call.rows, Arg)
    BY <2>1 DEF Missed
  <2>3. n <= m
    BY <1>2, <2>2
  <2>4. ~(k < n)
    BY <1>3, <1>5, <2>1, <2>3
  <2> QED
    BY <1>3, <1>7, <2>2, <2>4
<1>10. ASSUME NEW i \in Missed(rows, Arg)
       PROVE  Newer(rows, i)
  <2>1. i \in ToSet(items)
    BY <1>1 DEF Missed, Expected
  <2>2. PICK n \in DOMAIN items : i = items[n]
    BY <2>1 DEF ToSet
  <2>3. n <= k /\ i \in Missed(call.rows, Arg)
    BY <1>9, <1>10, <2>2
  <2>4. \A x \in ToSet(call.rows) : x.id > i.id
    BY <1>2, <2>3, NewerElements
  <2>5. \A x \in ToSet(own) : x.id > i.id
    BY <1>8, <2>2, <2>3
  <2> QED
    BY <1>6, <2>4, <2>5, NewerElements
<1>11. ASSUME alone
       PROVE  /\ Asc(rows)
              /\ \A n \in DOMAIN items : n <= k => Newer(rows, items[n])
  <2>1. ASSUME NEW x \in ToSet(own), NEW y \in ToSet(call.rows)
        PROVE  x.id < y.id
    <3>1. PICK j \in DOMAIN items : j <= m /\ x = items[j]
      BY <1>3, <1>5
    <3>2. y.id > x.id
      BY <1>2, <1>11, <3>1, NewerElements
    <3>3. x.id \in Nat /\ y.id \in Nat
      BY <1>1, <1>5, ElementsAreRows
    <3> QED
      BY <3>2, <3>3
  <2>2. Asc(rows)
    BY <1>1, <1>2, <1>5, <1>11, <2>1, ConcatOrder
  <2>3. ASSUME NEW n \in DOMAIN items, n <= k
        PROVE  Newer(rows, items[n])
    <3>1. n <= m
      BY <1>1, <1>3, <1>7, <2>3
    <3>2. \A x \in ToSet(call.rows) : x.id > items[n].id
      BY <1>2, <1>11, <3>1, NewerElements
    <3>3. \A x \in ToSet(own) : x.id > items[n].id
      BY <1>8, <2>3
    <3> QED
      BY <1>6, <3>2, <3>3, NewerElements
  <2> QED
    BY <2>2, <2>3
<1>12. WalkRows(call, rows, call.page - 1)
  BY <1>9, <1>10, <1>11, <1>c
<1>13. ToSet(own) \subseteq ToSet(items)
  BY <1>3, <1>5 DEF ToSet
<1> QED
  BY <1>3, <1>5, <1>6, <1>12, <1>13, <1>a DEF k

LEMMA WalkKeeps ==
    ASSUME ListingInv, Walk
    PROVE  ListingInv'
<1>1. /\ call # Idle /\ list \in {"gh_comments", "gl_notes"} /\ list \in Threads
      /\ call.pc = "walk"
  BY DEF Walk, Idle, Threads
<1> DEFINE own  == Own(Page(items, call.page, Size))
           rows == own \o call.rows
           left == call.page - 1
           new  == [call EXCEPT !.page = left, !.rows = rows]
           last == Ending(rows, Arg.limit)
           more == OlderRemain(left, rows)
<1>2. /\ left >= 1 /\ Len(rows) < Arg.limit => Step(Goto(new))
      /\ ~(left >= 1 /\ Len(rows) < Arg.limit) => Step(Return(Newest(last), more))
  BY DEF Walk, Step
<1>3. /\ items \in Seq(Item) /\ Asc(items) /\ steady \subseteq ToSet(items)
      /\ Size \in Nat \ {0} /\ Size = SizeOf(Arg) /\ Arg.limit \in Nat \ {0}
      /\ Arg.page = 1 /\ Arg.order = "desc" /\ Arg.since = 0
      /\ call.rows \in Seq(Item) /\ call.arg = Arg
      /\ Len(call.rows) < Arg.limit
      /\ \A i \in Missed(call.rows, Arg) : Newer(call.rows, i)
  BY <1>1, CallFacts DEF AskedInv, Arg, CallOK, WalkInv
<1>4. /\ own \in Seq(Item) /\ Asc(own) /\ rows \in Seq(Item)
      /\ ToSet(own) \subseteq ToSet(items)
      /\ ToSet(rows) = ToSet(own) \cup ToSet(call.rows)
      /\ left \in Nat /\ left * Size \in Nat
      /\ WalkRows(call, rows, left)
  BY <1>1, WalkStep
<1>a. rows = own \o call.rows
  OBVIOUS
<1> HIDE DEF own, rows, left
<1>5. /\ \A i \in Missed(rows, Arg) : Newer(rows, i)
      /\ \A n \in DOMAIN items : items[n] \in Missed(rows, Arg) => n <= left * Size
      /\ alone => /\ Asc(rows)
                  /\ \A n \in DOMAIN items : n <= left * Size => Newer(rows, items[n])
  BY <1>3, <1>4 DEF WalkRows
<1>6. CASE left >= 1 /\ Len(rows) < Arg.limit
  <2>1. left \in Nat \ {0}
    BY <1>4, <1>6
  <2>2. /\ new \in CallType /\ new.pc = "walk" /\ new.arg = Arg /\ new.rows = rows
        /\ new.page = left
    BY <1>1, <1>4, <2>1, CallFacts DEF CallType, Arg
  <2> HIDE DEF new
  <2>3. AskedInv(new)
    BY <1>1, <1>3, <2>2, CallFacts DEF AskedInv, Arg
  <2>4. WalkInv(new)
    BY <1>3, <1>5, <1>6, <2>2 DEF WalkInv
  <2>5. CallOK(new)
    BY <1>1, <2>2, <2>3, <2>4
       DEF CallOK, IssuesInv, QueueInv, CursorInv, PartInv, HalvesInv
  <2> QED
    BY <1>1, <1>2, <1>6, <2>5, CallFacts, GotoKeeps
<1>7. CASE ~(left >= 1 /\ Len(rows) < Arg.limit)
  <2>a. IsEnding(last, own, call.rows, Arg.limit)
    BY <1>3, <1>4, <1>a, EndingRows
  <2> HIDE DEF last
  <2>1. /\ last \in Seq(Item)
        /\ Asc(rows) => Asc(last)
        /\ ToSet(last) \subseteq ToSet(rows) /\ ToSet(call.rows) \subseteq ToSet(last)
        /\ Len(rows) <= Arg.limit => last = rows
        /\ \A x \in ToSet(own) : \/ x \in ToSet(last)
                                 \/ \A y \in ToSet(last) : y \in ToSet(call.rows) \/ y.id > x.id
    BY <1>a, <2>a DEF IsEnding
  <2>2. /\ Newest(last) \in Seq(Item) /\ ToSet(Newest(last)) = ToSet(last)
        /\ Asc(last) => Desc(Newest(last))
    BY <2>1, NewestRows
  <2>3. ASSUME NEW i \in Missed(Newest(last), Arg)
        PROVE  Newer(Newest(last), i)
    <3>1. i \in Expected(Arg) /\ i \in ToSet(items) /\ i.id \notin Ids(last)
      BY <1>3, <2>2, <2>3, IdsOfSet DEF Missed, Expected
    <3>2. i \in Missed(call.rows, Arg)
      BY <2>1, <3>1, IdsOfSet DEF Missed
    <3>3. \A y \in ToSet(call.rows) : y.id > i.id
      BY <1>3, <3>2, NewerElements
    <3>4. CASE i.id \in Ids(rows)
      <4>1. PICK x \in ToSet(rows) : x.id = i.id
        BY <3>4, IdsOfSet
      <4>2. x \notin ToSet(call.rows) /\ x \notin ToSet(last)
        BY <2>1, <3>1, <4>1, IdsOfSet
      <4>3. x \in ToSet(own)
        BY <1>4, <4>2
      <4>4. \A y \in ToSet(last) : y.id > i.id
        BY <2>1, <3>3, <4>1, <4>2, <4>3
      <4> QED
        BY <2>2, <4>4, NewerElements
    <3>5. CASE i.id \notin Ids(rows)
      <4>1. \A y \in ToSet(rows) : y.id > i.id
        BY <1>5, <3>1, <3>5, NewerElements DEF Missed
      <4> QED
        BY <2>1, <2>2, <4>1, NewerElements
    <3> QED
      BY <3>4, <3>5
  <2>4. ASSUME ~more
        PROVE  Missed(Newest(last), Arg) = {}
    <3>1. ~(left >= 1) /\ ~(Len(rows) > Arg.limit)
      BY <2>4 DEF OlderRemain
    <3>2. left = 0 /\ last = rows
      <4>1. Len(rows) \in Nat
        BY <1>4
      <4> QED
        BY <1>3, <1>4, <2>1, <3>1, <4>1
    <3>3. left * Size = 0
      BY <1>3, <3>2
    <3>4. \A n \in DOMAIN items : ~(n <= 0)
      BY <1>3
    <3>5. \A n \in DOMAIN items : items[n] \notin Missed(rows, Arg)
      BY <1>5, <3>3, <3>4
    <3>6. Missed(rows, Arg) = {}
      BY <1>3, <3>5 DEF Missed, Expected, ToSet
    <3>7. Missed(Newest(last), Arg) = Missed(rows, Arg)
      BY <2>2, <3>2, IdsOfSet DEF Missed
    <3> QED
      BY <3>6, <3>7
  <2>5. ASSUME alone
        PROVE  \A m, n \in DOMAIN Newest(last) :
                 m # n => Newest(last)[m].id # Newest(last)[n].id
    BY <1>5, <2>1, <2>2, <2>5, OrderedApart
  <2>6. ~alone => ~(alone \/ ~Paged)
    BY <1>1 DEF Paged
  <2> HIDE DEF more
  <2>7. Promised(Newest(last), more, Arg)
    BY <1>1, <1>3, <2>2, <2>3, <2>4, <2>5, <2>6 DEF Promised, Unordered
  <2> QED
    BY <1>1, <1>2, <1>7, <2>7, CallFacts, ReturnKeeps
<1> QED
  BY <1>6, <1>7

-----------------------------------------------------------------------------
(* The theorems.                                                           *)

LEMMA ListingStep == ListingInv /\ [ListingNext]_listVars => ListingInv'
<1> SUFFICES ASSUME ListingInv, [ListingNext]_listVars
             PROVE  ListingInv'
  OBVIOUS
<1>1. CASE Ask(IF list \in Threads THEN CommentArgs ELSE TicketArgs)
  BY <1>1, BeginKeeps
<1>2. CASE TicketNext
  BY <1>2, IssuesPageKeeps, OnePageKeeps, BoardPageKeeps, WorkItemIdsKeeps,
     WorkItemBatchKeeps, PullStubsKeeps, PullFetchKeeps, MergeRequestsKeeps,
     AzurePullsKeeps DEF TicketNext
<1>3. CASE CommentNext
  BY <1>3, CommentPageKeeps, ProbeKeeps, WalkKeeps, AzureNewestKeeps,
     AzureCommentsKeeps DEF CommentNext
<1>4. CASE Environment
  BY <1>4, MakeKeeps, DeleteKeeps, MoveItemKeeps DEF Environment
<1>5. CASE UNCHANGED listVars
  <2>1. UNCHANGED <<list, items, made, call, result, steady, alone>>
    BY <1>5 DEF listVars
  <2>2. WorldInv'
    BY <2>1 DEF ListingInv, WorldInv, Mixed
  <2>3. ResultInv'
    BY <2>1 DEF ListingInv, ResultInv, Promised, Missed, Expected, Uncounted, Paged,
                Unordered
  <2>4. CASE call = Idle
    BY <2>1, <2>2, <2>3, <2>4 DEF ListingInv, CallInv
  <2>5. CASE call # Idle
    <3>1. WorldInv /\ result = NoResult /\ CallOK(call)
      BY <2>5, CallFacts
    <3>2. /\ AskedInv(call)' /\ PartInv(call)' /\ IssuesInv(call)' /\ HalvesInv(call)'
      BY <2>1, <3>1 DEF CallOK, AskedInv, PartInv, IssuesInv, Only, Where, HalvesInv,
                        Missed, Expected
    <3>3. QueueInv(call)' /\ CursorInv(call)' /\ WalkInv(call)'
      BY <2>1, <3>1 DEF CallOK, QueueInv, CutAt, FullAt, CursorInv, WalkInv, Missed,
                        Expected
    <3>4. CallOK(call)'
      BY <2>1, <3>1, <3>2, <3>3 DEF CallOK
    <3> QED
      BY <2>1, <2>2, <2>3, <3>1, <3>4 DEF ListingInv, CallInv
  <2> QED
    BY <2>4, <2>5
<1> QED
  BY <1>1, <1>2, <1>3, <1>4, <1>5 DEF ListingNext

(* What a listing has read so far, is in order and has all that is asked   *)
(* for and has been there all along but for what comes after it: whichever *)
(* pages, cursors or queues it is read by, whatever others do meanwhile.   *)
THEOREM ListingInvariant == ListingSpec => []ListingInv
<1>1. ListingInit => ListingInv
  BY ListInit
<1>2. ListingInv /\ [ListingNext]_listVars => ListingInv'
  BY ListingStep
<1> QED
  BY <1>1, <1>2, PTL DEF ListingSpec

(* When has_more is FALSE the first page of a listing has had everything,  *)
(* but for the cuts in which the code is known to be wrong about it.       *)
THEOREM NothingLeftTheorem == ListingSpec => []NothingLeft
<1>1. ListingInv => NothingLeft
  BY PromisesKept DEF ListingInv
<1> QED
  BY <1>1, ListingInvariant, PTL

(* A listing that is read by cursor, by a queue of numbers or in one       *)
(* request returns no row twice whatever others do; one that is read by    *)
(* pages returns none twice as long as nobody else acts.                   *)
THEOREM NoRepeatsTheorem == ListingSpec => []NoRepeats
<1>1. ListingInv => NoRepeats
  BY PromisesKept DEF ListingInv
<1> QED
  BY <1>1, ListingInvariant, PTL

(* What has been there all along and is left out comes after all that is   *)
(* returned, whatever others do meanwhile; of a search that asks for no    *)
(* order, nothing is left out before a page is full.                       *)
THEOREM NoHolesTheorem == ListingSpec => []NoHoles
<1>1. ListingInv => NoHoles
  BY PromisesKept DEF ListingInv
<1> QED
  BY <1>1, ListingInvariant, PTL
=============================================================================
