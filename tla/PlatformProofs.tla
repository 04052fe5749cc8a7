--------------------------- MODULE PlatformProofs ---------------------------
(***************************************************************************)
(* Proofs about the parts that everything else stands on, for any users,   *)
(* requests and bounds.                                                    *)
(***************************************************************************)
EXTENDS MCPlatform, SequenceTheorems, FiniteSetTheorems, WellFoundedInduction, TLAPS

-----------------------------------------------------------------------------
(* Counting what is under way *)

\* The requests of a part that are at one of these steps.
Busy(requests, pcs) == {r \in Requests : requests[r].pc \in pcs}

Count(requests, pcs) == Cardinality(Busy(requests, pcs))

LEMMA CountIsNatural == ASSUME NEW f, NEW pcs PROVE Count(f, pcs) \in Nat
<1>1. Busy(f, pcs) \in SUBSET Requests
  BY DEF Busy
<1>2. IsFiniteSet(Busy(f, pcs))
  BY <1>1, FS_Subset, PlatformAssumption
<1> QED
  BY <1>2, FS_CardinalityType DEF Count

\* When one request moves, it is counted where it goes and no more where it was.
LEMMA CountMoves ==
    ASSUME NEW f, NEW g, NEW pcs, NEW r \in Requests, NEW x,
           DOMAIN f = Requests, g = [f EXCEPT ![r] = x]
    PROVE  Count(g, pcs) =
             IF x.pc \in pcs
             THEN IF f[r].pc \in pcs THEN Count(f, pcs) ELSE Count(f, pcs) + 1
             ELSE IF f[r].pc \in pcs THEN Count(f, pcs) - 1 ELSE Count(f, pcs)
<1>1. IsFiniteSet(Busy(f, pcs))
  <2>1. Busy(f, pcs) \in SUBSET Requests
    BY DEF Busy
  <2> QED
    BY <2>1, FS_Subset, PlatformAssumption
<1>2. g[r] = x /\ \A q \in Requests \ {r} : g[q] = f[q]
  OBVIOUS
<1>3. CASE x.pc \in pcs
  <2>1. Busy(g, pcs) = Busy(f, pcs) \cup {r}
    BY <1>2, <1>3 DEF Busy
  <2>2. r \in Busy(f, pcs) <=> f[r].pc \in pcs
    BY DEF Busy
  <2> QED
    BY <1>1, <1>3, <2>1, <2>2, FS_AddElement DEF Count
<1>4. CASE x.pc \notin pcs
  <2>1. Busy(g, pcs) = Busy(f, pcs) \ {r}
    BY <1>2, <1>4 DEF Busy
  <2>2. r \in Busy(f, pcs) <=> f[r].pc \in pcs
    BY DEF Busy
  <2> QED
    BY <1>1, <1>4, <2>1, <2>2, FS_RemoveElement DEF Count
<1> QED
  BY <1>3, <1>4

-----------------------------------------------------------------------------
(* Accounts: the inductive invariant *)

UserRow == [company : {"none", "shared", "own"}, role : Roles \cup {"none"},
            active : BOOLEAN, password : 0 .. MaxChanges]

Token == [user : Users, revoked : BOOLEAN, parent : 0 .. MaxTokens, began : 0 .. MaxTokens]

\* A token that was rotated is revoked; a second session from it began before the
\* first rotation.
TokensAreSound(list) ==
    /\ list \in Seq(Token) /\ Len(list) <= MaxTokens
    /\ \A j \in DOMAIN list :
         list[j].parent # 0 =>
           list[j].parent \in DOMAIN list /\ list[list[j].parent].revoked
    /\ \A i, j \in DOMAIN list :
         i < j /\ list[i].parent = list[j].parent /\ list[i].parent # 0 => list[j].began < i

\* What a request has read: a refresh that its token was not rotated yet.
RequestKnows(q, list) ==
    /\ q.pc \in {"free", "login", "refresh", "password", "reset", "update", "audit"}
    /\ q.pc \in {"login", "refresh", "password", "reset", "update"} => q.user \in Users
    /\ q.pc = "login" => q.began \in 0 .. Len(list)
    /\ q.pc = "refresh" =>
         /\ q.began \in 0 .. Len(list) /\ q.parent \in DOMAIN list
         /\ \A j \in DOMAIN list : list[j].parent = q.parent => j > q.began
    /\ q.pc \in {"password", "reset", "update"} => q.read \in UserRow
    /\ q.pc = "update" =>
         /\ q.new \in UserRow /\ q.new.password = q.read.password
         /\ q.new.company = q.read.company

Sessions == {"login", "refresh"}
Changing == {"password", "reset", "update"}

AccountsInv ==
    /\ users \in [Users -> UserRow]
    /\ TokensAreSound(tokens)
    /\ resets \in Seq([user : Users, used : BOOLEAN])
    /\ DOMAIN request = Requests
    /\ \A r \in Requests : RequestKnows(request[r], tokens)
    /\ Len(tokens) + Count(request, Sessions) <= MaxTokens
    /\ changes \in Nat /\ changes + Count(request, Changing) <= MaxChanges
    /\ died \in Nat /\ died <= changes
    /\ unrecorded = died + Count(request, {"audit"})

-----------------------------------------------------------------------------
(* Accounts: lemmas *)

LEMMA AccountsCount ==
    /\ \A S : A!Cardinality(S) = Cardinality(S)
    /\ \A pcs : A!UnderWay(pcs) = Count(request, pcs)
<1>1. \A S : A!Cardinality(S) = Cardinality(S)
  BY DEF A!Cardinality, Cardinality
<1> QED
  BY <1>1 DEF A!UnderWay, Count, Busy

\* The later list has the tokens of the earlier one, perhaps revoked, and more.
Grows(list, new) ==
    /\ new \in Seq(Token) /\ Len(list) <= Len(new)
    /\ \A i \in 1 .. Len(list) :
         /\ new[i].user = list[i].user /\ new[i].parent = list[i].parent
         /\ new[i].began = list[i].began /\ (list[i].revoked => new[i].revoked)

LEMMA KnowsGrows ==
    ASSUME NEW list \in Seq(Token), NEW new, Grows(list, new), NEW q, RequestKnows(q, list)
    PROVE  RequestKnows(q, new)
<1>1. /\ DOMAIN list = 1 .. Len(list) /\ Len(list) \in Nat
      /\ DOMAIN new = 1 .. Len(new) /\ Len(new) \in Nat /\ Len(list) <= Len(new)
  BY DEF Grows
<1>2. q.pc = "login" => q.began \in 0 .. Len(new)
  BY <1>1 DEF RequestKnows
<1>3. ASSUME q.pc = "refresh"
      PROVE  /\ q.began \in 0 .. Len(new) /\ q.parent \in DOMAIN new
             /\ \A j \in DOMAIN new : new[j].parent = q.parent => j > q.began
  <2>1. /\ q.began \in 0 .. Len(list) /\ q.parent \in DOMAIN list
        /\ \A j \in DOMAIN list : list[j].parent = q.parent => j > q.began
    BY <1>3 DEF RequestKnows
  <2>2. ASSUME NEW j \in DOMAIN new, new[j].parent = q.parent PROVE j > q.began
    <3>1. CASE j <= Len(list)
      <4>1. j \in 1 .. Len(list)
        BY <1>1, <3>1
      <4> QED
        BY <1>1, <2>1, <2>2, <4>1 DEF Grows
    <3>2. CASE ~(j <= Len(list))
      BY <1>1, <2>1, <3>2
    <3> QED
      BY <3>1, <3>2
  <2> QED
    BY <1>1, <2>1, <2>2
<1> QED
  BY <1>2, <1>3 DEF RequestKnows

LEMMA RevokedTokens ==
    ASSUME NEW list, TokensAreSound(list), NEW new, Grows(list, new), Len(new) = Len(list)
    PROVE  TokensAreSound(new)
<1>1. /\ DOMAIN list = 1 .. Len(list) /\ DOMAIN new = 1 .. Len(list) /\ Len(list) \in Nat
      /\ list \in Seq(Token) /\ new \in Seq(Token) /\ Len(new) <= MaxTokens
  BY DEF TokensAreSound, Grows
<1>2. ASSUME NEW j \in DOMAIN new, new[j].parent # 0
      PROVE  new[j].parent \in DOMAIN new /\ new[new[j].parent].revoked
  <2>1. new[j].parent = list[j].parent
    BY <1>1 DEF Grows
  <2>2. list[j].parent \in DOMAIN list /\ list[list[j].parent].revoked
    BY <1>1, <1>2, <2>1 DEF TokensAreSound
  <2> QED
    BY <1>1, <2>1, <2>2 DEF Grows
<1>3. ASSUME NEW i \in DOMAIN new, NEW j \in DOMAIN new, i < j,
             new[i].parent = new[j].parent, new[i].parent # 0
      PROVE  new[j].began < i
  <2>1. /\ new[i].parent = list[i].parent /\ new[j].parent = list[j].parent
        /\ new[j].began = list[j].began
    BY <1>1 DEF Grows
  <2> QED
    BY <1>1, <1>3, <2>1 DEF TokensAreSound
<1> QED
  BY <1>1, <1>2, <1>3 DEF TokensAreSound

\* A session that is issued to a request that saw its parent before it was rotated.
LEMMA IssuedTokens ==
    ASSUME NEW list, TokensAreSound(list), NEW u \in Users, NEW parent, NEW began,
           Len(list) + 1 <= MaxTokens, began \in 0 .. Len(list),
           parent = 0 \/ (/\ parent \in DOMAIN list /\ list[parent].revoked
                          /\ \A j \in DOMAIN list : list[j].parent = parent => j > began)
    PROVE  /\ TokensAreSound(A!Issue(list, u, parent, began))
           /\ Grows(list, A!Issue(list, u, parent, began))
           /\ Len(A!Issue(list, u, parent, began)) = Len(list) + 1
<1> DEFINE token == [user |-> u, revoked |-> FALSE, parent |-> parent, began |-> began]
           new == Append(list, token)
<1>1. list \in Seq(Token) /\ Len(list) \in Nat /\ DOMAIN list = 1 .. Len(list) /\ MaxTokens \in Nat
  BY PlatformAssumption DEF TokensAreSound
<1>2. token \in Token /\ token.parent = parent /\ token.began = began
  <2>1. parent \in 0 .. MaxTokens /\ began \in 0 .. MaxTokens
    BY <1>1
  <2> QED
    BY <2>1 DEF Token
<1>3. A!Issue(list, u, parent, began) = new
  BY DEF A!Issue
<1> HIDE DEF token
<1>4. /\ new \in Seq(Token) /\ Len(new) = Len(list) + 1 /\ DOMAIN new = 1 .. Len(list) + 1
      /\ new[Len(list) + 1] = token /\ \A i \in 1 .. Len(list) : new[i] = list[i]
  BY <1>1, <1>2
<1> HIDE DEF new
<1>5. Grows(list, new)
  BY <1>1, <1>4 DEF Grows
<1>6. ASSUME NEW j \in DOMAIN new, new[j].parent # 0
      PROVE  new[j].parent \in DOMAIN new /\ new[new[j].parent].revoked
  <2>1. CASE j = Len(list) + 1
    BY <1>1, <1>2, <1>4, <1>6, <2>1
  <2>2. CASE j # Len(list) + 1
    <3>1. j \in DOMAIN list /\ new[j] = list[j]
      BY <1>1, <1>4, <2>2
    <3>2. list[j].parent \in DOMAIN list /\ list[list[j].parent].revoked
      BY <1>6, <3>1 DEF TokensAreSound
    <3> QED
      BY <1>1, <1>4, <3>1, <3>2
  <2> QED
    BY <2>1, <2>2
<1>7. ASSUME NEW i \in DOMAIN new, NEW j \in DOMAIN new, i < j,
             new[i].parent = new[j].parent, new[i].parent # 0
      PROVE  new[j].began < i
  <2>1. i \in DOMAIN list /\ new[i] = list[i]
    BY <1>1, <1>4, <1>7
  <2>2. CASE j = Len(list) + 1
    <3>1. new[j].began = began /\ list[i].parent = parent /\ parent # 0
      BY <1>2, <1>4, <1>7, <2>1, <2>2
    <3> QED
      BY <1>1, <2>1, <3>1
  <2>3. CASE j # Len(list) + 1
    <3>1. j \in DOMAIN list /\ new[j] = list[j]
      BY <1>1, <1>4, <2>3
    <3> QED
      BY <1>7, <2>1, <3>1 DEF TokensAreSound
  <2> QED
    BY <2>2, <2>3
<1> QED
  BY <1>1, <1>3, <1>4, <1>5, <1>6, <1>7 DEF TokensAreSound

-----------------------------------------------------------------------------
(* Accounts: every step keeps the invariant *)

\* What a step that moves one request does to all of them and to their numbers.
LEMMA RequestMoves ==
    ASSUME AccountsInv, NEW r \in Requests, NEW x, request' = [request EXCEPT ![r] = x],
           Grows(tokens, tokens'), RequestKnows(x, tokens')
    PROVE  /\ DOMAIN request' = Requests
           /\ \A q \in Requests : RequestKnows(request'[q], tokens')
           /\ \A pcs : Count(request, pcs) \in Nat /\ Count(request', pcs) \in Nat
           /\ \A pcs : Count(request', pcs) =
                IF x.pc \in pcs
                THEN IF request[r].pc \in pcs THEN Count(request, pcs)
                     ELSE Count(request, pcs) + 1
                ELSE IF request[r].pc \in pcs THEN Count(request, pcs) - 1
                     ELSE Count(request, pcs)
<1>1. DOMAIN request = Requests /\ tokens \in Seq(Token)
      /\ \A q \in Requests : RequestKnows(request[q], tokens)
  BY DEF AccountsInv, TokensAreSound
<1>2. ASSUME NEW q \in Requests PROVE RequestKnows(request'[q], tokens')
  <2>1. CASE q = r
    BY <1>1, <2>1
  <2>2. CASE q # r
    <3>1. request'[q] = request[q]
      BY <1>1, <2>2
    <3>2. RequestKnows(request[q], tokens)
      BY <1>1
    <3> QED
      BY <1>1, <3>1, <3>2, KnowsGrows
  <2> QED
    BY <2>1, <2>2
<1>3. \A pcs : Count(request, pcs) \in Nat /\ Count(request', pcs) \in Nat
  BY CountIsNatural
<1>4. ASSUME NEW pcs
      PROVE  Count(request', pcs) =
                IF x.pc \in pcs
                THEN IF request[r].pc \in pcs THEN Count(request, pcs)
                     ELSE Count(request, pcs) + 1
                ELSE IF request[r].pc \in pcs THEN Count(request, pcs) - 1
                     ELSE Count(request, pcs)
  BY <1>1, CountMoves
<1>5. DOMAIN request' = Requests
  BY <1>1
<1> QED
  BY <1>2, <1>3, <1>4, <1>5

\* A request that has read its rows.
LEMMA Begun ==
    ASSUME AccountsInv, NEW r \in Requests, NEW x, A!Begin(r, x), RequestKnows(x, tokens),
           \/ x.pc \in Sessions /\ A!RoomForToken
           \/ x.pc \in Changing /\ A!RoomForChange
    PROVE  AccountsInv'
<1>1. request' = [request EXCEPT ![r] = x] /\ request[r].pc = "free"
      /\ UNCHANGED <<users, tokens, resets, changes, unrecorded, died>>
  BY DEF A!Begin, A!NoRequest
<1>2. /\ tokens \in Seq(Token) /\ Len(tokens) \in Nat /\ changes \in Nat
      /\ Len(tokens) + Count(request, Sessions) <= MaxTokens
      /\ changes + Count(request, Changing) <= MaxChanges
      /\ MaxTokens \in Nat /\ MaxChanges \in Nat
  BY PlatformAssumption DEF AccountsInv, TokensAreSound
<1>3. Grows(tokens, tokens') /\ RequestKnows(x, tokens')
  BY <1>1, <1>2 DEF Grows
<1>4. /\ DOMAIN request' = Requests
      /\ \A q \in Requests : RequestKnows(request'[q], tokens')
      /\ \A pcs : Count(request, pcs) \in Nat /\ Count(request', pcs) \in Nat
      /\ \A pcs : Count(request', pcs) =
                IF x.pc \in pcs
                THEN IF request[r].pc \in pcs THEN Count(request, pcs)
                     ELSE Count(request, pcs) + 1
                ELSE IF request[r].pc \in pcs THEN Count(request, pcs) - 1
                     ELSE Count(request, pcs)
  BY <1>1, <1>3, RequestMoves
<1>5. Count(request', {"audit"}) = Count(request, {"audit"})
  BY <1>1, <1>4 DEF Sessions, Changing
<1>6. A!RoomForToken => Len(tokens) + Count(request, Sessions) < MaxTokens
  BY AccountsCount DEF A!RoomForToken, Sessions
<1>7. A!RoomForChange => changes + Count(request, Changing) < MaxChanges
  BY AccountsCount DEF A!RoomForChange, Changing
<1>8. Len(tokens') + Count(request', Sessions) <= MaxTokens
  <2>1. CASE x.pc \in Sessions
    <3>1. A!RoomForToken /\ Count(request', Sessions) = Count(request, Sessions) + 1
      BY <1>1, <1>4, <2>1 DEF Sessions, Changing
    <3> QED
      BY <1>1, <1>2, <1>4, <1>6, <3>1
  <2>2. CASE x.pc \notin Sessions
    <3>1. Count(request', Sessions) = Count(request, Sessions)
      BY <1>1, <1>4, <2>2 DEF Sessions
    <3> QED
      BY <1>1, <1>2, <3>1
  <2> QED
    BY <2>1, <2>2
<1>9. changes' + Count(request', Changing) <= MaxChanges
  <2>1. CASE x.pc \in Changing
    <3>1. A!RoomForChange /\ Count(request', Changing) = Count(request, Changing) + 1
      BY <1>1, <1>4, <2>1 DEF Sessions, Changing
    <3> QED
      BY <1>1, <1>2, <1>4, <1>7, <3>1
  <2>2. CASE x.pc \notin Changing
    <3>1. Count(request', Changing) = Count(request, Changing)
      BY <1>1, <1>4, <2>2 DEF Changing
    <3> QED
      BY <1>1, <1>2, <3>1
  <2> QED
    BY <2>1, <2>2
<1> QED
  BY <1>1, <1>4, <1>5, <1>8, <1>9 DEF AccountsInv

\* A request that commits.
LEMMA Committed ==
    ASSUME AccountsInv, NEW r \in Requests, A!Commit(r), request[r].pc # "audit",
           users' \in [Users -> UserRow], resets' \in Seq([user : Users, used : BOOLEAN]),
           TokensAreSound(tokens'), Grows(tokens, tokens'),
           \/ Len(tokens') = Len(tokens)
           \/ request[r].pc \in Sessions /\ Len(tokens') = Len(tokens) + 1,
           \/ changes' = changes
           \/ /\ changes' = changes + 1
              /\ request[r].pc \in Changing \/ A!RoomForChange
    PROVE  AccountsInv'
<1> DEFINE x == [pc |-> "audit"]
<1>1. request' = [request EXCEPT ![r] = x] /\ unrecorded' = unrecorded + 1 /\ died' = died
  BY DEF A!Commit
<1>2. /\ tokens \in Seq(Token) /\ Len(tokens) \in Nat /\ changes \in Nat
      /\ Len(tokens) + Count(request, Sessions) <= MaxTokens
      /\ changes + Count(request, Changing) <= MaxChanges
      /\ died \in Nat /\ died <= changes /\ unrecorded = died + Count(request, {"audit"})
      /\ MaxTokens \in Nat /\ MaxChanges \in Nat
  BY PlatformAssumption DEF AccountsInv, TokensAreSound
<1>3. RequestKnows(x, tokens') /\ x.pc = "audit"
  BY DEF RequestKnows
<1> HIDE DEF x
<1>4. /\ DOMAIN request' = Requests
      /\ \A q \in Requests : RequestKnows(request'[q], tokens')
      /\ \A pcs : Count(request, pcs) \in Nat /\ Count(request', pcs) \in Nat
      /\ \A pcs : Count(request', pcs) =
                IF x.pc \in pcs
                THEN IF request[r].pc \in pcs THEN Count(request, pcs)
                     ELSE Count(request, pcs) + 1
                ELSE IF request[r].pc \in pcs THEN Count(request, pcs) - 1
                     ELSE Count(request, pcs)
  BY <1>1, <1>3, RequestMoves
<1>5. Count(request', {"audit"}) = Count(request, {"audit"}) + 1
  BY <1>3, <1>4
<1>6. A!RoomForChange => changes + Count(request, Changing) < MaxChanges
  BY AccountsCount DEF A!RoomForChange, Changing
<1>7. Len(tokens') + Count(request', Sessions) <= MaxTokens
  <2>1. Count(request', Sessions) = IF request[r].pc \in Sessions
                                    THEN Count(request, Sessions) - 1 ELSE Count(request, Sessions)
    BY <1>3, <1>4 DEF Sessions
  <2>2. Count(request, Sessions) \in Nat
    BY <1>4
  <2> QED
    BY <1>2, <2>1, <2>2
<1>8. changes' + Count(request', Changing) <= MaxChanges
  <2>1. Count(request', Changing) = IF request[r].pc \in Changing
                                    THEN Count(request, Changing) - 1 ELSE Count(request, Changing)
    BY <1>3, <1>4 DEF Changing
  <2>2. Count(request, Changing) \in Nat
    BY <1>4
  <2> QED
    BY <1>2, <1>6, <2>1, <2>2
<1>9. unrecorded' = died' + Count(request', {"audit"})
  <2>1. Count(request, {"audit"}) \in Nat
    BY <1>4
  <2> QED
    BY <1>1, <1>2, <1>5, <2>1
<1>10. changes' \in Nat /\ died' \in Nat /\ died' <= changes'
  BY <1>1, <1>2
<1> QED
  BY <1>4, <1>7, <1>8, <1>9, <1>10 DEF AccountsInv

\* A request that ends: refused, recorded or dead.
LEMMA Freed ==
    ASSUME AccountsInv, NEW r \in Requests, request' = [request EXCEPT ![r] = A!NoRequest],
           UNCHANGED <<users, tokens, resets>>,
           \/ changes' = changes
           \/ changes' = changes + 1 /\ A!RoomForChange,
           \/ unrecorded' = unrecorded /\ died' = died /\ request[r].pc # "audit"
           \/ unrecorded' = unrecorded - 1 /\ died' = died /\ request[r].pc = "audit"
           \/ /\ unrecorded' = unrecorded /\ died' = died + 1 /\ request[r].pc = "audit"
              /\ changes' = changes + 1
    PROVE  AccountsInv'
<1> DEFINE x == A!NoRequest
<1>1. request' = [request EXCEPT ![r] = x]
  OBVIOUS
<1>2. /\ tokens \in Seq(Token) /\ Len(tokens) \in Nat /\ changes \in Nat
      /\ Len(tokens) + Count(request, Sessions) <= MaxTokens
      /\ changes + Count(request, Changing) <= MaxChanges
      /\ died \in Nat /\ died <= changes /\ unrecorded = died + Count(request, {"audit"})
      /\ MaxTokens \in Nat /\ MaxChanges \in Nat
  BY PlatformAssumption DEF AccountsInv, TokensAreSound
<1>3. RequestKnows(x, tokens') /\ x.pc = "free"
  BY DEF RequestKnows, A!NoRequest
<1> HIDE DEF x
<1>4. Grows(tokens, tokens')
  BY <1>2 DEF Grows
<1>5. /\ DOMAIN request' = Requests
      /\ \A q \in Requests : RequestKnows(request'[q], tokens')
      /\ \A pcs : Count(request, pcs) \in Nat /\ Count(request', pcs) \in Nat
      /\ \A pcs : Count(request', pcs) =
                IF x.pc \in pcs
                THEN IF request[r].pc \in pcs THEN Count(request, pcs)
                     ELSE Count(request, pcs) + 1
                ELSE IF request[r].pc \in pcs THEN Count(request, pcs) - 1
                     ELSE Count(request, pcs)
  BY <1>1, <1>3, <1>4, RequestMoves
<1>6. A!RoomForChange => changes + Count(request, Changing) < MaxChanges
  BY AccountsCount DEF A!RoomForChange, Changing
<1>7. Len(tokens') + Count(request', Sessions) <= MaxTokens
  <2>1. Count(request', Sessions) = IF request[r].pc \in Sessions
                                    THEN Count(request, Sessions) - 1 ELSE Count(request, Sessions)
    BY <1>3, <1>5 DEF Sessions
  <2>2. Count(request, Sessions) \in Nat
    BY <1>5
  <2> QED
    BY <1>2, <2>1, <2>2
<1>8. changes' + Count(request', Changing) <= MaxChanges
  <2>1. Count(request', Changing) = IF request[r].pc \in Changing
                                    THEN Count(request, Changing) - 1 ELSE Count(request, Changing)
    BY <1>3, <1>5 DEF Changing
  <2>2. Count(request, Changing) \in Nat
    BY <1>5
  <2> QED
    BY <1>2, <1>6, <2>1, <2>2
<1>9. unrecorded' = died' + Count(request', {"audit"})
  <2>1. Count(request, {"audit"}) \in Nat
    BY <1>5
  <2>2. Count(request', {"audit"}) = IF request[r].pc = "audit"
                                     THEN Count(request, {"audit"}) - 1
                                     ELSE Count(request, {"audit"})
    BY <1>3, <1>5
  <2> QED
    BY <1>2, <2>1, <2>2
<1>10. changes' \in Nat /\ died' \in Nat /\ died' <= changes'
  BY <1>2
<1>11. /\ users' \in [Users -> UserRow] /\ TokensAreSound(tokens')
       /\ resets' \in Seq([user : Users, used : BOOLEAN])
  BY DEF AccountsInv
<1> QED
  BY <1>5, <1>7, <1>8, <1>9, <1>10, <1>11 DEF AccountsInv

LEMMA RevokedOne ==
    ASSUME NEW list \in Seq(Token), NEW i \in DOMAIN list,
           NEW new, new = [list EXCEPT ![i].revoked = TRUE]
    PROVE  /\ Grows(list, new) /\ Len(new) = Len(list) /\ new[i].revoked
           /\ \A j \in DOMAIN list : j # i => new[j] = list[j]
<1> DEFINE token == [list[i] EXCEPT !.revoked = TRUE]
<1>1. list[i] \in Token
  OBVIOUS
<1>2. token \in Token /\ token.user = list[i].user /\ token.parent = list[i].parent
      /\ token.began = list[i].began /\ token.revoked
  BY <1>1 DEF Token
<1>3. new = [list EXCEPT ![i] = token]
  OBVIOUS
<1> HIDE DEF token
<1>4. /\ new \in Seq(Token) /\ Len(new) = Len(list) /\ new[i] = token
      /\ \A j \in 1 .. Len(list) : j # i => new[j] = list[j]
      /\ DOMAIN list = 1 .. Len(list) /\ Len(list) \in Nat
  <2>1. DOMAIN list = 1 .. Len(list) /\ Len(list) \in Nat /\ list \in [1 .. Len(list) -> Token]
    OBVIOUS
  <2>2. new \in [1 .. Len(list) -> Token]
    BY <1>2, <1>3, <2>1
  <2>3. new[i] = token /\ \A j \in 1 .. Len(list) : j # i => new[j] = list[j]
    BY <1>3, <2>1
  <2>4. new \in Seq(Token) /\ Len(new) = Len(list)
    BY <2>1, <2>2
  <2> QED
    BY <2>1, <2>3, <2>4
<1>5. ASSUME NEW j \in 1 .. Len(list)
      PROVE  /\ new[j].user = list[j].user /\ new[j].parent = list[j].parent
             /\ new[j].began = list[j].began /\ (list[j].revoked => new[j].revoked)
  BY <1>2, <1>4
<1>6. Grows(list, new)
  BY <1>4, <1>5 DEF Grows
<1> QED
  BY <1>2, <1>4, <1>6

LEMMA RevokedOfUser ==
    ASSUME NEW list \in Seq(Token), NEW u
    PROVE  LET new == A!revoke_user_refresh_tokens(list, u) IN
           /\ Grows(list, new) /\ Len(new) = Len(list)
           /\ \A i \in DOMAIN list : list[i].user = u => new[i].revoked
           /\ \A i \in DOMAIN list : list[i].user # u => new[i] = list[i]
<1> DEFINE new == A!revoke_user_refresh_tokens(list, u)
<1>1. DOMAIN list = 1 .. Len(list) /\ Len(list) \in Nat
  OBVIOUS
<1>2. new = [i \in 1 .. Len(list) |-> IF list[i].user = u THEN [list[i] EXCEPT !.revoked = TRUE]
                                      ELSE list[i]]
  BY <1>1 DEF A!revoke_user_refresh_tokens
<1> HIDE DEF new
<1>3. ASSUME NEW i \in 1 .. Len(list)
      PROVE  /\ new[i] \in Token /\ new[i].user = list[i].user
             /\ new[i].parent = list[i].parent /\ new[i].began = list[i].began
             /\ list[i].revoked => new[i].revoked
             /\ list[i].user = u => new[i].revoked
             /\ list[i].user # u => new[i] = list[i]
  <2>1. list[i] \in Token
    BY <1>1, <1>3
  <2>2. new[i] = IF list[i].user = u THEN [list[i] EXCEPT !.revoked = TRUE] ELSE list[i]
    BY <1>2, <1>3
  <2>3. CASE list[i].user = u
    <3> DEFINE token == [list[i] EXCEPT !.revoked = TRUE]
    <3>1. token \in Token /\ token.user = list[i].user /\ token.parent = list[i].parent
          /\ token.began = list[i].began /\ token.revoked
      BY <2>1 DEF Token
    <3>2. new[i] = token
      BY <2>2, <2>3
    <3> HIDE DEF token
    <3> QED
      BY <2>3, <3>1, <3>2
  <2>4. CASE list[i].user # u
    BY <2>1, <2>2, <2>4
  <2> QED
    BY <2>3, <2>4
<1>4. new \in [1 .. Len(list) -> Token]
  BY <1>2, <1>3
<1>5. new \in Seq(Token) /\ Len(new) = Len(list)
  BY <1>1, <1>4
<1>6. Grows(list, new)
  BY <1>1, <1>3, <1>5 DEF Grows
<1> QED
  BY <1>1, <1>3, <1>5, <1>6 DEF new

\* What a unit of work leaves in the row of a user.
LEMMA FlushedRow ==
    ASSUME NEW row \in UserRow, NEW read \in UserRow, NEW new \in UserRow
    PROVE  /\ A!Flush(row, read, new) \in UserRow
           /\ \A f \in {"company", "role", "active", "password"} :
                A!Flush(row, read, new)[f] = IF new[f] # read[f] THEN new[f] ELSE row[f]
<1> DEFINE after == A!Flush(row, read, new)
<1>1. DOMAIN row = {"company", "role", "active", "password"}
  BY DEF UserRow
<1>2. after = [f \in {"company", "role", "active", "password"} |->
                 IF new[f] # read[f] THEN new[f] ELSE row[f]]
  BY <1>1 DEF A!Flush
<1>3. after = [company |-> after.company, role |-> after.role,
               active |-> after.active, password |-> after.password]
  BY <1>2
<1>4. /\ after.company \in {"none", "shared", "own"} /\ after.role \in Roles \cup {"none"}
      /\ after.active \in BOOLEAN /\ after.password \in 0 .. MaxChanges
  BY <1>2 DEF UserRow
<1> QED
  BY <1>2, <1>3, <1>4 DEF UserRow

LEMMA AccountRows ==
    ASSUME AccountsInv
    PROVE  /\ tokens \in Seq(Token) /\ Len(tokens) \in Nat /\ DOMAIN tokens = 1 .. Len(tokens)
           /\ TokensAreSound(tokens) /\ Grows(tokens, tokens)
           /\ \A u \in Users : users[u] \in UserRow
           /\ \A i \in DOMAIN tokens : tokens[i] \in Token /\ tokens[i].user \in Users
           /\ \A r \in Requests : RequestKnows(request[r], tokens)
<1>1. tokens \in Seq(Token) /\ TokensAreSound(tokens)
  BY DEF AccountsInv, TokensAreSound
<1>2. \A i \in DOMAIN tokens : tokens[i] \in Token /\ tokens[i].user \in Users
  <2>1. \A i \in DOMAIN tokens : tokens[i] \in Token
    BY <1>1
  <2> QED
    BY <2>1 DEF Token
<1>3. Grows(tokens, tokens)
  BY <1>1 DEF Grows
<1> QED
  BY <1>1, <1>2, <1>3 DEF AccountsInv

LEMMA ReadLoginKeeps ==
    ASSUME AccountsInv, NEW r \in Requests, A!ReadLogin(r)
    PROVE  AccountsInv'
<1>1. PICK u \in Users : A!Begin(r, [pc |-> "login", user |-> u, parent |-> 0,
                                     began |-> Len(tokens)])
  BY DEF A!ReadLogin
<1> DEFINE x == [pc |-> "login", user |-> u, parent |-> 0, began |-> Len(tokens)]
<1>2. RequestKnows(x, tokens) /\ x.pc = "login"
  BY AccountRows DEF RequestKnows
<1>3. A!Begin(r, x) /\ A!RoomForToken
  BY <1>1 DEF A!ReadLogin
<1> HIDE DEF x
<1> QED
  BY <1>2, <1>3, Begun DEF Sessions

LEMMA ReadRefreshKeeps ==
    ASSUME AccountsInv, NEW r \in Requests, A!ReadRefresh(r)
    PROVE  AccountsInv'
<1>1. PICK i \in DOMAIN tokens :
           /\ A!Usable(i)
           /\ A!Begin(r, [pc |-> "refresh", user |-> tokens[i].user, parent |-> i,
                          began |-> Len(tokens)])
  BY DEF A!ReadRefresh
<1> DEFINE x == [pc |-> "refresh", user |-> tokens[i].user, parent |-> i, began |-> Len(tokens)]
<1>2. x.pc = "refresh" /\ x.user \in Users /\ x.parent = i /\ x.began = Len(tokens)
  BY AccountRows
<1>3. A!Begin(r, x) /\ A!RoomForToken
  BY <1>1 DEF A!ReadRefresh
<1> HIDE DEF x
<1>4. ASSUME NEW j \in DOMAIN tokens, tokens[j].parent = i PROVE FALSE
  <2>1. i # 0 /\ tokens[i].revoked
    BY <1>4, AccountRows DEF TokensAreSound
  <2> QED
    BY <1>1, <2>1 DEF A!Usable
<1>5. RequestKnows(x, tokens)
  BY <1>2, <1>4, AccountRows DEF RequestKnows
<1> QED
  BY <1>2, <1>3, <1>5, Begun DEF Sessions

LEMMA ReadPasswordKeeps ==
    ASSUME AccountsInv, NEW r \in Requests, A!ReadPassword(r)
    PROVE  AccountsInv'
<1>1. PICK u \in Users : A!Begin(r, [pc |-> "password", user |-> u, read |-> users[u]])
  BY DEF A!ReadPassword
<1> DEFINE x == [pc |-> "password", user |-> u, read |-> users[u]]
<1>2. RequestKnows(x, tokens) /\ x.pc = "password"
  BY AccountRows DEF RequestKnows
<1>3. A!Begin(r, x) /\ A!RoomForChange
  BY <1>1 DEF A!ReadPassword
<1> HIDE DEF x
<1> QED
  BY <1>2, <1>3, Begun DEF Changing

LEMMA ReadResetKeeps ==
    ASSUME AccountsInv, NEW r \in Requests, A!ReadReset(r)
    PROVE  AccountsInv'
<1>1. PICK i \in DOMAIN resets :
           A!Begin(r, [pc |-> "reset", user |-> resets[i].user,
                       read |-> users[resets[i].user], token |-> i])
  BY DEF A!ReadReset
<1> DEFINE x == [pc |-> "reset", user |-> resets[i].user, read |-> users[resets[i].user],
                 token |-> i]
<1>2. resets[i] \in [user : Users, used : BOOLEAN]
  <2> DEFINE Reset == [user : Users, used : BOOLEAN]
  <2>1. resets \in Seq(Reset)
    BY DEF AccountsInv
  <2> HIDE DEF Reset
  <2>2. resets[i] \in Reset
    BY <2>1
  <2> QED
    BY <2>2 DEF Reset
<1>3. resets[i].user \in Users
  BY <1>2
<1>4. RequestKnows(x, tokens) /\ x.pc = "reset"
  BY <1>3, AccountRows DEF RequestKnows
<1>5. A!Begin(r, x) /\ A!RoomForChange
  BY <1>1 DEF A!ReadReset
<1> HIDE DEF x
<1> QED
  BY <1>4, <1>5, Begun DEF Changing

LEMMA ReadTargetKeeps ==
    ASSUME AccountsInv, NEW r \in Requests, A!ReadTarget(r)
    PROVE  AccountsInv'
<1>1. PICK u \in Users, role \in Roles, active \in BOOLEAN :
           A!Begin(r, [pc |-> "update", user |-> u, read |-> users[u],
                       new |-> [users[u] EXCEPT !.role = role, !.active = active]])
  BY DEF A!ReadTarget
<1> DEFINE new == [users[u] EXCEPT !.role = role, !.active = active]
           x == [pc |-> "update", user |-> u, read |-> users[u], new |-> new]
<1>2. users[u] \in UserRow
  BY AccountRows
<1>3. new \in UserRow /\ new.password = users[u].password /\ new.company = users[u].company
  BY <1>2 DEF UserRow
<1>4. A!Begin(r, x) /\ A!RoomForChange
  BY <1>1 DEF A!ReadTarget
<1> HIDE DEF new
<1>5. RequestKnows(x, tokens) /\ x.pc = "update"
  BY <1>2, <1>3 DEF RequestKnows
<1> HIDE DEF x
<1> QED
  BY <1>4, <1>5, Begun DEF Changing

LEMMA SessionsUnderWay ==
    ASSUME AccountsInv, NEW r \in Requests, NEW pcs, request[r].pc \in pcs
    PROVE  Count(request, pcs) >= 1
<1>1. Busy(request, pcs) \in SUBSET Requests /\ r \in Busy(request, pcs)
  BY DEF Busy
<1>2. IsFiniteSet(Busy(request, pcs))
  BY <1>1, FS_Subset, PlatformAssumption
<1>3. Count(request, pcs) # 0
  BY <1>1, <1>2, FS_EmptySet DEF Count
<1> QED
  BY <1>3, CountIsNatural

LEMMA GrowsOn ==
    ASSUME NEW l1 \in Seq(Token), NEW l2, NEW l3, Grows(l1, l2), Grows(l2, l3)
    PROVE  Grows(l1, l3)
<1>1. Len(l1) \in Nat /\ Len(l2) \in Nat /\ Len(l3) \in Nat
  BY DEF Grows
<1>2. Len(l1) <= Len(l3) /\ l3 \in Seq(Token)
  BY <1>1 DEF Grows
<1>3. ASSUME NEW i \in 1 .. Len(l1)
      PROVE  /\ l3[i].user = l1[i].user /\ l3[i].parent = l1[i].parent
             /\ l3[i].began = l1[i].began /\ (l1[i].revoked => l3[i].revoked)
  <2>1. i \in 1 .. Len(l2)
    BY <1>1 DEF Grows
  <2> QED
    BY <2>1 DEF Grows
<1> QED
  BY <1>2, <1>3 DEF Grows

LEMMA LoginKeeps ==
    ASSUME AccountsInv, NEW r \in Requests, A!login(r)
    PROVE  AccountsInv'
<1> DEFINE q == request[r]
<1>1. /\ q.pc = "login" /\ q.user \in Users /\ q.began \in 0 .. Len(tokens)
      /\ tokens' = A!Issue(tokens, q.user, 0, q.began)
      /\ A!Commit(r) /\ UNCHANGED <<users, resets, changes>>
  BY AccountRows DEF A!login, RequestKnows
<1>2. Len(tokens) + Count(request, Sessions) <= MaxTokens /\ Count(request, Sessions) >= 1
  BY <1>1, SessionsUnderWay DEF AccountsInv, Sessions
<1>3. Len(tokens) + 1 <= MaxTokens
  BY <1>2, AccountRows, CountIsNatural, PlatformAssumption
<1>4. TokensAreSound(tokens') /\ Grows(tokens, tokens') /\ Len(tokens') = Len(tokens) + 1
  BY <1>1, <1>3, AccountRows, IssuedTokens
<1> QED
  BY <1>1, <1>4, Committed DEF AccountsInv, Sessions

LEMMA RefreshKeeps ==
    ASSUME AccountsInv, NEW r \in Requests, A!refresh(r)
    PROVE  AccountsInv'
<1> DEFINE q == request[r]
           list == [tokens EXCEPT ![q.parent].revoked = TRUE]
<1>1. /\ q.pc = "refresh" /\ q.user \in Users /\ q.began \in 0 .. Len(tokens)
      /\ q.parent \in DOMAIN tokens
      /\ \A j \in DOMAIN tokens : tokens[j].parent = q.parent => j > q.began
      /\ tokens' = A!Issue(list, q.user, q.parent, q.began)
      /\ A!Commit(r) /\ UNCHANGED <<users, resets, changes>>
  BY AccountRows DEF A!refresh, RequestKnows
<1>2. Len(tokens) + Count(request, Sessions) <= MaxTokens /\ Count(request, Sessions) >= 1
  BY <1>1, SessionsUnderWay DEF AccountsInv, Sessions
<1>3. Len(tokens) + 1 <= MaxTokens
  BY <1>2, AccountRows, CountIsNatural, PlatformAssumption
<1> DEFINE parent == q.parent
<1>4. list = [tokens EXCEPT ![parent].revoked = TRUE] /\ parent \in DOMAIN tokens
  BY <1>1
<1> HIDE DEF list, parent
<1>5. Grows(tokens, list) /\ Len(list) = Len(tokens) /\ list[parent].revoked
  BY <1>4, AccountRows, RevokedOne
<1>6. Grows(tokens, list) /\ Len(list) = Len(tokens) /\ list[q.parent].revoked
  BY <1>5 DEF parent
<1>7. TokensAreSound(list) /\ DOMAIN list = DOMAIN tokens
  BY <1>6, AccountRows, RevokedTokens DEF Grows
<1>8. \A j \in DOMAIN list : list[j].parent = q.parent => j > q.began
  BY <1>1, <1>6, <1>7, AccountRows DEF Grows
<1>9. /\ TokensAreSound(tokens') /\ Grows(list, tokens') /\ Len(tokens') = Len(list) + 1
  BY <1>1, <1>3, <1>6, <1>7, <1>8, IssuedTokens
<1>10. Grows(tokens, tokens')
  BY <1>6, <1>9, AccountRows, GrowsOn
<1> QED
  BY <1>1, <1>6, <1>9, <1>10, Committed DEF AccountsInv, Sessions

LEMMA LogoutKeeps ==
    ASSUME AccountsInv, NEW r \in Requests, A!logout(r)
    PROVE  AccountsInv'
<1>1. PICK i \in DOMAIN tokens : tokens' = [tokens EXCEPT ![i].revoked = TRUE]
  BY DEF A!logout
<1>2. request[r].pc = "free" /\ A!Commit(r) /\ UNCHANGED <<users, resets, changes>>
  BY DEF A!logout, A!NoRequest
<1>3. Grows(tokens, tokens') /\ Len(tokens') = Len(tokens)
  BY <1>1, AccountRows, RevokedOne
<1>4. TokensAreSound(tokens')
  BY <1>3, AccountRows, RevokedTokens
<1> QED
  BY <1>2, <1>3, <1>4, Committed DEF AccountsInv

LEMMA RevokeOtherSessionsKeeps ==
    ASSUME AccountsInv, NEW r \in Requests, A!revoke_other_sessions(r)
    PROVE  AccountsInv'
<1>1. PICK i \in DOMAIN tokens :
           tokens' = [A!revoke_user_refresh_tokens(tokens, tokens[i].user) EXCEPT
                        ![i] = tokens[i]]
  BY DEF A!revoke_other_sessions
<1> DEFINE list == A!revoke_user_refresh_tokens(tokens, tokens[i].user)
<1>2. request[r].pc = "free" /\ A!Commit(r) /\ UNCHANGED <<users, resets, changes>>
  BY DEF A!revoke_other_sessions, A!NoRequest
<1>3. Grows(tokens, list) /\ Len(list) = Len(tokens)
  BY AccountRows, RevokedOfUser
<1>4. tokens' = [list EXCEPT ![i] = tokens[i]]
  BY <1>1
<1> HIDE DEF list
<1>5. list \in Seq(Token) /\ DOMAIN list = 1 .. Len(tokens) /\ list \in [1 .. Len(tokens) -> Token]
  BY <1>3, AccountRows DEF Grows
<1>6. tokens' \in [1 .. Len(tokens) -> Token]
  BY <1>4, <1>5, AccountRows
<1>7. tokens' \in Seq(Token) /\ Len(tokens') = Len(tokens)
  BY <1>6, AccountRows
<1>8. tokens'[i] = tokens[i] /\ \A j \in 1 .. Len(tokens) : j # i => tokens'[j] = list[j]
  BY <1>4, <1>5, AccountRows
<1>9. Grows(tokens, tokens')
  BY <1>3, <1>7, <1>8, AccountRows DEF Grows
<1>10. TokensAreSound(tokens')
  BY <1>7, <1>9, AccountRows, RevokedTokens
<1> QED
  BY <1>2, <1>7, <1>9, <1>10, Committed DEF AccountsInv

\* A user's row with a password that nobody had.
LEMMA PasswordChanges ==
    ASSUME AccountsInv, NEW u \in Users, NEW read \in UserRow, changes + 1 <= MaxChanges
    PROVE  A!NewPassword(u, read) \in [Users -> UserRow]
<1> DEFINE new == [read EXCEPT !.password = changes + 1]
           row == A!Flush(users[u], read, new)
<1>1. changes + 1 \in 0 .. MaxChanges
  BY PlatformAssumption DEF AccountsInv
<1>2. new \in UserRow
  BY <1>1 DEF UserRow
<1> HIDE DEF new
<1>3. row \in UserRow
  BY <1>2, AccountRows, FlushedRow
<1>4. A!NewPassword(u, read) = [users EXCEPT ![u] = row]
  BY DEF A!NewPassword, new
<1> HIDE DEF row
<1> QED
  BY <1>3, <1>4 DEF AccountsInv

LEMMA RoomToChange ==
    ASSUME AccountsInv, NEW r \in Requests
    PROVE  /\ request[r].pc \in Changing => changes + 1 <= MaxChanges
           /\ A!RoomForChange => changes + 1 <= MaxChanges
<1>1. /\ changes \in Nat /\ changes + Count(request, Changing) <= MaxChanges
      /\ Count(request, Changing) \in Nat /\ MaxChanges \in Nat
  BY CountIsNatural, PlatformAssumption DEF AccountsInv
<1>2. request[r].pc \in Changing => Count(request, Changing) >= 1
  BY SessionsUnderWay
<1>3. A!RoomForChange => changes + Count(request, Changing) < MaxChanges
  BY AccountsCount DEF A!RoomForChange, Changing
<1> QED
  BY <1>1, <1>2, <1>3

LEMMA ChangePasswordKeeps ==
    ASSUME AccountsInv, NEW r \in Requests, A!change_password(r)
    PROVE  AccountsInv'
<1> DEFINE q == request[r]
<1>1. /\ q.pc = "password" /\ q.user \in Users /\ q.read \in UserRow
      /\ changes' = changes + 1 /\ users' = A!NewPassword(q.user, q.read)
      /\ tokens' = A!revoke_user_refresh_tokens(tokens, q.user)
      /\ A!Commit(r) /\ UNCHANGED resets
  BY AccountRows DEF A!change_password, RequestKnows, A!Change
<1>2. q.pc \in Changing
  BY <1>1 DEF Changing
<1>3. users' \in [Users -> UserRow]
  BY <1>1, <1>2, RoomToChange, PasswordChanges
<1>4. Grows(tokens, tokens') /\ Len(tokens') = Len(tokens)
  BY <1>1, AccountRows, RevokedOfUser
<1>5. TokensAreSound(tokens')
  BY <1>4, AccountRows, RevokedTokens
<1> QED
  BY <1>1, <1>2, <1>3, <1>4, <1>5, Committed DEF AccountsInv

LEMMA InitiatePasswordResetKeeps ==
    ASSUME AccountsInv, NEW r \in Requests, A!initiate_password_reset(r)
    PROVE  AccountsInv'
<1>1. PICK u \in Users : resets' = Append(resets, [user |-> u, used |-> FALSE])
  BY DEF A!initiate_password_reset
<1>2. request[r].pc = "free" /\ A!Commit(r) /\ UNCHANGED <<users, tokens, changes>>
  BY DEF A!initiate_password_reset, A!NoRequest
<1>3. resets' \in Seq([user : Users, used : BOOLEAN])
  <2> DEFINE x == [user |-> u, used |-> FALSE]
             Reset == [user : Users, used : BOOLEAN]
  <2>1. x \in Reset /\ resets \in Seq(Reset) /\ resets' = Append(resets, x)
    BY <1>1 DEF AccountsInv
  <2> HIDE DEF x, Reset
  <2>2. resets' \in Seq(Reset)
    BY <2>1
  <2> QED
    BY <2>2 DEF Reset
<1>4. Grows(tokens, tokens') /\ Len(tokens') = Len(tokens) /\ TokensAreSound(tokens')
  BY <1>2, AccountRows
<1> QED
  BY <1>2, <1>3, <1>4, Committed DEF AccountsInv

LEMMA CompletePasswordResetKeeps ==
    ASSUME AccountsInv, NEW r \in Requests, A!complete_password_reset(r)
    PROVE  AccountsInv'
<1> DEFINE q == request[r]
<1>1. /\ q.pc = "reset" /\ q.user \in Users /\ q.read \in UserRow
      /\ changes' = changes + 1 /\ users' = A!NewPassword(q.user, q.read)
      /\ tokens' = A!revoke_user_refresh_tokens(tokens, q.user)
      /\ resets' = [resets EXCEPT ![q.token].used = TRUE] /\ A!Commit(r)
  BY AccountRows DEF A!complete_password_reset, RequestKnows, A!Change
<1>2. q.pc \in Changing
  BY <1>1 DEF Changing
<1>3. users' \in [Users -> UserRow]
  BY <1>1, <1>2, RoomToChange, PasswordChanges
<1>4. Grows(tokens, tokens') /\ Len(tokens') = Len(tokens)
  BY <1>1, AccountRows, RevokedOfUser
<1>5. TokensAreSound(tokens')
  BY <1>4, AccountRows, RevokedTokens
<1>6. resets' \in Seq([user : Users, used : BOOLEAN])
  <2> DEFINE Reset == [user : Users, used : BOOLEAN]
             x == [resets[q.token] EXCEPT !.used = TRUE]
  <2>1. resets \in Seq(Reset)
    BY DEF AccountsInv
  <2>2. resets' = [resets EXCEPT ![q.token] = x]
    BY <1>1
  <2>3. q.token \in DOMAIN resets => x \in Reset
    <3>1. q.token \in DOMAIN resets => resets[q.token] \in Reset
      <4> HIDE DEF Reset
      <4> QED
        BY <2>1
    <3> QED
      BY <3>1
  <2> HIDE DEF Reset, x
  <2>4. resets' \in Seq(Reset)
    <3>1. resets \in [1 .. Len(resets) -> Reset] /\ Len(resets) \in Nat
          /\ DOMAIN resets = 1 .. Len(resets)
      BY <2>1
    <3>2. resets' \in [1 .. Len(resets) -> Reset]
      BY <2>2, <2>3, <3>1
    <3> QED
      BY <3>1, <3>2
  <2> QED
    BY <2>4 DEF Reset
<1> QED
  BY <1>1, <1>2, <1>3, <1>4, <1>5, <1>6, Committed

LEMMA CreateUserKeeps ==
    ASSUME AccountsInv, NEW r \in Requests, A!create_user(r)
    PROVE  AccountsInv'
<1>1. PICK u \in Users, role \in Roles, company \in {"shared", "own"} :
           users' = [users EXCEPT ![u] = A!Member(company, role, TRUE)]
  BY DEF A!create_user
<1>2. /\ request[r].pc = "free" /\ A!RoomForChange /\ changes' = changes + 1
      /\ A!Commit(r) /\ UNCHANGED <<tokens, resets>>
  BY DEF A!create_user, A!NoRequest, A!Change
<1>3. A!Member(company, role, TRUE) \in UserRow
  BY PlatformAssumption DEF A!Member, UserRow
<1>4. users' \in [Users -> UserRow]
  BY <1>1, <1>3 DEF AccountsInv
<1>5. Grows(tokens, tokens') /\ Len(tokens') = Len(tokens) /\ TokensAreSound(tokens')
  BY <1>2, AccountRows
<1> QED
  BY <1>2, <1>4, <1>5, Committed DEF AccountsInv

LEMMA UpdateCompanyUserKeeps ==
    ASSUME AccountsInv, NEW r \in Requests, A!update_company_user(r)
    PROVE  AccountsInv'
<1> DEFINE q == request[r]
           row == A!Flush(users[q.user], q.read, q.new)
<1>1. /\ q.pc = "update" /\ q.user \in Users /\ q.read \in UserRow /\ q.new \in UserRow
      /\ UNCHANGED resets
  BY AccountRows DEF A!update_company_user, RequestKnows
<1>2. CASE /\ request' = [request EXCEPT ![r] = A!NoRequest]
           /\ UNCHANGED <<users, tokens, changes, unrecorded, died>>
  BY <1>1, <1>2, Freed
<1>3. CASE /\ changes' = changes + 1 /\ A!Commit(r)
           /\ users' = [users EXCEPT ![q.user] = row]
           /\ tokens' = IF q.new.active THEN tokens
                        ELSE A!revoke_user_refresh_tokens(tokens, q.user)
  <2>1. row \in UserRow
    BY <1>1, AccountRows, FlushedRow
  <2> HIDE DEF row
  <2>2. users' \in [Users -> UserRow]
    BY <1>3, <2>1 DEF AccountsInv
  <2>3. Grows(tokens, tokens') /\ Len(tokens') = Len(tokens)
    <3>1. CASE q.new.active
      BY <1>3, <3>1, AccountRows
    <3>2. CASE ~q.new.active
      BY <1>3, <3>2, AccountRows, RevokedOfUser
    <3> QED
      BY <3>1, <3>2
  <2>4. TokensAreSound(tokens')
    BY <2>3, AccountRows, RevokedTokens
  <2>5. q.pc \in Changing
    BY <1>1 DEF Changing
  <2> QED
    BY <1>1, <1>3, <2>2, <2>3, <2>4, <2>5, Committed DEF AccountsInv
<1>4. \/ /\ request' = [request EXCEPT ![r] = A!NoRequest]
         /\ UNCHANGED <<users, tokens, changes, unrecorded, died>>
      \/ /\ changes' = changes + 1 /\ A!Commit(r)
         /\ users' = [users EXCEPT ![q.user] = row]
         /\ tokens' = IF q.new.active THEN tokens
                      ELSE A!revoke_user_refresh_tokens(tokens, q.user)
  BY DEF A!update_company_user, A!Change
<1> QED
  BY <1>2, <1>3, <1>4

LEMMA AuditKeeps ==
    ASSUME AccountsInv, NEW r \in Requests, A!Audit(r)
    PROVE  AccountsInv'
  BY Freed DEF A!Audit, A!record

LEMMA CrashKeeps ==
    ASSUME AccountsInv, NEW r \in Requests, A!Crash(r)
    PROVE  AccountsInv'
<1>1. /\ request' = [request EXCEPT ![r] = A!NoRequest] /\ UNCHANGED <<users, tokens, resets>>
      /\ changes' = changes + 1 /\ A!RoomForChange /\ unrecorded' = unrecorded
      /\ died' = IF request[r].pc = "audit" THEN died + 1 ELSE died
  BY DEF A!Crash, A!Change
<1> QED
  BY <1>1, Freed

LEMMA AccountsStep ==
    ASSUME AccountsInv, NEW r \in Requests,
           \/ A!ReadLogin(r) \/ A!login(r) \/ A!ReadRefresh(r) \/ A!refresh(r) \/ A!logout(r)
           \/ A!revoke_other_sessions(r) \/ A!ReadPassword(r) \/ A!change_password(r)
           \/ A!initiate_password_reset(r) \/ A!ReadReset(r) \/ A!complete_password_reset(r)
           \/ A!create_user(r) \/ A!ReadTarget(r) \/ A!update_company_user(r)
           \/ A!Audit(r) \/ A!Crash(r)
    PROVE  AccountsInv'
  BY ReadLoginKeeps, LoginKeeps, ReadRefreshKeeps, RefreshKeeps, LogoutKeeps,
     RevokeOtherSessionsKeeps, ReadPasswordKeeps, ChangePasswordKeeps,
     InitiatePasswordResetKeeps, ReadResetKeeps, CompletePasswordResetKeeps,
     CreateUserKeeps, ReadTargetKeeps, UpdateCompanyUserKeeps, AuditKeeps, CrashKeeps

LEMMA AccountsBegin == A!Init => AccountsInv
<1> SUFFICES ASSUME A!Init PROVE AccountsInv
  OBVIOUS
<1>1. tokens = <<>> /\ resets = <<>> /\ changes = 0 /\ unrecorded = 0 /\ died = 0
      /\ request = [r \in Requests |-> A!NoRequest]
  BY DEF A!Init
<1>2. users \in [Users -> UserRow]
  <2>1. A!NoUser \in UserRow
    BY PlatformAssumption DEF A!NoUser, UserRow
  <2>2. \A role \in Roles, active \in BOOLEAN : A!Member("shared", role, active) \in UserRow
    BY PlatformAssumption DEF A!Member, UserRow
  <2>3. users \in [Users -> {A!NoUser} \cup {A!Member("shared", role, active) :
                                             role \in Roles, active \in BOOLEAN}]
    BY DEF A!Init
  <2> QED
    BY <2>1, <2>2, <2>3
<1>3. TokensAreSound(tokens) /\ Len(tokens) = 0
  BY <1>1, PlatformAssumption DEF TokensAreSound
<1>4. DOMAIN request = Requests /\ \A r \in Requests : request[r].pc = "free"
  BY <1>1 DEF A!NoRequest
<1>5. \A r \in Requests : RequestKnows(request[r], tokens)
  BY <1>4 DEF RequestKnows
<1>6. Count(request, Sessions) = 0 /\ Count(request, Changing) = 0
      /\ Count(request, {"audit"}) = 0
  <2>1. Busy(request, Sessions) = {} /\ Busy(request, Changing) = {}
        /\ Busy(request, {"audit"}) = {}
    BY <1>4 DEF Busy, Sessions, Changing
  <2> QED
    BY <2>1, FS_EmptySet DEF Count
<1>7. resets \in Seq([user : Users, used : BOOLEAN])
  BY <1>1
<1> QED
  BY <1>1, <1>2, <1>3, <1>4, <1>5, <1>6, <1>7, PlatformAssumption DEF AccountsInv

\* Of the accounts, whatever the requests and however they overlap: the invariant.
THEOREM AccountsInvariance == A!Spec => []AccountsInv
<1>1. A!Init => AccountsInv
  BY AccountsBegin
<1>2. AccountsInv /\ [A!Next]_(A!vars) => AccountsInv'
  <2> SUFFICES ASSUME AccountsInv, [A!Next]_(A!vars) PROVE AccountsInv'
    OBVIOUS
  <2>1. CASE A!Next
    BY <2>1, AccountsStep DEF A!Next
  <2>2. CASE UNCHANGED A!vars
    BY <2>2 DEF A!vars, AccountsInv, Count, Busy
  <2> QED
    BY <2>1, <2>2
<1> QED
  BY <1>1, <1>2, PTL DEF A!Spec

\* A rotation is linear unless the second request had read before the first one's
\* commit, and the audit trail misses only what died on its way to it (the
\* refresh, the commits and the audit entries of services/authentication.py and
\* services/users.py).
THEOREM SessionsSoundness == A!Spec => []SessionsAreSound
<1>1. AccountsInv => SessionsAreSound
  <2> SUFFICES ASSUME AccountsInv PROVE SessionsAreSound
    OBVIOUS
  <2>1. A!TypeOK
    <3>1. \A u \in Users : /\ users[u].company \in {"none", "shared", "own"}
                           /\ users[u].role \in Roles \cup {"none"}
                           /\ users[u].active \in BOOLEAN
                           /\ users[u].password \in 0 .. MaxChanges
      BY AccountRows DEF UserRow
    <3>2. tokens \in Seq([user : Users, revoked : BOOLEAN, parent : 0 .. MaxTokens,
                          began : 0 .. MaxTokens])
      BY AccountRows DEF Token
    <3>3. changes \in 0 .. MaxChanges /\ unrecorded \in Nat /\ died \in 0 .. MaxChanges
      BY CountIsNatural, PlatformAssumption DEF AccountsInv
    <3> QED
      BY <3>1, <3>2, <3>3 DEF AccountsInv, A!TypeOK
  <2>2. A!RotationIsLinear
    BY DEF AccountsInv, TokensAreSound, A!RotationIsLinear
  <2>3. A!TrailIsComplete
    BY AccountsCount DEF AccountsInv, A!TrailIsComplete, Count, Busy
  <2> QED
    BY <2>1, <2>2, <2>3 DEF SessionsAreSound
<1> QED
  BY <1>1, AccountsInvariance, PTL

-----------------------------------------------------------------------------
(* Accounts: what a step does to the users *)

\* A new password is the only thing that changes, and it ends the user's sessions.
PasswordStep(u) ==
    /\ \A v \in Users : /\ users'[v].company = users[v].company
                        /\ users'[v].role = users[v].role
                        /\ users'[v].active = users[v].active
                        /\ v # u => users'[v].password = users[v].password
    /\ \A i \in DOMAIN tokens : tokens[i].user = u => tokens'[i].revoked

LEMMA PasswordSteps ==
    ASSUME AccountsInv, NEW r \in Requests, A!change_password(r) \/ A!complete_password_reset(r)
    PROVE  \E u \in Users : PasswordStep(u)
<1> DEFINE q == request[r]
           new == [q.read EXCEPT !.password = changes + 1]
           row == A!Flush(users[q.user], q.read, new)
<1>1. /\ q.pc \in Changing /\ q.user \in Users /\ q.read \in UserRow
      /\ users' = A!NewPassword(q.user, q.read)
      /\ tokens' = A!revoke_user_refresh_tokens(tokens, q.user)
  BY AccountRows DEF A!change_password, A!complete_password_reset, RequestKnows, Changing
<1>2. changes + 1 \in 0 .. MaxChanges
  BY <1>1, RoomToChange, PlatformAssumption DEF AccountsInv
<1>3. /\ new \in UserRow /\ new.company = q.read.company /\ new.role = q.read.role
      /\ new.active = q.read.active
  BY <1>1, <1>2 DEF UserRow
<1>4. users' = [users EXCEPT ![q.user] = row] /\ DOMAIN users = Users
  BY <1>1 DEF A!NewPassword, AccountsInv
<1> HIDE DEF new
<1>5. /\ row.company = users[q.user].company /\ row.role = users[q.user].role
      /\ row.active = users[q.user].active
  BY <1>1, <1>3, AccountRows, FlushedRow
<1> HIDE DEF row
<1>6. \A i \in DOMAIN tokens : tokens[i].user = q.user => tokens'[i].revoked
  BY <1>1, AccountRows, RevokedOfUser
<1>7. PasswordStep(q.user)
  BY <1>1, <1>4, <1>5, <1>6 DEF PasswordStep
<1> QED
  BY <1>1, <1>7

\* A new user.
CreateStep ==
    \E u \in Users :
        /\ users[u] = A!NoUser /\ users'[u].active /\ users'[u].password = users[u].password
        /\ \A v \in Users \ {u} : users'[v] = users[v]

LEMMA CreateSteps ==
    ASSUME AccountsInv, NEW r \in Requests, A!create_user(r)
    PROVE  CreateStep
<1>1. PICK u \in Users, role \in Roles, company \in {"shared", "own"} :
           users[u] = A!NoUser /\ users' = [users EXCEPT ![u] = A!Member(company, role, TRUE)]
  BY DEF A!create_user
<1>2. DOMAIN users = Users
  BY DEF AccountsInv
<1>3. users'[u] = A!Member(company, role, TRUE) /\ \A v \in Users \ {u} : users'[v] = users[v]
  BY <1>1, <1>2
<1>4. users'[u].active
  BY <1>3 DEF A!Member
<1>5. users'[u].password = users[u].password
  BY <1>1, <1>3 DEF A!Member, A!NoUser
<1> QED
  BY <1>1, <1>3, <1>4, <1>5 DEF CreateStep

\* An administrator's change, not refused.
UpdateStep(r) ==
    LET q == request[r] IN
    /\ q.pc = "update" /\ request'[r] # q /\ q.user \in Users
    /\ ~(A!RemovesActiveAdmin(r) /\ A!count_active_admins(r) <= 1)
    /\ \A v \in Users \ {q.user} : users'[v] = users[v]
    /\ users'[q.user].password = users[q.user].password
    /\ users'[q.user].company = users[q.user].company
    /\ users'[q.user].role =
         IF q.new.role # q.read.role THEN q.new.role ELSE users[q.user].role
    /\ users'[q.user].active =
         IF q.new.active # q.read.active THEN q.new.active ELSE users[q.user].active
    /\ ~q.new.active =>
         \A i \in DOMAIN tokens : tokens[i].user = q.user => tokens'[i].revoked

LEMMA UpdateSteps ==
    ASSUME AccountsInv, NEW r \in Requests, A!update_company_user(r)
    PROVE  UNCHANGED users \/ UpdateStep(r)
<1> DEFINE q == request[r]
           row == A!Flush(users[q.user], q.read, q.new)
<1>1. /\ q.pc = "update" /\ q.user \in Users /\ q.read \in UserRow /\ q.new \in UserRow
      /\ q.new.password = q.read.password /\ q.new.company = q.read.company
  BY AccountRows DEF A!update_company_user, RequestKnows
<1>2. CASE /\ ~(A!RemovesActiveAdmin(r) /\ A!count_active_admins(r) <= 1)
           /\ users' = [users EXCEPT ![q.user] = row] /\ A!Commit(r)
           /\ tokens' = IF q.new.active THEN tokens
                        ELSE A!revoke_user_refresh_tokens(tokens, q.user)
  <2>1. /\ row.company = users[q.user].company /\ row.password = users[q.user].password
        /\ row.role = IF q.new.role # q.read.role THEN q.new.role ELSE users[q.user].role
        /\ row.active = IF q.new.active # q.read.active THEN q.new.active
                        ELSE users[q.user].active
    BY <1>1, AccountRows, FlushedRow
  <2> HIDE DEF row
  <2>2. request'[r] = [pc |-> "audit"]
    BY <1>2 DEF A!Commit, AccountsInv
  <2>3. request'[r] # q
    <3>1. request'[r].pc = "audit"
      BY <2>2
    <3> QED
      BY <1>1, <3>1
  <2>4. ~q.new.active =>
           \A i \in DOMAIN tokens : tokens[i].user = q.user => tokens'[i].revoked
    BY <1>2, AccountRows, RevokedOfUser
  <2>5. users'[q.user] = row /\ \A v \in Users \ {q.user} : users'[v] = users[v]
    BY <1>1, <1>2 DEF AccountsInv
  <2> QED
    BY <1>1, <1>2, <2>1, <2>3, <2>4, <2>5 DEF UpdateStep
<1>3. \/ UNCHANGED users
      \/ /\ ~(A!RemovesActiveAdmin(r) /\ A!count_active_admins(r) <= 1)
         /\ users' = [users EXCEPT ![q.user] = row] /\ A!Commit(r)
         /\ tokens' = IF q.new.active THEN tokens
                      ELSE A!revoke_user_refresh_tokens(tokens, q.user)
  BY DEF A!update_company_user
<1> QED
  BY <1>2, <1>3

LEMMA UsersStep ==
    ASSUME AccountsInv, [A!Next]_(A!vars)
    PROVE  \/ UNCHANGED users \/ CreateStep
           \/ \E u \in Users : PasswordStep(u)
           \/ \E r \in Requests : UpdateStep(r)
<1>1. CASE UNCHANGED A!vars
  BY <1>1 DEF A!vars
<1>2. CASE A!Next
  <2>1. PICK r \in Requests :
           \/ A!ReadLogin(r) \/ A!login(r) \/ A!ReadRefresh(r) \/ A!refresh(r) \/ A!logout(r)
           \/ A!revoke_other_sessions(r) \/ A!ReadPassword(r) \/ A!change_password(r)
           \/ A!initiate_password_reset(r) \/ A!ReadReset(r) \/ A!complete_password_reset(r)
           \/ A!create_user(r) \/ A!ReadTarget(r) \/ A!update_company_user(r)
           \/ A!Audit(r) \/ A!Crash(r)
    BY <1>2 DEF A!Next
  <2>2. \/ A!change_password(r) \/ A!complete_password_reset(r) \/ A!create_user(r)
        \/ A!update_company_user(r) \/ UNCHANGED users
    BY <2>1 DEF A!ReadLogin, A!login, A!ReadRefresh, A!refresh, A!logout,
                A!revoke_other_sessions, A!ReadPassword, A!initiate_password_reset,
                A!ReadReset, A!ReadTarget, A!Audit, A!Crash, A!Begin
  <2> QED
    BY <2>2, PasswordSteps, CreateSteps, UpdateSteps
<1> QED
  BY <1>1, <1>2

LEMMA AnotherOne ==
    ASSUME NEW S, IsFiniteSet(S), ~(Cardinality(S) <= 1), NEW u
    PROVE  \E v \in S : v # u
<1> SUFFICES ASSUME \A v \in S : v = u PROVE FALSE
  OBVIOUS
<1>1. S \in SUBSET {u}
  OBVIOUS
<1>2. Cardinality(S) <= Cardinality({u}) /\ Cardinality({u}) = 1
  BY <1>1, FS_Subset, FS_Singleton
<1> QED
  BY <1>2

LEMMA SessionsEnd ==
    ASSUME AccountsInv, [A!Next]_(A!vars), NEW u \in Users,
           \/ users'[u].password # users[u].password
           \/ users[u].active /\ ~users'[u].active,
           NEW i \in DOMAIN tokens, tokens[i].user = u
    PROVE  tokens'[i].revoked
<1>1. CASE UNCHANGED users
  BY <1>1
<1>2. CASE CreateStep
  <2>1. PICK v \in Users : /\ users'[v].active /\ users'[v].password = users[v].password
                           /\ \A w \in Users \ {v} : users'[w] = users[w]
    BY <1>2 DEF CreateStep
  <2> QED
    BY <2>1
<1>3. CASE \E v \in Users : PasswordStep(v)
  BY <1>3 DEF PasswordStep
<1>4. CASE \E r \in Requests : UpdateStep(r)
  <2>1. PICK r \in Requests : UpdateStep(r)
    BY <1>4
  <2> DEFINE q == request[r]
  <2>2. q.user = u
    BY <2>1 DEF UpdateStep
  <2>3. users'[u].password = users[u].password
    BY <2>1, <2>2 DEF UpdateStep
  <2>4. users[u].active /\ ~users'[u].active
    BY <2>3
  <2>5. ~q.new.active
    BY <2>1, <2>2, <2>4 DEF UpdateStep
  <2> QED
    BY <2>1, <2>2, <2>5 DEF UpdateStep
<1> QED
  BY <1>1, <1>2, <1>3, <1>4, UsersStep

LEMMA AdminRemains ==
    ASSUME AccountsInv, [A!Next]_(A!vars), A!ActiveAdmins # {}, A!ActiveAdmins' = {}
    PROVE  \E r \in Requests : request[r].pc = "update" /\ request'[r] # request[r]
                               /\ ~(request[r].read.role = "admin" /\ request[r].read.active)
<1>1. PICK u \in Users : users[u].company = "shared" /\ users[u].role = "admin" /\ users[u].active
  BY DEF A!ActiveAdmins
<1>2. \A v \in Users : ~(/\ users'[v].company = "shared" /\ users'[v].role = "admin"
                         /\ users'[v].active)
  BY DEF A!ActiveAdmins
<1>3. CASE UNCHANGED users
  BY <1>1, <1>2, <1>3
<1>4. CASE CreateStep
  <2>1. PICK v \in Users : users[v] = A!NoUser /\ \A w \in Users \ {v} : users'[w] = users[w]
    BY <1>4 DEF CreateStep
  <2>2. u # v
    BY <1>1, <2>1 DEF A!NoUser
  <2> QED
    BY <1>1, <1>2, <2>1, <2>2
<1>5. CASE \E v \in Users : PasswordStep(v)
  BY <1>1, <1>2, <1>5 DEF PasswordStep
<1>6. CASE \E r \in Requests : UpdateStep(r)
  <2>1. PICK r \in Requests : UpdateStep(r)
    BY <1>6
  <2> DEFINE q == request[r]
  <2>2. SUFFICES ASSUME q.read.role = "admin" /\ q.read.active PROVE FALSE
    BY <2>1 DEF UpdateStep
  <2>3. u = q.user
    BY <1>1, <1>2, <2>1 DEF UpdateStep
  <2>4. CASE q.new.role = "admin" /\ q.new.active
    <3>1. users'[u].company = "shared"
      BY <1>1, <2>1, <2>3 DEF UpdateStep
    <3>2. users'[u].role = "admin"
      BY <1>1, <2>1, <2>2, <2>3, <2>4 DEF UpdateStep
    <3>3. users'[u].active
      BY <1>1, <2>1, <2>2, <2>3, <2>4 DEF UpdateStep
    <3> QED
      BY <1>2, <3>1, <3>2, <3>3
  <2>5. CASE ~(q.new.role = "admin" /\ q.new.active)
    <3>1. ~(Cardinality(A!ActiveAdmins) <= 1)
      BY <2>1, <2>2, <2>5, AccountsCount
         DEF UpdateStep, A!RemovesActiveAdmin, A!count_active_admins
    <3>2. IsFiniteSet(A!ActiveAdmins)
      <4>1. A!ActiveAdmins \in SUBSET Users
        BY DEF A!ActiveAdmins
      <4> QED
        BY <4>1, FS_Subset, PlatformAssumption
    <3>3. PICK v \in A!ActiveAdmins : v # u
      BY <3>1, <3>2, AnotherOne
    <3>4. v \in Users \ {q.user} /\ users[v].company = "shared" /\ users[v].role = "admin"
          /\ users[v].active
      BY <2>3, <3>3 DEF A!ActiveAdmins
    <3>5. users'[v] = users[v]
      BY <2>1, <3>4 DEF UpdateStep
    <3> QED
      BY <1>2, <3>4, <3>5
  <2> QED
    BY <2>4, <2>5
<1> QED
  BY <1>3, <1>4, <1>5, <1>6, UsersStep

\* A changed password and a deactivation end every session there is, and the last
\* administrator goes only through a request that did not see an active
\* administrator in its target (services/authentication.py and services/users.py,
\* which counts the administrators under a lock).
THEOREM AccountsGovernance == A!Spec => AccountsAreGoverned
<1>1. AccountsInv /\ [A!Next]_(A!vars)
      => [\A u \in Users :
            users'[u].password # users[u].password \/ (users[u].active /\ ~users'[u].active)
            => \A i \in DOMAIN tokens : tokens[i].user = u => tokens'[i].revoked]_(A!vars)
  BY SessionsEnd
<1>2. AccountsInv /\ [A!Next]_(A!vars)
      => [A!ActiveAdmins # {} /\ A!ActiveAdmins' = {} =>
            \E r \in Requests : request[r].pc = "update" /\ request'[r] # request[r]
                                /\ ~(request[r].read.role = "admin" /\ request[r].read.active)
         ]_(A!vars)
  BY AdminRemains
<1> QED
  BY <1>1, <1>2, AccountsInvariance, PTL
     DEF A!Spec, AccountsAreGoverned, A!RevocationReaches, A!AdministratorRemains

-----------------------------------------------------------------------------
(* The plant and its imports: the inductive invariant *)

Machine == [state : {"absent", "live", "deleted"}, factory : Factories \cup {None},
            name : {"press"} \cup {None}]

Sensor == [state : {"absent", "live", "deleted"}, machine : Machines \cup {None},
           name : {"heat"} \cup {None}, low : Limits \cup {0}, high : Limits \cup {0}]

\* A request that edits a machine moves it to a factory there is; one that edits a sensor
\* has checked the range.
PlantRequest(q) ==
    /\ q.pc = "machine" =>
          /\ q.id \in Machines /\ q.read \in Machine /\ q.new \in Machine
          /\ q.read.state = "live" \/ (q.read.state = "absent" /\ q.read.factory = None)
          /\ q.new.state = "live" /\ q.new.factory \in Factories
    /\ q.pc = "sensor" =>
          q.id \in Sensors /\ q.read \in Sensor /\ q.new \in Sensor /\ q.new.low < q.new.high

PlantRows ==
    /\ factory \in [Factories -> {"absent", "live", "deleted"}]
    /\ machine \in [Machines -> Machine] /\ sensor \in [Sensors -> Sensor]
    /\ \A m \in Machines : machine[m].state = "live" => machine[m].factory \in Factories

PlantInv ==
    /\ PlantRows
    /\ writes \in Nat /\ writes + Count(edit, {"machine", "sensor"}) <= MaxWrites
    /\ DOMAIN edit = Requests /\ \A r \in Requests : PlantRequest(edit[r])

Ended == {"completed", "partially_completed"}

\* A report that lets the import be confirmed is about the plant of a number of writes: as
\* long as that is the present one, the rows are accepted, by the sensors it looked up.
SoundReport(report) ==
    /\ report.mapping \in Mappings \cup {None} /\ report.at \in Nat /\ report.at <= writes
    /\ report # G!NoReport => report.mapping # None
    /\ report # G!NoReport /\ ~report.blocking /\ report.at = writes =>
          \E lookup \in G!_sensor_lookup : G!_records(report.mapping, lookup) = {}

ImportFields == {"status", "mapping", "report", "stored"}

SoundImport(row) ==
    /\ DOMAIN row = ImportFields
    /\ row.status \in {"absent", "queued", "cancelled"} \cup Ended
    /\ row.mapping \in Mappings \cup {None} /\ row.stored \in Seq(Mappings)
    /\ SoundReport(row.report)
    /\ row.report # G!NoReport => row.mapping # None

\* What a request is about to write over the import that it read.
NewImport(read, new) ==
    \/ /\ new.status = "queued" /\ new.mapping \in Mappings /\ new.report = G!NoReport
    \/ /\ new.status = "validated" /\ new.mapping = read.mapping /\ read.mapping # None
       /\ new.report # G!NoReport /\ new.report.mapping = read.mapping
       /\ SoundReport(new.report)
    \/ /\ new.status \in Ended /\ new.mapping = read.mapping /\ new.report = read.report
       /\ read.report # G!NoReport
       /\ new.status = "partially_completed" =>
             \/ read.report.at < writes \/ G!Ambiguous
             \/ read.report.mapping # read.mapping
    \/ /\ new.status = "cancelled" /\ new.mapping = read.mapping /\ new.report = read.report

ImportRequest(q) ==
    q.pc = "import" =>
        /\ q.id \in Imports /\ SoundImport(q.read) /\ NewImport(q.read, q.new)
        /\ q.read.status \notin Ended \cup {"absent"}
        /\ imports[q.id].status # "absent"
        /\ q.read.mapping # None => imports[q.id].mapping # None

WorksOn(r, i) == edit[r].pc = "import" /\ edit[r].id = i

\* An import that no two requests worked on at once.
CleanImport(i) ==
    /\ imports[i].report # G!NoReport => imports[i].report.mapping = imports[i].mapping
    /\ imports[i].stored = IF imports[i].status \in Ended
                           THEN <<imports[i].report.mapping>> ELSE <<>>
    /\ imports[i].status \in Ended => imports[i].report # G!NoReport
    /\ \A r \in Requests : WorksOn(r, i) => edit[r].read = imports[i]
    /\ \A r, s \in Requests : WorksOn(r, i) /\ WorksOn(s, i) => r = s

ImportsInv ==
    /\ PlantInv
    /\ DOMAIN imports = Imports /\ \A i \in Imports : SoundImport(imports[i])
    /\ \A r \in Requests : ImportRequest(edit[r])
    /\ \A i \in Imports \ overlapped : CleanImport(i)


Editing == {"machine", "sensor"}

PlantSame == UNCHANGED <<factory, machine, sensor, writes>>

LEMMA RoomLeft ==
    ASSUME PlantInv, G!Room
    PROVE  /\ writes \in Nat /\ Count(edit, Editing) \in Nat
           /\ writes + Count(edit, Editing) < MaxWrites
<1> DEFINE busy == {r \in Requests : ~G!Free(r)}
<1>1. Busy(edit, Editing) \subseteq busy
  BY DEF Busy, Editing, G!Free, G!NoRequest
<1>2. busy \in SUBSET Requests
  OBVIOUS
<1>3. IsFiniteSet(busy) /\ Cardinality(busy) \in Nat
  BY <1>2, PlatformAssumption, FS_Subset, FS_CardinalityType
<1>4. Count(edit, Editing) <= Cardinality(busy)
  BY <1>1, <1>3, FS_Subset DEF Count
<1>5. writes + Cardinality(busy) < MaxWrites
  <2>1. G!Cardinality(busy) = Cardinality(busy)
    BY DEF G!Cardinality, Cardinality
  <2> QED
    BY <2>1 DEF G!Room
<1>6. writes \in Nat /\ Count(edit, Editing) \in Nat /\ MaxWrites \in Nat
  BY CountIsNatural, PlatformAssumption DEF PlantInv
<1> HIDE DEF busy
<1> QED
  BY <1>3, <1>4, <1>5, <1>6

\* A request that begins to edit the plant, or moves on an import.
LEMMA RequestKeepsPlant ==
    ASSUME PlantInv, PlantSame, NEW r \in Requests, NEW q, edit' = [edit EXCEPT ![r] = q],
           PlantRequest(q), q.pc \in Editing => G!Room
    PROVE  PlantInv'
<1>1. /\ DOMAIN edit' = Requests /\ edit'[r] = q
      /\ \A s \in Requests : s # r => edit'[s] = edit[s]
  BY DEF PlantInv
<1>2. \A s \in Requests : PlantRequest(edit'[s])
  BY <1>1 DEF PlantInv
<1>3. Count(edit', Editing) = IF q.pc \in Editing
         THEN IF edit[r].pc \in Editing THEN Count(edit, Editing) ELSE Count(edit, Editing) + 1
         ELSE IF edit[r].pc \in Editing THEN Count(edit, Editing) - 1 ELSE Count(edit, Editing)
  BY CountMoves DEF PlantInv
<1>4. /\ writes \in Nat /\ Count(edit, Editing) \in Nat /\ MaxWrites \in Nat
      /\ writes + Count(edit, Editing) <= MaxWrites
  BY CountIsNatural, PlatformAssumption DEF PlantInv, Editing
<1>5. writes + Count(edit', Editing) <= MaxWrites
  <2>1. CASE q.pc \in Editing
    BY <1>3, <1>4, <2>1, RoomLeft
  <2>2. CASE q.pc \notin Editing
    BY <1>3, <1>4, <2>2
  <2> QED
    BY <2>1, <2>2
<1>6. PlantRows'
  BY DEF PlantInv, PlantRows, PlantSame
<1> QED
  BY <1>1, <1>2, <1>4, <1>5, <1>6 DEF PlantInv, PlantSame, Editing

\* A write that no request prepared.
LEMMA WriteKeepsPlant ==
    ASSUME PlantInv, G!Room, G!Count, UNCHANGED edit, PlantRows'
    PROVE  PlantInv'
<1>1. writes' = writes + 1
  BY DEF G!Count
<1>2. writes' \in Nat /\ writes' + Count(edit, Editing) <= MaxWrites
  BY <1>1, RoomLeft, PlatformAssumption
<1> QED
  BY <1>2 DEF PlantInv, Editing

LEMMA PlantDeletes ==
    ASSUME PlantInv,
           G!create_factory \/ G!delete_factory \/ G!delete_machine \/ G!delete_sensor
    PROVE  PlantInv'
<1>1. G!Room /\ G!Count /\ UNCHANGED edit
  BY DEF G!create_factory, G!delete_factory, G!delete_machine, G!delete_sensor
<1>2. CASE G!create_factory
  <2>1. PICK f \in Factories : factory' = [factory EXCEPT ![f] = "live"]
    BY <1>2 DEF G!create_factory
  <2>2. UNCHANGED <<machine, sensor>>
    BY <1>2 DEF G!create_factory
  <2> QED
    BY <1>1, <2>1, <2>2, WriteKeepsPlant DEF PlantInv, PlantRows
<1>3. CASE G!delete_factory
  <2>1. PICK f \in Factories : /\ factory' = [factory EXCEPT ![f] = "deleted"]
                               /\ G!soft_delete_factory(f)
    BY <1>3 DEF G!delete_factory
  <2>2. UNCHANGED sensor
    BY <1>3 DEF G!delete_factory
  <2>3. machine' = [m \in Machines |-> IF machine[m].factory = f
                      THEN [machine[m] EXCEPT !.state = "deleted"] ELSE machine[m]]
    BY <2>1 DEF G!soft_delete_factory
  <2>4. \A m \in Machines : /\ machine'[m] \in Machine
                            /\ machine'[m].state = "live" => machine'[m] = machine[m]
    BY <2>3 DEF PlantInv, PlantRows, Machine
  <2>5. machine' \in [Machines -> Machine]
    BY <2>3, <2>4
  <2> QED
    BY <1>1, <2>1, <2>2, <2>4, <2>5, WriteKeepsPlant DEF PlantInv, PlantRows
<1>4. CASE G!delete_machine
  <2>1. PICK m \in Machines : machine' = [machine EXCEPT ![m].state = "deleted"]
    BY <1>4 DEF G!delete_machine
  <2>2. UNCHANGED <<factory, sensor>>
    BY <1>4 DEF G!delete_machine
  <2>3. \A n \in Machines : /\ machine'[n] \in Machine
                            /\ machine'[n].state = "live" => machine'[n] = machine[n]
    BY <2>1 DEF PlantInv, PlantRows, Machine
  <2>4. machine' \in [Machines -> Machine]
    BY <2>1, <2>3 DEF PlantInv, PlantRows
  <2> QED
    BY <1>1, <2>2, <2>3, <2>4, WriteKeepsPlant DEF PlantInv, PlantRows
<1>5. CASE G!delete_sensor
  <2>1. PICK s \in Sensors : sensor' = [sensor EXCEPT ![s].state = "deleted"]
    BY <1>5 DEF G!delete_sensor
  <2>2. UNCHANGED <<factory, machine>>
    BY <1>5 DEF G!delete_sensor
  <2>3. sensor' \in [Sensors -> Sensor]
    BY <2>1 DEF PlantInv, PlantRows, Sensor
  <2> QED
    BY <1>1, <2>2, <2>3, WriteKeepsPlant DEF PlantInv, PlantRows
<1> QED
  BY <1>2, <1>3, <1>4, <1>5

LEMMA NoRequestIsFree == G!NoRequest.pc = "free" /\ PlantRequest(G!NoRequest)
  BY DEF G!NoRequest, PlantRequest

LEMMA NewRows ==
    ASSUME NEW f \in Factories, NEW name \in {"press"}
    PROVE  /\ G!MachineRow(f, name) \in Machine /\ G!NoMachine \in Machine
           /\ G!MachineRow(f, name).state = "live" /\ G!MachineRow(f, name).factory = f
           /\ G!NoMachine.state = "absent" /\ G!NoMachine.factory = None
  BY DEF G!MachineRow, G!NoMachine, Machine

LEMMA NewSensorRows ==
    ASSUME NEW m \in Machines, NEW name \in {"heat"}, NEW low \in Limits, NEW high \in Limits
    PROVE  /\ G!SensorRow(m, name, low, high) \in Sensor /\ G!NoSensor \in Sensor
           /\ G!SensorRow(m, name, low, high).low = low
           /\ G!SensorRow(m, name, low, high).high = high
  BY DEF G!SensorRow, G!NoSensor, Sensor

LEMMA EditFields ==
    ASSUME NEW pc, NEW id, NEW read, NEW new
    PROVE  LET q == G!Edit(pc, id, read, new)
           IN q.pc = pc /\ q.id = id /\ q.read = read /\ q.new = new
  BY DEF G!Edit

LEMMA BeginsEdit ==
    ASSUME NEW r, NEW pc \in Editing, NEW id, NEW read, NEW new,
           G!Begin(r, G!Edit(pc, id, read, new)), PlantRequest(G!Edit(pc, id, read, new))
    PROVE  \E q : PlantRequest(q) /\ q.pc \in Editing /\ edit' = [edit EXCEPT ![r] = q]
<1> DEFINE q == G!Edit(pc, id, read, new)
<1>1. PlantRequest(q) /\ q.pc \in Editing
  BY EditFields
<1>2. edit' = [edit EXCEPT ![r] = q]
  BY DEF G!Begin
<1> HIDE DEF q
<1> QED
  BY <1>1, <1>2

LEMMA PlantReads ==
    ASSUME PlantInv, NEW r \in Requests,
           G!ReadFactory(r) \/ G!ReadMachine(r) \/ G!ReadNewSensor(r) \/ G!ReadSensor(r)
    PROVE  PlantInv' /\ PlantSame /\ edit'[r].pc # "import"
           /\ \E q : edit' = [edit EXCEPT ![r] = q]
<1>1. G!Room /\ PlantSame
  BY DEF G!ReadFactory, G!ReadMachine, G!ReadNewSensor, G!ReadSensor, G!plantVars, PlantSame
<1>2. \E q : PlantRequest(q) /\ q.pc \in Editing /\ edit' = [edit EXCEPT ![r] = q]
  <2>1. CASE G!ReadFactory(r)
    <3>1. PICK m \in Machines, f \in Factories, name \in {"press"} :
             G!Begin(r, G!Edit("machine", m, G!NoMachine, G!MachineRow(f, name)))
      BY <2>1 DEF G!ReadFactory
    <3>2. PlantRequest(G!Edit("machine", m, G!NoMachine, G!MachineRow(f, name)))
      BY EditFields, NewRows DEF PlantRequest
    <3> QED
      BY <3>1, <3>2, BeginsEdit DEF Editing
  <2>2. CASE G!ReadMachine(r)
    <3>1. PICK m \in Machines, f \in Factories, name \in {"press"} :
             /\ machine[m].state = "live"
             /\ f = machine[m].factory \/ factory[f] = "live"
             /\ G!Begin(r, G!Edit("machine", m, machine[m], G!MachineRow(f, name)))
      BY <2>2 DEF G!ReadMachine
    <3>2. PlantRequest(G!Edit("machine", m, machine[m], G!MachineRow(f, name)))
      BY <3>1, EditFields, NewRows DEF PlantRequest, PlantInv, PlantRows
    <3> QED
      BY <3>1, <3>2, BeginsEdit DEF Editing
  <2>3. CASE G!ReadNewSensor(r)
    <3>1. PICK s \in Sensors, m \in Machines, name \in {"heat"}, low \in Limits, high \in Limits :
             /\ G!_validate_range(low, high)
             /\ G!Begin(r, G!Edit("sensor", s, G!NoSensor, G!SensorRow(m, name, low, high)))
      BY <2>3 DEF G!ReadNewSensor
    <3>2. PlantRequest(G!Edit("sensor", s, G!NoSensor, G!SensorRow(m, name, low, high)))
      BY <3>1, EditFields, NewSensorRows DEF PlantRequest, G!_validate_range
    <3> QED
      BY <3>1, <3>2, BeginsEdit DEF Editing
  <2>4. CASE G!ReadSensor(r)
    <3>1. PICK s \in Sensors, m \in Machines, name \in {"heat"}, low \in Limits, high \in Limits :
             /\ G!_validate_range(low, high)
             /\ G!Begin(r, G!Edit("sensor", s, sensor[s], G!SensorRow(m, name, low, high)))
      BY <2>4 DEF G!ReadSensor
    <3>2. PlantRequest(G!Edit("sensor", s, sensor[s], G!SensorRow(m, name, low, high)))
      BY <3>1, EditFields, NewSensorRows DEF PlantRequest, G!_validate_range, PlantInv, PlantRows
    <3> QED
      BY <3>1, <3>2, BeginsEdit DEF Editing
  <2> QED
    BY <2>1, <2>2, <2>3, <2>4
<1>3. PICK q : PlantRequest(q) /\ q.pc \in Editing /\ edit' = [edit EXCEPT ![r] = q]
  BY <1>2
<1>4. edit'[r] = q
  BY <1>3 DEF PlantInv
<1>5. PlantInv'
  BY <1>1, <1>3, RequestKeepsPlant
<1> QED
  BY <1>1, <1>3, <1>4, <1>5 DEF Editing

LEMMA FlushedMachine ==
    ASSUME NEW row \in Machine, NEW read \in Machine, NEW new \in Machine
    PROVE  LET after == G!Flush(row, read, new)
           IN /\ after \in Machine
              /\ after.state = IF new.state # read.state THEN new.state ELSE row.state
              /\ after.factory = IF new.factory # read.factory THEN new.factory
                                 ELSE row.factory
<1> DEFINE after == G!Flush(row, read, new)
<1>1. DOMAIN row = {"state", "factory", "name"}
  BY DEF Machine
<1>2. after = [f \in {"state", "factory", "name"} |->
                 IF new[f] # read[f] THEN new[f] ELSE row[f]]
  BY <1>1 DEF G!Flush
<1>3. after = [state |-> after.state, factory |-> after.factory, name |-> after.name]
  BY <1>2
<1>4. /\ after.state \in {"absent", "live", "deleted"}
      /\ after.factory \in Factories \cup {None} /\ after.name \in {"press"} \cup {None}
  BY <1>2 DEF Machine
<1> QED
  BY <1>2, <1>3, <1>4 DEF Machine

LEMMA FlushedSensor ==
    ASSUME NEW row \in Sensor, NEW read \in Sensor, NEW new \in Sensor
    PROVE  LET after == G!Flush(row, read, new)
           IN /\ after \in Sensor
              /\ after.low = IF new.low # read.low THEN new.low ELSE row.low
              /\ after.high = IF new.high # read.high THEN new.high ELSE row.high
<1> DEFINE after == G!Flush(row, read, new)
           Columns == {"state", "machine", "name", "low", "high"}
<1>1. DOMAIN row = Columns
  BY DEF Sensor
<1>2. after = [f \in Columns |-> IF new[f] # read[f] THEN new[f] ELSE row[f]]
  BY <1>1 DEF G!Flush
<1>3. after = [state |-> after.state, machine |-> after.machine, name |-> after.name,
               low |-> after.low, high |-> after.high]
  BY <1>2
<1>4. /\ after.state \in {"absent", "live", "deleted"}
      /\ after.machine \in Machines \cup {None} /\ after.name \in {"heat"} \cup {None}
      /\ after.low \in Limits \cup {0} /\ after.high \in Limits \cup {0}
  BY <1>2 DEF Sensor
<1> QED
  BY <1>2, <1>3, <1>4 DEF Sensor

\* A request that commits its write of the plant.
LEMMA CommitKeepsPlant ==
    ASSUME PlantInv, NEW r \in Requests, edit[r].pc \in Editing, G!Done(r), G!Count, PlantRows'
    PROVE  PlantInv'
<1>1. edit' = [edit EXCEPT ![r] = G!NoRequest] /\ writes' = writes + 1
  BY DEF G!Done, G!Count
<1>2. DOMAIN edit' = Requests /\ \A s \in Requests : PlantRequest(edit'[s])
  BY <1>1, NoRequestIsFree DEF PlantInv
<1> DEFINE q == G!NoRequest
<1>0. edit' = [edit EXCEPT ![r] = q] /\ q.pc \notin Editing
  BY <1>1, NoRequestIsFree DEF Editing
<1> HIDE DEF q
<1>3. Count(edit', Editing) = Count(edit, Editing) - 1
  BY <1>0, CountMoves DEF PlantInv
<1>4. /\ writes \in Nat /\ Count(edit, Editing) \in Nat /\ MaxWrites \in Nat
      /\ writes + Count(edit, Editing) <= MaxWrites
  BY CountIsNatural, PlatformAssumption DEF PlantInv, Editing
<1>5. writes' \in Nat /\ writes' + Count(edit', Editing) <= MaxWrites
  BY <1>1, <1>3, <1>4
<1> QED
  BY <1>2, <1>5 DEF PlantInv, Editing

\* A request that ends without a write.
LEMMA NothingKeepsPlant ==
    ASSUME PlantInv, NEW r \in Requests, G!Done(r), PlantSame
    PROVE  PlantInv'
  BY NoRequestIsFree, RequestKeepsPlant DEF G!Done, Editing

LEMMA MachineWritten ==
    ASSUME PlantInv, NEW r \in Requests, G!write_machine(r)
    PROVE  PlantInv' /\ writes' = writes + 1
<1> DEFINE q == edit[r]
           row == G!Flush(machine[q.id], q.read, q.new)
<1>1. /\ q.pc = "machine" /\ G!Count /\ G!Done(r)
      /\ machine' = [machine EXCEPT ![q.id] = row] /\ UNCHANGED <<factory, sensor>>
  BY DEF G!write_machine
<1>2. /\ q.id \in Machines /\ q.read \in Machine /\ q.new \in Machine
      /\ q.read.state = "live" \/ (q.read.state = "absent" /\ q.read.factory = None)
      /\ q.new.state = "live" /\ q.new.factory \in Factories
  BY <1>1 DEF PlantInv, PlantRequest
<1>3. machine[q.id] \in Machine
      /\ (machine[q.id].state = "live" => machine[q.id].factory \in Factories)
  BY <1>2 DEF PlantInv, PlantRows
<1>4. /\ row \in Machine
      /\ row.state = IF q.new.state # q.read.state THEN q.new.state ELSE machine[q.id].state
      /\ row.factory = IF q.new.factory # q.read.factory THEN q.new.factory
                       ELSE machine[q.id].factory
  BY <1>2, <1>3, FlushedMachine
<1>5. row.state = "live" => row.factory \in Factories
  BY <1>2, <1>3, <1>4, PlantAssumption
<1> HIDE DEF row
<1>6. PlantRows'
  BY <1>1, <1>2, <1>4, <1>5 DEF PlantInv, PlantRows
<1> QED
  BY <1>1, <1>6, CommitKeepsPlant DEF Editing, G!Count

LEMMA SensorWritten ==
    ASSUME PlantInv, NEW r \in Requests, G!write_sensor(r)
    PROVE  PlantInv' /\ (PlantSame \/ writes' = writes + 1)
<1> DEFINE q == edit[r]
           row == G!Flush(sensor[q.id], q.read, q.new)
<1>1. /\ q.pc = "sensor" /\ G!Done(r) /\ UNCHANGED <<factory, machine>>
      /\ UNCHANGED <<sensor, writes>> \/ (sensor' = [sensor EXCEPT ![q.id] = row] /\ G!Count)
  BY DEF G!write_sensor
<1>2. q.id \in Sensors /\ q.read \in Sensor /\ q.new \in Sensor /\ sensor[q.id] \in Sensor
  BY <1>1 DEF PlantInv, PlantRequest, PlantRows
<1>3. row \in Sensor
  BY <1>2, FlushedSensor
<1> HIDE DEF row
<1>4. CASE UNCHANGED <<sensor, writes>>
  BY <1>1, <1>4, NothingKeepsPlant DEF PlantSame
<1>5. CASE sensor' = [sensor EXCEPT ![q.id] = row] /\ G!Count
  <2>1. PlantRows'
    BY <1>1, <1>2, <1>3, <1>5 DEF PlantInv, PlantRows
  <2> QED
    BY <1>1, <1>5, <2>1, CommitKeepsPlant DEF Editing, G!Count
<1> QED
  BY <1>1, <1>4, <1>5

\* A step that does not touch the imports: the plant is as it was, or another write on.
PlantMoves == PlantSame \/ writes' = writes + 1

LEMMA SameLookups ==
    ASSUME PlantSame
    PROVE  /\ G!_sensor_lookup' = G!_sensor_lookup /\ G!Ambiguous' = G!Ambiguous
           /\ \A mapping, lookup :
                 G!_records(mapping, lookup)' = G!_records(mapping, lookup)
<1>1. UNCHANGED <<factory, machine, sensor, writes>>
  BY DEF PlantSame
<1>2. G!Reachable' = G!Reachable /\ \A s : G!NameOf(s)' = G!NameOf(s)
  BY <1>1 DEF G!Reachable, G!NameOf
<1>3. G!_sensor_lookup' = G!_sensor_lookup
  BY <1>2 DEF G!_sensor_lookup
<1>4. G!Ambiguous' = G!Ambiguous
  BY <1>2 DEF G!Ambiguous
<1>5. \A cell, lookup : G!StoredCell(cell, lookup)' = G!StoredCell(cell, lookup)
  BY <1>1 DEF G!StoredCell, G!Accepted
<1>6. \A mapping, lookup : G!_records(mapping, lookup)' = G!_records(mapping, lookup)
  BY <1>5 DEF G!_records
<1> QED
  BY <1>3, <1>4, <1>6

LEMMA ReportLives ==
    ASSUME writes \in Nat, PlantMoves, NEW report, SoundReport(report)
    PROVE  SoundReport(report)'
<1>1. CASE PlantSame
  <2>1. writes' = writes
    BY <1>1 DEF PlantSame
  <2> QED
    BY <1>1, <2>1, SameLookups DEF SoundReport
<1>2. CASE writes' = writes + 1
  <2>1. report.at \in Nat /\ report.at <= writes
    BY DEF SoundReport
  <2>2. report.at <= writes' /\ report.at # writes'
    BY <1>2, <2>1
  <2> QED
    BY <2>1, <2>2 DEF SoundReport
<1> QED
  BY <1>1, <1>2 DEF PlantMoves

LEMMA ImportLives ==
    ASSUME writes \in Nat, PlantMoves, NEW row, SoundImport(row)
    PROVE  SoundImport(row)'
  BY ReportLives DEF SoundImport

LEMMA NewImportLives ==
    ASSUME writes \in Nat, PlantMoves, NEW read, NEW new, SoundImport(read), NewImport(read, new)
    PROVE  NewImport(read, new)'
<1>1. SoundReport(new.report) => SoundReport(new.report)'
  BY ReportLives
<1>2. read.report.at \in Nat /\ read.report.at <= writes
  BY DEF SoundImport, SoundReport
<1>3. read.report.at < writes \/ G!Ambiguous => read.report.at < writes' \/ G!Ambiguous'
  <2>1. CASE PlantSame
    <3>1. writes' = writes
      BY <2>1 DEF PlantSame
    <3> QED
      BY <2>1, <3>1, SameLookups
  <2>2. CASE writes' = writes + 1
    <3>1. read.report.at < writes'
      BY <1>2, <2>2
    <3> QED
      BY <3>1
  <2> QED
    BY <2>1, <2>2 DEF PlantMoves
<1> QED
  BY <1>1, <1>3 DEF NewImport

LEMMA RequestLives ==
    ASSUME writes \in Nat, PlantMoves, UNCHANGED imports, NEW q, ImportRequest(q)
    PROVE  ImportRequest(q)'
<1> SUFFICES ASSUME q.pc = "import" PROVE ImportRequest(q)'
  BY DEF ImportRequest
<1>1. SoundImport(q.read)' /\ NewImport(q.read, q.new)'
  BY ImportLives, NewImportLives DEF ImportRequest
<1> QED
  BY <1>1 DEF ImportRequest

\* Requests that do not work on imports leave them as they are.
LEMMA ElsewhereKeeps ==
    ASSUME ImportsInv, PlantInv', PlantMoves, UNCHANGED <<imports, overlapped>>,
           \A s \in Requests : edit'[s] = edit[s] \/ edit'[s].pc # "import"
    PROVE  ImportsInv'
<1>1. writes \in Nat
  BY DEF ImportsInv, PlantInv
<1>2. \A i \in Imports : SoundImport(imports[i])'
  BY <1>1, ImportLives DEF ImportsInv
<1>3. ASSUME NEW s \in Requests PROVE ImportRequest(edit[s])'
  <2>1. CASE edit'[s].pc # "import"
    BY <2>1 DEF ImportRequest
  <2>2. CASE edit'[s] = edit[s]
    <3> DEFINE q == edit[s]
    <3>1. ImportRequest(q)
      BY DEF ImportsInv
    <3> QED
      BY <1>1, <2>2, <3>1, RequestLives DEF ImportRequest
  <2> QED
    BY <2>1, <2>2
<1>4. ASSUME NEW i \in Imports \ overlapped PROVE CleanImport(i)'
  <2>1. CleanImport(i)
    BY DEF ImportsInv
  <2>2. \A s \in Requests : WorksOn(s, i)' => WorksOn(s, i) /\ edit'[s] = edit[s]
    BY DEF WorksOn
  <2> QED
    BY <2>1, <2>2 DEF CleanImport
<1> QED
  BY <1>2, <1>3, <1>4 DEF ImportsInv

\* A request that takes on an import.
LEMMA AcceptKeeps ==
    ASSUME ImportsInv, NEW r \in Requests, NEW i \in Imports, NEW new, G!Accept(r, i, new),
           imports[i].status \notin Ended \cup {"absent"}, NewImport(imports[i], new)
    PROVE  ImportsInv'
<1> DEFINE q == G!Edit("import", i, imports[i], new)
<1>1. /\ q.pc = "import" /\ q.id = i /\ q.read = imports[i] /\ q.new = new
  BY EditFields
<1>2. /\ G!Free(r) /\ edit' = [edit EXCEPT ![r] = q] /\ UNCHANGED <<G!plantVars, imports>>
      /\ overlapped' = IF G!Shared(i) THEN overlapped \cup {i} ELSE overlapped
  BY DEF G!Accept, G!Begin
<1> HIDE DEF q
<1>3. PlantSame /\ PlantMoves /\ UNCHANGED imports /\ writes \in Nat /\ PlantInv
  BY <1>2 DEF PlantSame, PlantMoves, G!plantVars, ImportsInv, PlantInv
<1>4. /\ DOMAIN edit' = Requests /\ edit'[r] = q
      /\ \A s \in Requests : s # r => edit'[s] = edit[s]
  BY <1>2, <1>3 DEF PlantInv
<1>5. PlantInv'
  <2>1. PlantRequest(q) /\ q.pc \notin Editing
    BY <1>1 DEF PlantRequest, Editing
  <2> QED
    BY <1>2, <1>3, <2>1, RequestKeepsPlant
<1>6. \A j \in Imports : SoundImport(imports[j])'
  BY <1>3, ImportLives DEF ImportsInv
<1>7. ASSUME NEW s \in Requests PROVE ImportRequest(edit[s])'
  <2>1. CASE s # r
    <3> DEFINE p == edit[s]
    <3>1. ImportRequest(p) /\ edit'[s] = p
      BY <1>4, <2>1 DEF ImportsInv
    <3> QED
      BY <1>3, <3>1, RequestLives DEF ImportRequest
  <2>2. CASE s = r
    <3>1. SoundImport(q.read) /\ NewImport(q.read, q.new)
      BY <1>1 DEF ImportsInv
    <3>2. ImportRequest(q)
      BY <1>1, <3>1 DEF ImportRequest
    <3> QED
      BY <1>3, <1>4, <2>2, <3>2, RequestLives DEF ImportRequest
  <2> QED
    BY <2>1, <2>2
<1>8. ASSUME NEW j \in Imports \ overlapped' PROVE CleanImport(j)'
  <2>1. CleanImport(j)
    BY <1>2 DEF ImportsInv
  <2>2. CASE j # i
    <3>1. \A s \in Requests : WorksOn(s, j)' => WorksOn(s, j) /\ edit'[s] = edit[s]
      BY <1>1, <1>4, <2>2 DEF WorksOn
    <3> QED
      BY <1>3, <2>1, <3>1 DEF CleanImport
  <2>3. CASE j = i
    <3>1. ~G!Shared(i)
      BY <1>2, <2>3
    <3>2. \A s \in Requests : edit[s].pc = "import" => ~G!Free(s)
      BY DEF G!Free, G!NoRequest
    <3>3. \A s \in Requests : WorksOn(s, i)' => s = r
      BY <1>4, <3>1, <3>2 DEF G!Shared, WorksOn
    <3>4. \A s \in Requests : WorksOn(s, i)' => edit'[s].read = imports'[i]
      BY <1>1, <1>3, <1>4, <3>3
    <3> QED
      BY <1>3, <2>1, <2>3, <3>3, <3>4 DEF CleanImport
  <2> QED
    BY <2>2, <2>3
<1> QED
  BY <1>3, <1>5, <1>6, <1>7, <1>8 DEF ImportsInv

LEMMA LookupsAreOne ==
    ASSUME ~G!Ambiguous, NEW one \in G!_sensor_lookup, NEW other \in G!_sensor_lookup
    PROVE  one = other
<1> DEFINE Known == {G!NameOf(s) : s \in G!Reachable}
<1>1. /\ one \in [Known -> G!Reachable] /\ other \in [Known -> G!Reachable]
      /\ \A name \in Known : G!NameOf(one[name]) = name /\ G!NameOf(other[name]) = name
  BY DEF G!_sensor_lookup
<1> HIDE DEF Known
<1>2. \A name \in Known : one[name] = other[name]
  BY <1>1 DEF G!Ambiguous
<1> QED
  BY <1>1, <1>2

\* A row in a report that does not block is accepted by the sensors that were looked up.
LEMMA QualityIsSound ==
    ASSUME ImportsInv, NEW mapping \in Mappings, NEW lookup \in G!_sensor_lookup
    PROVE  LET report == G!_quality(mapping, lookup)
           IN /\ SoundReport(report) /\ report # G!NoReport /\ report.mapping = mapping
<1> DEFINE report == G!_quality(mapping, lookup)
<1>1. report.mapping = mapping /\ report.at = writes
  BY DEF G!_quality
<1>2. ~report.blocking => G!_records(mapping, lookup) = {}
  BY DEF G!_quality, G!_records, G!StoredCell
<1>3. report # G!NoReport
  BY <1>1, PlantAssumption DEF G!NoReport
<1>4. writes \in Nat
  BY DEF ImportsInv, PlantInv
<1> HIDE DEF report
<1>5. ~report.blocking => \E other \in G!_sensor_lookup : G!_records(report.mapping, other) = {}
  BY <1>1, <1>2
<1>6. /\ report.mapping \in Mappings \cup {None} /\ report.mapping # None
      /\ report.at \in Nat /\ report.at <= writes
  BY <1>1, <1>4, PlantAssumption
<1>7. SoundReport(report)
  BY <1>5, <1>6 DEF SoundReport
<1> QED
  BY <1>1, <1>3, <1>7 DEF report

LEMMA Mapped ==
    ASSUME ImportsInv, NEW r \in Requests, G!set_mapping(r)
    PROVE  ImportsInv'
<1>1. PICK i \in Imports, m \in Mappings :
         /\ imports[i].status \in {"queued", "failed"}
         /\ G!Accept(r, i, [imports[i] EXCEPT !.mapping = m, !.report = G!NoReport,
                                              !.status = "queued"])
  BY DEF G!set_mapping
<1> DEFINE new == [imports[i] EXCEPT !.mapping = m, !.report = G!NoReport,
                                     !.status = "queued"]
<1>2. new.status = "queued" /\ new.mapping = m /\ new.report = G!NoReport
  BY DEF ImportsInv, SoundImport, ImportFields
<1>3. G!Accept(r, i, new)
  BY <1>1
<1> HIDE DEF new
<1>4. NewImport(imports[i], new)
  BY <1>2 DEF NewImport
<1> QED
  BY <1>1, <1>3, <1>4, AcceptKeeps DEF Ended

LEMMA Validated ==
    ASSUME ImportsInv, NEW r \in Requests, G!validate(r)
    PROVE  ImportsInv'
<1>1. PICK i \in Imports, lookup \in G!_sensor_lookup :
         /\ G!Open(i) /\ imports[i].mapping # None
         /\ G!Accept(r, i, [imports[i] EXCEPT !.report = G!_quality(imports[i].mapping, lookup),
                                              !.status = "validated"])
  BY DEF G!validate
<1> DEFINE report == G!_quality(imports[i].mapping, lookup)
<1>2. imports[i].mapping \in Mappings
  BY <1>1 DEF ImportsInv, SoundImport
<1>3. SoundReport(report) /\ report # G!NoReport /\ report.mapping = imports[i].mapping
  BY <1>2, QualityIsSound
<1>4. G!Accept(r, i, [imports[i] EXCEPT !.report = report, !.status = "validated"])
  BY <1>1
<1> HIDE DEF report
<1> DEFINE new == [imports[i] EXCEPT !.report = report, !.status = "validated"]
<1>5. new.status = "validated" /\ new.mapping = imports[i].mapping /\ new.report = report
  BY DEF ImportsInv, SoundImport, ImportFields
<1> HIDE DEF new
<1>6. NewImport(imports[i], new)
  BY <1>1, <1>3, <1>5 DEF NewImport
<1> QED
  BY <1>1, <1>4, <1>6, AcceptKeeps DEF G!Open, Ended, G!Finished, new

LEMMA Confirmed ==
    ASSUME ImportsInv, NEW r \in Requests, G!confirm(r)
    PROVE  ImportsInv'
<1>1. PICK i \in Imports, lookup \in G!_sensor_lookup :
         /\ G!Open(i) /\ imports[i].report # G!NoReport /\ ~imports[i].report.blocking
         /\ G!Accept(r, i, [imports[i] EXCEPT
              !.status = IF G!_records(imports[i].mapping, lookup) = {}
                         THEN "completed" ELSE "partially_completed"])
  BY DEF G!confirm
<1> DEFINE read == imports[i]
           end == IF G!_records(read.mapping, lookup) = {}
                  THEN "completed" ELSE "partially_completed"
           new == [read EXCEPT !.status = end]
<1>2. new.status = end /\ new.mapping = read.mapping /\ new.report = read.report
  BY DEF ImportsInv, SoundImport, ImportFields
<1>3. SoundReport(read.report) /\ writes \in Nat
  BY DEF ImportsInv, SoundImport, PlantInv
<1>4. end \in Ended /\ (end = "partially_completed" => G!_records(read.mapping, lookup) # {})
  BY DEF Ended
<1>5. ASSUME end = "partially_completed", ~(read.report.at < writes), ~G!Ambiguous,
             read.report.mapping = read.mapping
      PROVE  FALSE
  <2>1. read.report.at = writes
    BY <1>3, <1>5 DEF SoundReport
  <2>2. PICK other \in G!_sensor_lookup : G!_records(read.report.mapping, other) = {}
    BY <1>1, <1>3, <2>1 DEF SoundReport
  <2>3. other = lookup
    BY <1>5, LookupsAreOne
  <2> QED
    BY <1>4, <1>5, <2>2, <2>3
<1>6. G!Accept(r, i, new)
  BY <1>1
<1> HIDE DEF new, end
<1>7. NewImport(read, new)
  BY <1>1, <1>2, <1>4, <1>5 DEF NewImport
<1> QED
  BY <1>1, <1>6, <1>7, AcceptKeeps DEF G!Open, Ended, G!Finished

LEMMA Cancelled ==
    ASSUME ImportsInv, NEW r \in Requests, G!cancel(r)
    PROVE  ImportsInv'
<1>1. PICK i \in Imports :
         G!Open(i) /\ G!Accept(r, i, [imports[i] EXCEPT !.status = "cancelled"])
  BY DEF G!cancel
<1> DEFINE new == [imports[i] EXCEPT !.status = "cancelled"]
<1>2. new.status = "cancelled" /\ new.mapping = imports[i].mapping
      /\ new.report = imports[i].report
  BY DEF ImportsInv, SoundImport, ImportFields
<1>3. G!Accept(r, i, new)
  BY <1>1
<1> HIDE DEF new
<1>4. NewImport(imports[i], new)
  BY <1>2 DEF NewImport
<1> QED
  BY <1>1, <1>3, <1>4, AcceptKeeps DEF G!Open, Ended, G!Finished

LEMMA Created ==
    ASSUME ImportsInv, G!create
    PROVE  ImportsInv'
<1>1. PICK i \in Imports : /\ imports[i] = G!NoImport
                           /\ imports' = [imports EXCEPT ![i].status = "queued"]
  BY DEF G!create
<1>2. UNCHANGED <<G!plantVars, edit, overlapped>> /\ PlantMoves /\ PlantSame
  BY DEF G!create, PlantMoves, PlantSame, G!plantVars
<1> DEFINE row == [G!NoImport EXCEPT !.status = "queued"]
<1>3. /\ imports'[i] = row /\ DOMAIN imports' = Imports
      /\ \A j \in Imports : j # i => imports'[j] = imports[j]
  BY <1>1 DEF ImportsInv
<1>4. /\ DOMAIN row = ImportFields /\ row.status = "queued" /\ row.mapping = None
      /\ row.report = G!NoReport /\ row.stored = <<>>
  BY DEF G!NoImport, ImportFields
<1> HIDE DEF row
<1>5. writes \in Nat /\ PlantInv' /\ SoundReport(G!NoReport) /\ <<>> \in Seq(Mappings)
  BY <1>1, <1>2 DEF ImportsInv, SoundImport, PlantInv, PlantRows, G!plantVars, G!NoImport
<1>6. SoundReport(G!NoReport)'
  BY <1>2, <1>5, ReportLives DEF G!NoReport
<1>7. ASSUME NEW j \in Imports PROVE SoundImport(imports[j])'
  <2>1. CASE j = i
    BY <1>3, <1>4, <1>5, <1>6, <2>1 DEF SoundImport
  <2>2. CASE j # i
    BY <1>2, <1>3, <1>5, <2>2, ImportLives DEF ImportsInv
  <2> QED
    BY <2>1, <2>2
<1>8. ASSUME NEW s \in Requests PROVE ImportRequest(edit[s])'
  <2>1. ImportRequest(edit[s]) /\ edit'[s] = edit[s]
    BY <1>2 DEF ImportsInv
  <2> SUFFICES ASSUME edit[s].pc = "import" PROVE ImportRequest(edit[s])'
    BY <1>2 DEF ImportRequest
  <2>2. edit[s].id # i
    BY <1>1, <2>1 DEF ImportRequest, G!NoImport
  <2>3. SoundImport(edit[s].read)' /\ NewImport(edit[s].read, edit[s].new)'
    BY <1>2, <1>5, <2>1, ImportLives, NewImportLives DEF ImportRequest
  <2> QED
    BY <1>2, <1>3, <2>1, <2>2, <2>3 DEF ImportRequest
<1>9. ASSUME NEW j \in Imports \ overlapped' PROVE CleanImport(j)'
  <2>1. CleanImport(j) /\ \A s \in Requests : WorksOn(s, j)' <=> WorksOn(s, j)
    BY <1>2 DEF ImportsInv, WorksOn
  <2>2. CASE j # i
    BY <1>2, <1>3, <2>1, <2>2 DEF CleanImport
  <2>3. CASE j = i
    <3>1. \A s \in Requests : ~WorksOn(s, i)
      BY <1>1 DEF ImportsInv, ImportRequest, WorksOn, G!NoImport
    <3>2. row.status \notin Ended
      BY <1>4 DEF Ended
    <3> QED
      BY <1>3, <1>4, <2>1, <2>3, <3>1, <3>2 DEF CleanImport
  <2> QED
    BY <2>2, <2>3
<1> QED
  BY <1>3, <1>5, <1>7, <1>8, <1>9 DEF ImportsInv

\* The columns of the import that a request writes.
LEMMA WrittenFields ==
    ASSUME NEW row, NEW read, NEW new, DOMAIN row = ImportFields
    PROVE  LET after == G!Written(row, read, new)
               status == IF new.status # read.status THEN new.status ELSE row.status
           IN /\ DOMAIN after = ImportFields
              /\ after.status = IF status = "validated" THEN "queued" ELSE status
              /\ after.mapping = IF new.mapping # read.mapping THEN new.mapping
                                 ELSE row.mapping
              /\ after.report = IF new.report # read.report THEN new.report ELSE row.report
              /\ after.stored = IF new.status \in Ended THEN Append(row.stored, read.mapping)
                                ELSE row.stored
<1> DEFINE flushed == G!Flush(row, read, new)
<1>1. flushed = [f \in ImportFields |-> IF new[f] # read[f] THEN new[f] ELSE row[f]]
  BY DEF G!Flush
<1>2. /\ DOMAIN flushed = ImportFields
      /\ flushed.status = IF new.status # read.status THEN new.status ELSE row.status
      /\ flushed.mapping = IF new.mapping # read.mapping THEN new.mapping ELSE row.mapping
      /\ flushed.report = IF new.report # read.report THEN new.report ELSE row.report
  BY <1>1 DEF ImportFields
<1> HIDE DEF flushed
<1> QED
  BY <1>2 DEF G!Written, flushed, ImportFields, Ended, G!Finished

LEMMA ImportCommitted ==
    ASSUME ImportsInv, NEW r \in Requests, G!commit(r)
    PROVE  ImportsInv'
<1> DEFINE q == edit[r]
<1>0. q.id \in Imports
  BY DEF ImportsInv, ImportRequest, G!commit
<1> SUFFICES ASSUME NEW i \in Imports, NEW row, i = q.id,
                    row = G!Written(imports[i], q.read, q.new)
             PROVE  ImportsInv'
  BY <1>0
<1> DEFINE was == imports[i]
           status == IF q.new.status # q.read.status THEN q.new.status ELSE was.status
<1>1. /\ q.pc = "import" /\ imports' = [imports EXCEPT ![i] = row] /\ G!Done(r)
      /\ UNCHANGED <<G!plantVars, overlapped>>
  BY DEF G!commit
<1>2. PlantSame /\ PlantMoves /\ writes \in Nat /\ PlantInv
  BY <1>1 DEF PlantSame, PlantMoves, G!plantVars, ImportsInv, PlantInv
<1>3. PlantInv'
  BY <1>1, <1>2, NothingKeepsPlant
<1>4. /\ i \in Imports /\ SoundImport(q.read) /\ NewImport(q.read, q.new) /\ SoundImport(was)
      /\ q.read.status \notin Ended \cup {"absent"} /\ was.status # "absent"
      /\ q.read.mapping # None => was.mapping # None
  BY <1>1 DEF ImportsInv, ImportRequest
<1>5. /\ DOMAIN row = ImportFields
      /\ row.status = IF status = "validated" THEN "queued" ELSE status
      /\ row.mapping = IF q.new.mapping # q.read.mapping THEN q.new.mapping ELSE was.mapping
      /\ row.report = IF q.new.report # q.read.report THEN q.new.report ELSE was.report
      /\ row.stored = IF q.new.status \in Ended THEN Append(was.stored, q.read.mapping)
                      ELSE was.stored
  BY <1>4, WrittenFields DEF SoundImport
<1>6. /\ DOMAIN imports' = Imports /\ imports'[i] = row
      /\ \A j \in Imports : j # i => imports'[j] = imports[j]
  BY <1>1, <1>4 DEF ImportsInv
<1>7. /\ DOMAIN edit' = Requests /\ edit'[r].pc = "free"
      /\ \A s \in Requests : s # r => edit'[s] = edit[s]
  BY <1>1, <1>2, NoRequestIsFree DEF G!Done, PlantInv
<1>8. /\ status \in {"queued", "cancelled", "validated"} \cup Ended
      /\ row.status \in {"queued", "cancelled"} \cup Ended
  BY <1>4, <1>5 DEF NewImport, SoundImport, Ended
<1>9. SoundReport(q.new.report)
  <2>1. SoundReport(G!NoReport)
    BY <1>2, PlantAssumption DEF G!NoReport, SoundReport
  <2> QED
    BY <1>4, <2>1 DEF NewImport, SoundImport
<1>10. SoundImport(row)
  <2>1. row.mapping \in Mappings \cup {None}
    BY <1>4, <1>5 DEF NewImport, SoundImport
  <2>2. row.stored \in Seq(Mappings)
    <3>1. was.stored \in Seq(Mappings)
      BY <1>4 DEF SoundImport
    <3>2. q.new.status \in Ended => q.read.mapping \in Mappings
      BY <1>4 DEF NewImport, SoundImport, Ended
    <3> QED
      BY <1>5, <3>1, <3>2
  <2>3. SoundReport(row.report)
    BY <1>4, <1>5, <1>9 DEF SoundImport
  <2>4. row.report # G!NoReport => row.mapping # None
    <3>1. CASE q.new.report = q.read.report
      BY <1>4, <1>5, <3>1, PlantAssumption DEF NewImport, SoundImport
    <3>2. CASE q.new.report # q.read.report
      BY <1>4, <1>5, <3>2, PlantAssumption DEF NewImport, SoundImport
    <3> QED
      BY <3>1, <3>2
  <2> QED
    BY <1>5, <1>8, <2>1, <2>2, <2>3, <2>4 DEF SoundImport
<1>11. \A j \in Imports : SoundImport(imports[j])'
  <2>1. SoundImport(row)'
    BY <1>2, <1>10, ImportLives
  <2>2. \A j \in Imports : j # i => SoundImport(imports[j])'
    BY <1>2, <1>6, ImportLives DEF ImportsInv
  <2> QED
    BY <1>6, <2>1, <2>2 DEF SoundImport, SoundReport
<1>12. row.status # "absent" /\ (was.mapping # None => row.mapping # None)
  BY <1>4, <1>5, <1>8, PlantAssumption DEF NewImport, SoundImport, Ended
<1>13. ASSUME NEW s \in Requests PROVE ImportRequest(edit[s])'
  <2> DEFINE p == edit[s]
  <2>1. CASE s = r
    BY <1>7, <2>1 DEF ImportRequest
  <2>2. CASE s # r
    <3> SUFFICES ASSUME p.pc = "import" PROVE ImportRequest(edit[s])'
      BY <1>7, <2>2 DEF ImportRequest
    <3>1. ImportRequest(p) /\ edit'[s] = p
      BY <1>7, <2>2 DEF ImportsInv
    <3>2. SoundImport(p.read)' /\ NewImport(p.read, p.new)'
      BY <1>2, <3>1, ImportLives, NewImportLives DEF ImportRequest
    <3>3. imports'[p.id].status # "absent"
          /\ (imports[p.id].mapping # None => imports'[p.id].mapping # None)
      BY <1>6, <1>12, <3>1 DEF ImportRequest
    <3> QED
      BY <3>1, <3>2, <3>3 DEF ImportRequest
  <2> QED
    BY <2>1, <2>2
<1>14. ASSUME NEW j \in Imports \ overlapped' PROVE CleanImport(j)'
  <2>1. CleanImport(j)
    BY <1>1 DEF ImportsInv
  <2>2. \A s \in Requests : WorksOn(s, j)' => s # r /\ WorksOn(s, j) /\ edit'[s] = edit[s]
    BY <1>7 DEF WorksOn
  <2>3. CASE j # i
    BY <1>6, <2>1, <2>2, <2>3 DEF CleanImport
  <2>4. CASE j = i
    <3>1. q.read = was /\ \A s \in Requests : ~WorksOn(s, i)'
      BY <1>1, <2>1, <2>2, <2>4 DEF CleanImport, WorksOn
    <3>2. was.stored = <<>> /\ (was.report # G!NoReport => was.report.mapping = was.mapping)
      BY <1>4, <2>1, <2>4, <3>1 DEF CleanImport
    <3>3. /\ row.mapping = q.new.mapping /\ row.report = q.new.report
          /\ status = q.new.status
      BY <1>5, <3>1
    <3>4. CASE q.new.status = "queued"
      BY <1>4, <1>5, <1>6, <2>4, <3>1, <3>2, <3>3, <3>4 DEF NewImport, CleanImport, Ended
    <3>5. CASE q.new.status = "validated"
      BY <1>4, <1>5, <1>6, <2>4, <3>1, <3>2, <3>3, <3>5 DEF NewImport, CleanImport, Ended
    <3>6. CASE q.new.status = "cancelled"
      BY <1>4, <1>5, <1>6, <2>4, <3>1, <3>2, <3>3, <3>6 DEF NewImport, CleanImport, Ended
    <3>7. CASE q.new.status \in Ended
      <4>1. /\ row.report = was.report /\ was.report # G!NoReport
            /\ row.mapping = was.mapping /\ row.status \in Ended
        BY <1>4, <1>5, <3>1, <3>3, <3>7 DEF NewImport, Ended
      <4>2. row.stored = <<was.mapping>>
        BY <1>5, <3>1, <3>2, <3>7
      <4> QED
        BY <1>6, <2>4, <3>1, <3>2, <4>1, <4>2 DEF CleanImport
    <3> QED
      BY <1>4, <3>4, <3>5, <3>6, <3>7 DEF NewImport
  <2> QED
    BY <2>3, <2>4
<1> QED
  BY <1>3, <1>6, <1>11, <1>13, <1>14 DEF ImportsInv

LEMMA ImportsStart == G!Init => ImportsInv
<1> SUFFICES ASSUME G!Init PROVE ImportsInv
  OBVIOUS
<1>1. /\ factory \in [Factories -> {"absent", "live"}] /\ writes = 0
      /\ machine = MCMachineRows /\ sensor = MCSensorRows
      /\ edit = [r \in Requests |-> G!NoRequest] /\ imports = [i \in Imports |-> G!NoImport]
  BY DEF G!Init, G!PlantInit
<1>2. PlantRows
  BY <1>1, PlantAssumption DEF PlantRows, MCMachineRows, MCSensorRows, Machine, Sensor
<1>3. Count(edit, {"machine", "sensor"}) = 0
  <2>1. Busy(edit, {"machine", "sensor"}) = {}
    BY <1>1, NoRequestIsFree DEF Busy
  <2> QED
    BY <2>1, FS_EmptySet DEF Count
<1>4. PlantInv
  BY <1>1, <1>2, <1>3, NoRequestIsFree, PlatformAssumption DEF PlantInv
<1>5. SoundReport(G!NoReport)
  BY <1>1, PlantAssumption DEF SoundReport, G!NoReport
<1>6. \A i \in Imports : SoundImport(imports[i])
  <2>1. /\ DOMAIN G!NoImport = ImportFields /\ G!NoImport.status = "absent"
        /\ G!NoImport.mapping = None /\ G!NoImport.report = G!NoReport
        /\ G!NoImport.stored = <<>>
    BY DEF G!NoImport, ImportFields
  <2>2. <<>> \in Seq(Mappings)
    OBVIOUS
  <2>3. SoundImport(G!NoImport)
    BY <1>5, <2>1, <2>2 DEF SoundImport
  <2> QED
    BY <1>1, <2>3
<1>7. \A r \in Requests : ImportRequest(edit[r]) /\ edit[r].pc = "free"
  BY <1>1, NoRequestIsFree DEF ImportRequest
<1>8. \A i \in Imports : CleanImport(i)
  BY <1>1, <1>7 DEF CleanImport, WorksOn, G!NoImport, Ended
<1> QED
  BY <1>1, <1>4, <1>6, <1>7, <1>8 DEF ImportsInv

LEMMA ImportsStep == ImportsInv /\ [G!Next]_(G!vars) => ImportsInv'
<1> SUFFICES ASSUME ImportsInv, [G!Next]_(G!vars) PROVE ImportsInv'
  OBVIOUS
<1>0. PlantInv
  BY DEF ImportsInv
<1>1. CASE UNCHANGED G!vars
  <2>1. PlantSame /\ PlantMoves /\ UNCHANGED <<imports, overlapped, edit>>
    BY <1>1 DEF G!vars, G!plantVars, PlantSame, PlantMoves
  <2>2. PlantInv'
    BY <1>0, <2>1 DEF PlantInv, PlantRows, PlantSame
  <2> QED
    BY <2>1, <2>2, ElsewhereKeeps
<1>2. CASE G!create
  BY <1>2, Created
<1>3. CASE UNCHANGED <<imports, overlapped>>
            /\ (G!create_factory \/ G!delete_factory \/ G!delete_machine \/ G!delete_sensor)
  <2>1. PlantMoves /\ UNCHANGED edit
    BY <1>3 DEF G!create_factory, G!delete_factory, G!delete_machine, G!delete_sensor,
                G!Count, PlantMoves
  <2> QED
    BY <1>0, <1>3, <2>1, PlantDeletes, ElsewhereKeeps
<1>4. ASSUME NEW r \in Requests, UNCHANGED <<imports, overlapped>>,
             G!ReadFactory(r) \/ G!ReadMachine(r) \/ G!ReadNewSensor(r) \/ G!ReadSensor(r)
      PROVE  ImportsInv'
  <2>1. /\ PlantInv' /\ PlantMoves /\ edit'[r].pc # "import"
        /\ \E q : edit' = [edit EXCEPT ![r] = q]
    BY <1>0, <1>4, PlantReads DEF PlantMoves
  <2>2. \A s \in Requests : edit'[s] = edit[s] \/ edit'[s].pc # "import"
    BY <2>1 DEF PlantInv
  <2> QED
    BY <1>4, <2>1, <2>2, ElsewhereKeeps
<1>5. ASSUME NEW r \in Requests, UNCHANGED <<imports, overlapped>>,
             G!write_machine(r) \/ G!write_sensor(r)
      PROVE  ImportsInv'
  <2>1. PlantInv' /\ PlantMoves /\ edit' = [edit EXCEPT ![r] = G!NoRequest]
    BY <1>0, <1>5, MachineWritten, SensorWritten
       DEF PlantMoves, G!write_machine, G!write_sensor, G!Done
  <2>2. \A s \in Requests : edit'[s] = edit[s] \/ edit'[s].pc # "import"
    BY <1>0, <2>1, NoRequestIsFree DEF PlantInv
  <2> QED
    BY <1>5, <2>1, <2>2, ElsewhereKeeps
<1>6. ASSUME NEW r \in Requests, G!Abandon(r)
      PROVE  ImportsInv'
  <2>1. /\ PlantSame /\ PlantMoves /\ UNCHANGED <<imports, overlapped>>
        /\ G!Done(r) /\ edit' = [edit EXCEPT ![r] = G!NoRequest]
    BY <1>6 DEF G!Abandon, G!Done, PlantSame, PlantMoves, G!plantVars
  <2>2. \A s \in Requests : edit'[s] = edit[s] \/ edit'[s].pc # "import"
    BY <1>0, <2>1, NoRequestIsFree DEF PlantInv
  <2> QED
    BY <1>0, <2>1, <2>2, NothingKeepsPlant, ElsewhereKeeps
<1> QED
  <2>1. CASE G!PlantNext /\ UNCHANGED <<imports, overlapped>>
    BY <1>3, <1>4, <1>5, <2>1 DEF G!PlantNext
  <2>2. ASSUME NEW r \in Requests,
               \/ G!set_mapping(r) \/ G!validate(r) \/ G!confirm(r)
               \/ G!cancel(r) \/ G!commit(r) \/ G!Abandon(r)
        PROVE  ImportsInv'
    BY <1>6, <2>2, Mapped, Validated, Confirmed, Cancelled, ImportCommitted
  <2> QED
    BY <1>1, <1>2, <2>1, <2>2 DEF G!Next

\* The invariant of the plant and its imports: a report that allows the import to be
\* confirmed is about the rows as they were mapped, and an import that one request at a
\* time works on is the one its request has read (routes and services of guided_data).
THEOREM ImportsInvariance == G!Spec => []ImportsInv
  BY ImportsStart, ImportsStep, PTL DEF G!Spec

\* Readings are stored once, with the mapping that was validated, for every set of plants,
\* requests and mappings (ImportsAreSound).
THEOREM ImportsSoundness == G!Spec => []ImportsAreSound
<1>1. ImportsInv => ImportsAreSound
  <2> SUFFICES ASSUME ImportsInv PROVE ImportsAreSound
    OBVIOUS
  <2>1. G!PlantTypeOK
    <3>1. writes \in Nat /\ Count(edit, Editing) \in Nat /\ MaxWrites \in Nat
          /\ writes + Count(edit, Editing) <= MaxWrites
      BY CountIsNatural, PlatformAssumption DEF ImportsInv, PlantInv, Editing
    <3>2. writes \in 0 .. MaxWrites
      BY <3>1
    <3> QED
      BY <3>2 DEF ImportsInv, PlantInv, PlantRows, G!PlantTypeOK, Machine, Sensor
  <2>2. G!TypeOK
    BY <2>1 DEF G!TypeOK, ImportsInv, SoundImport, SoundReport, Ended, G!Finished
  <2>3. G!ImportedOnce
    BY DEF G!ImportedOnce, ImportsInv, CleanImport, Ended, G!Finished
  <2> QED
    BY <2>2, <2>3 DEF ImportsAreSound
<1> QED
  BY <1>1, ImportsInvariance, PTL

-----------------------------------------------------------------------------
(* The plant and its imports: what a step may not do *)

LEMMA OrphansStep ==
    ASSUME PlantInv, G!Next, NEW m \in Machines, G!Orphan(m)', ~G!Orphan(m)
    PROVE  \E r \in Requests :
              /\ edit[r].pc = "machine" /\ edit[r].id = m /\ edit'[r] = G!NoRequest
              /\ edit[r].new.factory # edit[r].read.factory
<1>1. /\ machine'[m].state = "live" /\ factory'[machine'[m].factory] = "deleted"
      /\ ~(machine[m].state = "live" /\ factory[machine[m].factory] = "deleted")
  BY DEF G!Orphan
<1>2. ~ UNCHANGED <<factory, machine>>
  BY <1>1
<1>3. ~ UNCHANGED G!plantVars
  BY <1>2 DEF G!plantVars
<1>4. machine[m] \in Machine /\ (machine[m].state = "live" => machine[m].factory \in Factories)
  BY DEF PlantInv, PlantRows
<1>5. ~G!create_factory
  <2> SUFFICES ASSUME G!create_factory PROVE FALSE
    OBVIOUS
  <2>1. PICK f \in Factories : factory[f] = "absent" /\ factory' = [factory EXCEPT ![f] = "live"]
    BY DEF G!create_factory
  <2>2. UNCHANGED machine
    BY DEF G!create_factory
  <2> QED
    BY <1>1, <1>4, <2>1, <2>2 DEF PlantInv, PlantRows
<1>6. ~G!delete_factory
  <2> SUFFICES ASSUME G!delete_factory PROVE FALSE
    OBVIOUS
  <2>1. PICK f \in Factories : /\ factory' = [factory EXCEPT ![f] = "deleted"]
                               /\ G!soft_delete_factory(f)
    BY DEF G!delete_factory
  <2>2. machine'[m] = IF machine[m].factory = f THEN [machine[m] EXCEPT !.state = "deleted"]
                      ELSE machine[m]
    BY <2>1 DEF G!soft_delete_factory
  <2>3. machine[m].factory # f /\ machine'[m] = machine[m]
    BY <1>1, <1>4, <2>2 DEF Machine
  <2> QED
    BY <1>1, <1>4, <2>1, <2>3 DEF PlantInv, PlantRows
<1>7. ~G!delete_machine
  <2> SUFFICES ASSUME G!delete_machine PROVE FALSE
    OBVIOUS
  <2>1. PICK n \in Machines : machine' = [machine EXCEPT ![n].state = "deleted"]
    BY DEF G!delete_machine
  <2>2. UNCHANGED factory
    BY DEF G!delete_machine
  <2>3. m # n /\ machine'[m] = machine[m]
    BY <1>1, <1>4, <2>1 DEF PlantInv, PlantRows, Machine
  <2> QED
    BY <1>1, <2>2, <2>3
<1>8. PICK r \in Requests : G!write_machine(r)
  BY <1>2, <1>3, <1>5, <1>6, <1>7
     DEF G!Next, G!PlantNext, G!create, G!delete_sensor, G!ReadFactory, G!ReadMachine,
         G!ReadNewSensor, G!ReadSensor, G!write_sensor, G!set_mapping, G!validate, G!confirm,
         G!cancel, G!commit, G!Abandon, G!Accept
<1> DEFINE q == edit[r]
           row == G!Flush(machine[q.id], q.read, q.new)
<1>9. /\ q.pc = "machine" /\ edit' = [edit EXCEPT ![r] = G!NoRequest]
      /\ machine' = [machine EXCEPT ![q.id] = row] /\ UNCHANGED factory
  BY <1>8 DEF G!write_machine, G!Done
<1>10. /\ q.id \in Machines /\ q.read \in Machine /\ q.new \in Machine
       /\ q.read.state = "live" \/ (q.read.state = "absent" /\ q.read.factory = None)
       /\ q.new.state = "live" /\ q.new.factory \in Factories
  BY <1>9 DEF PlantInv, PlantRequest
<1>11. machine[q.id] \in Machine
  BY <1>10 DEF PlantInv, PlantRows
<1>12. /\ row.state = IF q.new.state # q.read.state THEN q.new.state ELSE machine[q.id].state
       /\ row.factory = IF q.new.factory # q.read.factory THEN q.new.factory
                        ELSE machine[q.id].factory
  BY <1>10, <1>11, FlushedMachine
<1> HIDE DEF row
<1>13. q.id = m /\ machine'[m] = row
  BY <1>1, <1>9, <1>10 DEF PlantInv, PlantRows
<1>14. q.new.factory # q.read.factory
  BY <1>1, <1>9, <1>10, <1>12, <1>13, PlantAssumption
<1>15. edit'[r] = G!NoRequest
  BY <1>9 DEF PlantInv
<1> QED
  BY <1>9, <1>13, <1>14, <1>15

LEMMA RangesAreIntegers ==
    ASSUME NEW row \in Sensor
    PROVE  row.low \in Int /\ row.high \in Int
<1>1. row.low \in Limits \cup {0} /\ row.high \in Limits \cup {0}
  BY DEF Sensor
<1>2. Limits \subseteq Int
  BY PlantAssumption
<1>3. 0 \in Int
  OBVIOUS
<1>4. \A x \in Limits \cup {0} : x \in Int
  BY <1>2, <1>3, Zenon
<1> QED
  BY <1>1, <1>4, Zenon

LEMMA RangesStep ==
    ASSUME PlantInv, G!Next, NEW s \in Sensors,
           sensor'[s].low >= sensor'[s].high, sensor[s].low < sensor[s].high
    PROVE  \E r \in Requests :
              /\ edit[r].pc = "sensor" /\ edit[r].id = s
              /\ <<sensor[s].low, sensor[s].high>> # <<edit[r].read.low, edit[r].read.high>>
<1>1. /\ sensor \in [Sensors -> Sensor] /\ sensor[s] \in Sensor
      /\ sensor[s].low \in Int /\ sensor[s].high \in Int
  <2>1. sensor \in [Sensors -> Sensor] /\ sensor[s] \in Sensor
    BY DEF PlantInv, PlantRows
  <2> QED
    BY <2>1, RangesAreIntegers
<1>2. sensor'[s] # sensor[s]
  BY <1>1
<1>3. ~ UNCHANGED sensor /\ ~ UNCHANGED G!plantVars
  BY <1>2 DEF G!plantVars
<1>4. ~G!delete_sensor
  <2> SUFFICES ASSUME G!delete_sensor PROVE FALSE
    OBVIOUS
  <2>1. PICK t \in Sensors : sensor' = [sensor EXCEPT ![t].state = "deleted"]
    BY DEF G!delete_sensor
  <2>2. sensor'[s].low = sensor[s].low /\ sensor'[s].high = sensor[s].high
    BY <1>1, <2>1 DEF Sensor
  <2> QED
    BY <1>1, <2>2
<1>5. PICK r \in Requests : G!write_sensor(r)
  BY <1>3, <1>4
     DEF G!Next, G!PlantNext, G!create, G!create_factory, G!delete_factory, G!delete_machine,
         G!ReadFactory, G!ReadMachine, G!ReadNewSensor, G!ReadSensor, G!write_machine,
         G!set_mapping, G!validate, G!confirm, G!cancel, G!commit, G!Abandon, G!Accept
<1> DEFINE q == edit[r]
           row == G!Flush(sensor[q.id], q.read, q.new)
<1>6. q.pc = "sensor" /\ sensor' = [sensor EXCEPT ![q.id] = row]
  BY <1>3, <1>5 DEF G!write_sensor
<1>7. /\ q.id \in Sensors /\ q.read \in Sensor /\ q.new \in Sensor /\ sensor[q.id] \in Sensor
      /\ q.new.low < q.new.high
  BY <1>1, <1>6 DEF PlantInv, PlantRequest
<1>8. /\ row.low = IF q.new.low # q.read.low THEN q.new.low ELSE sensor[q.id].low
      /\ row.high = IF q.new.high # q.read.high THEN q.new.high ELSE sensor[q.id].high
  BY <1>7, FlushedSensor
<1> HIDE DEF row
<1>9. q.id = s /\ sensor'[s] = row
  BY <1>1, <1>2, <1>6, <1>7
<1>10. q.new.low \in Int /\ q.new.high \in Int
  BY <1>7, RangesAreIntegers
<1>11. ~(sensor[s].low = q.read.low /\ sensor[s].high = q.read.high)
  <2> SUFFICES ASSUME sensor[s].low = q.read.low, sensor[s].high = q.read.high PROVE FALSE
    OBVIOUS
  <2>1. row.low = q.new.low /\ row.high = q.new.high
    BY <1>8, <1>9
  <2> QED
    BY <1>7, <1>9, <1>10, <2>1
<1> QED
  BY <1>6, <1>9, <1>11

\* The imports change only when one is uploaded or a request commits its own.
LEMMA OnlyCommits ==
    ASSUME ImportsInv, G!Next, NEW i \in Imports, imports'[i] # imports[i]
    PROVE  \/ imports[i].status = "absent" /\ imports'[i].status = "queued"
           \/ \E r \in Requests :
                 /\ edit[r].pc = "import" /\ edit[r].id = i /\ edit'[r] = G!NoRequest
                 /\ imports'[i] = G!Written(imports[i], edit[r].read, edit[r].new)
<1>1. CASE G!create
  <2>1. PICK j \in Imports : /\ imports[j] = G!NoImport
                             /\ imports' = [imports EXCEPT ![j].status = "queued"]
    BY <1>1 DEF G!create
  <2>2. j = i
    BY <2>1 DEF ImportsInv
  <2>3. imports'[i].status = "queued"
    BY <2>1, <2>2 DEF ImportsInv, SoundImport, ImportFields
  <2> QED
    BY <2>1, <2>2, <2>3 DEF G!NoImport
<1>2. ASSUME NEW r \in Requests, G!commit(r)
      PROVE  /\ edit[r].pc = "import" /\ edit[r].id = i /\ edit'[r] = G!NoRequest
             /\ imports'[i] = G!Written(imports[i], edit[r].read, edit[r].new)
  <2> DEFINE row == G!Written(imports[edit[r].id], edit[r].read, edit[r].new)
  <2>1. /\ edit[r].pc = "import" /\ imports' = [imports EXCEPT ![edit[r].id] = row]
        /\ edit' = [edit EXCEPT ![r] = G!NoRequest]
    BY <1>2 DEF G!commit, G!Done
  <2> HIDE DEF row
  <2>2. edit[r].id = i /\ imports'[i] = row
    BY <2>1 DEF ImportsInv
  <2>3. edit'[r] = G!NoRequest
    BY <2>1 DEF ImportsInv, PlantInv
  <2> QED
    BY <2>1, <2>2, <2>3 DEF row
<1>3. CASE UNCHANGED imports
  BY <1>3
<1> QED
  BY <1>1, <1>2, <1>3
     DEF G!Next, G!set_mapping, G!validate, G!confirm, G!cancel, G!Abandon, G!Accept

LEMMA PredictionStep ==
    ASSUME ImportsInv, G!Next, NEW i \in Imports,
           imports'[i].status = "partially_completed",
           imports[i].status # "partially_completed"
    PROVE  imports[i].report.at < writes \/ G!Ambiguous \/ i \in overlapped
<1> SUFFICES ASSUME i \notin overlapped
             PROVE  imports[i].report.at < writes \/ G!Ambiguous
  OBVIOUS
<1>1. PICK r \in Requests :
         /\ edit[r].pc = "import" /\ edit[r].id = i
         /\ imports'[i] = G!Written(imports[i], edit[r].read, edit[r].new)
  BY OnlyCommits
<1> DEFINE q == edit[r]
<1>2. NewImport(q.read, q.new) /\ CleanImport(i) /\ DOMAIN imports[i] = ImportFields
  BY <1>1 DEF ImportsInv, ImportRequest, SoundImport
<1>3. imports'[i].status =
         LET status == IF q.new.status # q.read.status THEN q.new.status
                       ELSE imports[i].status
         IN  IF status = "validated" THEN "queued" ELSE status
  BY <1>1, <1>2, WrittenFields
<1>4. q.new.status = "partially_completed"
  BY <1>3
<1>5. q.read = imports[i] /\ (imports[i].report # G!NoReport =>
                                imports[i].report.mapping = imports[i].mapping)
  BY <1>1, <1>2 DEF CleanImport, WorksOn
<1> QED
  BY <1>2, <1>4, <1>5 DEF NewImport

\* An edit of the plant or of an import breaks a rule the services check only by what it
\* had read before another one committed (EditsAreOrdered).
THEOREM EditsOrder == G!Spec => EditsAreOrdered
<1>1. ImportsInv /\ [G!Next]_(G!vars)
      => [\A m \in Machines : G!Orphan(m)' /\ ~G!Orphan(m) =>
            \E r \in Requests :
               /\ edit[r].pc = "machine" /\ edit[r].id = m /\ edit'[r] = G!NoRequest
               /\ edit[r].new.factory # edit[r].read.factory]_<<G!plantVars, edit>>
  BY OrphansStep DEF ImportsInv, G!vars
<1>2. ImportsInv /\ [G!Next]_(G!vars)
      => [\A s \in Sensors :
            sensor'[s].low >= sensor'[s].high /\ sensor[s].low < sensor[s].high =>
            \E r \in Requests :
               /\ edit[r].pc = "sensor" /\ edit[r].id = s
               /\ <<sensor[s].low, sensor[s].high>> # <<edit[r].read.low, edit[r].read.high>>
         ]_<<G!plantVars, edit>>
  BY RangesStep DEF ImportsInv, G!vars
<1>3. ImportsInv /\ [G!Next]_(G!vars)
      => [\A i \in Imports :
            /\ imports'[i].status = "partially_completed"
            /\ imports[i].status # "partially_completed"
            => imports[i].report.at < writes \/ G!Ambiguous \/ i \in overlapped]_(G!vars)
  BY PredictionStep
<1>4. ASSUME ImportsInv, G!Next, NEW i \in Imports,
             imports[i].status \in Ended, imports'[i] # imports[i]
      PROVE  \E r \in Requests :
                /\ edit[r].pc = "import" /\ edit[r].id = i /\ edit'[r] = G!NoRequest
                /\ edit[r].read.status \notin G!Finished
  <2>1. PICK r \in Requests :
           edit[r].pc = "import" /\ edit[r].id = i /\ edit'[r] = G!NoRequest
    BY <1>4, OnlyCommits DEF Ended
  <2>2. edit[r].read.status \notin Ended
    BY <2>1, <1>4 DEF ImportsInv, ImportRequest
  <2> QED
    BY <2>1, <2>2 DEF Ended, G!Finished
<1>5. ImportsInv /\ [G!Next]_(G!vars)
      => [\A i \in Imports :
            imports[i].status \in G!Finished /\ imports'[i] # imports[i] =>
            \E r \in Requests :
               /\ edit[r].pc = "import" /\ edit[r].id = i /\ edit'[r] = G!NoRequest
               /\ edit[r].read.status \notin G!Finished]_(G!vars)
  BY <1>4 DEF Ended, G!Finished
<1> QED
  BY <1>1, <1>2, <1>3, <1>5, ImportsInvariance, PTL
     DEF G!Spec, EditsAreOrdered, G!OrphansComeLate, G!RangesAreOrdered,
         G!ValidationPredictsImport, G!FinishedStays


-----------------------------------------------------------------------------
(* The rate limit *)

\* A window in ticks.
Length == Window * Second

Counted(ps) == {p \in ps : p.counted}
Since(ps, t) == {p \in ps : p.counted /\ p.at >= t}
Before(ps, t) == {p \in ps : p.counted /\ p.at < t}
At(ps, t) == {p \in ps : p.at = t}

PassesAreRecent ==
    /\ IsFiniteSet(passes)
    /\ \A p \in passes :
         /\ p.at \in Nat /\ p.at <= now /\ now < p.at + Length /\ p.nth \in Nat
         /\ p.at = now => p.nth < Cardinality(At(passes, now))
         /\ policy = "mutation" => p.counted

BucketIsTyped ==
    /\ DOMAIN bucket = {"count", "since", "expires"}
    /\ bucket.count \in Nat /\ bucket.since \in Nat /\ bucket.expires \in Nat
    /\ bucket.count > 0 => /\ bucket.since <= now /\ now < bucket.expires
                           /\ bucket.expires = bucket.since + Length

\* While there is no key nothing that was counted happened in this tick, and what was
\* counted belongs to the window before; with a key, what was counted since its window
\* began is in its count.
CountsAreBounded ==
    /\ bucket.count = 0 => /\ \A p \in Counted(passes) : p.at < now
                           /\ Cardinality(Counted(passes)) <= Limit
    /\ bucket.count > 0 => /\ Cardinality(Since(passes, bucket.since)) <= bucket.count
                           /\ Cardinality(Since(passes, bucket.since)) <= Limit
                           /\ Cardinality(Before(passes, bucket.since)) <= Limit

RefusalIsPast ==
    /\ refused.at \in Nat /\ refused.at <= now
    /\ bucket.count = 0 => refused.at < now

LimitInv ==
    /\ now \in Nat
    /\ PassesAreRecent /\ BucketIsTyped /\ CountsAreBounded /\ RefusalIsPast
    /\ R!RetryAfterIsEnough

LEMMA LimitCardinality == \A S : R!Cardinality(S) = Cardinality(S)
  BY DEF R!Cardinality, Cardinality

LEMMA LengthIsPositive == Length \in Nat /\ Length > 0
<1>1. \A a, b \in Nat \ {0} : a * b \in Nat /\ a * b > 0
  OBVIOUS
<1> QED
  BY <1>1, LimitAssumption DEF Length

LEMMA Subsets ==
    ASSUME NEW ps, IsFiniteSet(ps), NEW t
    PROVE  /\ IsFiniteSet(Counted(ps)) /\ IsFiniteSet(Since(ps, t)) /\ IsFiniteSet(Before(ps, t))
           /\ IsFiniteSet(At(ps, t))
           /\ Cardinality(Counted(ps)) \in Nat /\ Cardinality(Since(ps, t)) \in Nat
           /\ Cardinality(Before(ps, t)) \in Nat /\ Cardinality(At(ps, t)) \in Nat
<1>1. /\ Counted(ps) \subseteq ps /\ Since(ps, t) \subseteq ps /\ Before(ps, t) \subseteq ps
      /\ At(ps, t) \subseteq ps
  BY DEF Counted, Since, Before, At
<1> QED
  BY <1>1, FS_Subset, FS_CardinalityType

\* What is counted was before the window or is in it.
LEMMA CountedSplits ==
    ASSUME NEW ps, IsFiniteSet(ps), \A p \in ps : p.at \in Nat, NEW t \in Nat
    PROVE  Cardinality(Counted(ps)) = Cardinality(Since(ps, t)) + Cardinality(Before(ps, t))
<1>1. Counted(ps) = Since(ps, t) \cup Before(ps, t) /\ Since(ps, t) \cap Before(ps, t) = {}
  BY DEF Counted, Since, Before
<1>2. Cardinality(Since(ps, t) \cup Before(ps, t)) =
        Cardinality(Since(ps, t)) + Cardinality(Before(ps, t))
          - Cardinality(Since(ps, t) \cap Before(ps, t))
  BY Subsets, FS_Union
<1>3. Cardinality(Since(ps, t) \cap Before(ps, t)) = 0
  BY <1>1, FS_EmptySet
<1>4. Cardinality(Since(ps, t)) \in Nat /\ Cardinality(Before(ps, t)) \in Nat
  BY Subsets
<1> QED
  BY <1>1, <1>2, <1>3, <1>4

\* The quotient is rounded down.
LEMMA Quotient ==
    ASSUME NEW n \in Nat, NEW d \in Nat, d > 0
    PROVE  n \div d \in Nat /\ n < (n \div d) * d + d
  OBVIOUS

LEMMA Larger == ASSUME NEW a \in Nat, NEW b \in Nat, NEW s \in Nat, a <= b PROVE a * s <= b * s
  OBVIOUS

LEMMA RetryIsEnough ==
    ASSUME NEW key, key.expires \in Nat, now \in Nat, now < key.expires,
           key.expires <= now + Length
    PROVE  2 * key.expires <= 2 * (now + R!retry_after(key) * Second) + Second
<1> DEFINE x == key.expires - now
           t == R!ttl(key)
           m == IF t < Window THEN t ELSE Window
           w == R!retry_after(key)
<1>1. x \in Nat /\ key.expires = now + x /\ x <= Length
  BY LengthIsPositive
<1>2. t \in Nat /\ 2 * x + Second < t * (2 * Second) + 2 * Second
  <2>1. 2 * x + Second \in Nat /\ 2 * Second \in Nat /\ 2 * Second > 0
    BY <1>1, LimitAssumption
  <2>2. t = (2 * x + Second) \div (2 * Second)
    BY DEF R!ttl
  <2> QED
    BY <2>1, <2>2, Quotient
<1> HIDE DEF t
<1>3. m \in Nat /\ w \in Nat /\ m <= w
  <2>1. w = R!AtLeast(1, R!AtMost(R!AtMost(t, Window), 3600))
    BY DEF R!retry_after, t
  <2> HIDE DEF w
  <2> QED
    BY <1>2, <2>1, LimitAssumption DEF R!AtLeast, R!AtMost
<1> HIDE DEF w, x
<1>4. m * Second <= w * Second /\ w * Second \in Nat /\ m * Second \in Nat
  BY <1>3, LimitAssumption, Larger
<1>5. 2 * x <= 2 * (m * Second) + Second
  <2>1. CASE t < Window
    <3>1. m = t /\ t * (2 * Second) = 2 * (t * Second) /\ t * Second \in Nat
      BY <1>2, <2>1, LimitAssumption
    <3> QED
      BY <1>1, <1>2, <3>1, LimitAssumption
  <2>2. CASE ~(t < Window)
    <3>1. m * Second = Length
      BY <2>2 DEF Length
    <3> QED
      BY <1>1, <3>1, LimitAssumption, LengthIsPositive
  <2> QED
    BY <2>1, <2>2
<1> HIDE DEF m
<1>6. 2 * key.expires <= 2 * (now + w * Second) + Second
  BY <1>1, <1>4, <1>5, LimitAssumption
<1> QED
  BY <1>6 DEF w

\* A request that passes: it is another one than those before.
LEMMA OneMore ==
    ASSUME LimitInv, NEW counted \in BOOLEAN, R!Pass(counted), UNCHANGED <<policy, now>>,
           policy = "mutation" => counted
    PROVE  /\ PassesAreRecent' /\ UNCHANGED refused
           /\ \E p : /\ p \notin passes /\ passes' = passes \cup {p}
                     /\ p.at = now /\ p.counted = counted
<1> DEFINE nth == Cardinality(At(passes, now))
           pass == [at |-> now, nth |-> nth, counted |-> counted]
<1>1. passes' = passes \cup {pass} /\ UNCHANGED refused
  BY LimitCardinality DEF R!Pass, At
<1>2. IsFiniteSet(passes) /\ nth \in Nat /\ IsFiniteSet(At(passes, now)) /\ now \in Nat
  BY Subsets DEF LimitInv, PassesAreRecent
<1> HIDE DEF nth
<1>3. pass.at = now /\ pass.nth = nth /\ pass.counted = counted
  OBVIOUS
<1> HIDE DEF pass
<1>4. pass \notin passes
  <2>1. \A p \in passes : p.at = now => p.nth # nth
    BY <1>2 DEF LimitInv, PassesAreRecent, nth
  <2> QED
    BY <1>3, <2>1
<1>5. At(passes', now) = At(passes, now) \cup {pass} /\ pass \notin At(passes, now)
  BY <1>1, <1>3, <1>4 DEF At
<1>6. Cardinality(At(passes', now)) = nth + 1
  BY <1>2, <1>5, FS_AddElement DEF nth
<1>7. IsFiniteSet(passes')
  BY <1>1, <1>2, FS_AddElement
<1>8. ASSUME NEW p \in passes'
      PROVE  /\ p.at \in Nat /\ p.at <= now /\ now < p.at + Length /\ p.nth \in Nat
             /\ p.at = now => p.nth < Cardinality(At(passes', now))
             /\ policy = "mutation" => p.counted
  <2>1. CASE p = pass
    BY <1>2, <1>3, <1>6, <2>1, LengthIsPositive
  <2>2. CASE p \in passes
    <3>1. /\ p.at \in Nat /\ p.at <= now /\ now < p.at + Length /\ p.nth \in Nat
          /\ p.at = now => p.nth < nth
          /\ policy = "mutation" => p.counted
      BY <2>2 DEF LimitInv, PassesAreRecent, nth
    <3> QED
      BY <1>2, <1>6, <3>1
  <2> QED
    BY <1>1, <2>1, <2>2
<1>9. PassesAreRecent'
  BY <1>7, <1>8 DEF PassesAreRecent
<1> QED
  BY <1>1, <1>3, <1>4, <1>9

LEMMA IncrementIs ==
    ASSUME LimitInv
    PROVE  LET b == R!increment
           IN /\ DOMAIN b = {"count", "since", "expires"}
              /\ b.count = bucket.count + 1 /\ b.count \in Nat /\ b.count > 0
              /\ b.since = (IF bucket.count = 0 THEN now ELSE bucket.since)
              /\ b.expires = b.since + Length
              /\ b.since \in Nat /\ b.expires \in Nat /\ b.since <= now
              /\ now < b.expires /\ b.expires <= now + Length
<1> DEFINE b == R!increment
<1>1. /\ bucket.count \in Nat /\ bucket.since \in Nat /\ now \in Nat
      /\ DOMAIN bucket = {"count", "since", "expires"}
      /\ bucket.count > 0 => /\ bucket.since <= now /\ now < bucket.expires
                             /\ bucket.expires = bucket.since + Length
  BY DEF LimitInv, BucketIsTyped
<1>2. /\ DOMAIN b = {"count", "since", "expires"} /\ b.count = bucket.count + 1
      /\ b.since = (IF bucket.count = 0 THEN now ELSE bucket.since)
      /\ b.expires = (IF bucket.count = 0 THEN now + Length ELSE bucket.expires)
  <2>1. CASE bucket.count = 0
    BY <2>1 DEF R!increment, Length
  <2>2. CASE bucket.count # 0
    BY <1>1, <2>2 DEF R!increment
  <2> QED
    BY <2>1, <2>2
<1> HIDE DEF b
<1>3. b.count \in Nat /\ b.count > 0 /\ (bucket.count # 0 => bucket.count > 0)
  BY <1>1, <1>2
<1>4. /\ b.expires = b.since + Length
      /\ b.since \in Nat /\ b.expires \in Nat /\ b.since <= now
      /\ now < b.expires /\ b.expires <= now + Length
  BY <1>1, <1>2, <1>3, LengthIsPositive
<1> QED
  BY <1>2, <1>3, <1>4 DEF b

\* A request is counted by the store, and then passes as one that was counted, as one that
\* was not, or not at all.
LEMMA CountKeeps ==
    ASSUME LimitInv, bucket' = R!increment, UNCHANGED <<policy, now>>,
           \/ R!Allows(bucket') /\ R!Pass(TRUE)
           \/ ~R!Allows(bucket') /\ R!Refuse(R!retry_after(bucket'))
           \/ policy = "auth" /\ R!Pass(FALSE)
           \/ UNCHANGED <<passes, refused>>
    PROVE  LimitInv'
<1> DEFINE b == bucket'
<1>1. /\ DOMAIN b = {"count", "since", "expires"}
      /\ b.count = bucket.count + 1 /\ b.count \in Nat /\ b.count > 0
      /\ b.since = (IF bucket.count = 0 THEN now ELSE bucket.since)
      /\ b.expires = b.since + Length
      /\ b.since \in Nat /\ b.expires \in Nat /\ b.since <= now
      /\ now < b.expires /\ b.expires <= now + Length
  BY IncrementIs
<1>2. /\ now \in Nat /\ refused.at \in Nat /\ refused.at <= now /\ bucket.count \in Nat
      /\ IsFiniteSet(passes) /\ \A p \in passes : p.at \in Nat
  BY DEF LimitInv, RefusalIsPast, BucketIsTyped, PassesAreRecent
<1>3. BucketIsTyped'
  BY <1>1 DEF BucketIsTyped
<1>4. /\ Cardinality(Since(passes, b.since)) <= bucket.count
      /\ Cardinality(Since(passes, b.since)) <= Limit
      /\ Cardinality(Before(passes, b.since)) <= Limit
  <2>1. CASE bucket.count = 0
    <3>1. Since(passes, now) = {} /\ Before(passes, now) = Counted(passes)
      BY <1>2, <2>1 DEF LimitInv, CountsAreBounded, Since, Before, Counted
    <3>2. Cardinality(Counted(passes)) <= Limit
      BY <2>1 DEF LimitInv, CountsAreBounded
    <3>3. Cardinality(Since(passes, now)) = 0
      BY <3>1, FS_EmptySet
    <3>4. b.since = now
      BY <1>1, <2>1
    <3> HIDE DEF b
    <3> QED
      BY <2>1, <3>1, <3>2, <3>3, <3>4, LimitAssumption
  <2>2. CASE bucket.count > 0
    BY <1>1, <2>2 DEF LimitInv, CountsAreBounded
  <2> QED
    BY <1>2, <2>1, <2>2
<1>5. PassesAreRecent' /\ CountsAreBounded'
  <2>1. CASE passes' = passes
    <3>1. PassesAreRecent'
      BY <2>1 DEF LimitInv, PassesAreRecent, At
    <3>2. Cardinality(Since(passes, b.since)) \in Nat
      BY <1>2, Subsets
    <3> QED
      BY <1>1, <1>2, <1>4, <2>1, <3>1, <3>2 DEF CountsAreBounded
  <2>2. CASE R!Allows(bucket') /\ R!Pass(TRUE)
    <3>1. PICK p : /\ p \notin passes /\ passes' = passes \cup {p}
                   /\ p.at = now /\ p.counted = TRUE
      BY <2>2, OneMore
    <3>2. Since(passes', b.since) = Since(passes, b.since) \cup {p}
          /\ p \notin Since(passes, b.since)
      BY <1>1, <1>2, <3>1 DEF Since
    <3>3. Before(passes', b.since) = Before(passes, b.since)
      BY <1>1, <1>2, <3>1 DEF Before
    <3>4. Cardinality(Since(passes', b.since)) = Cardinality(Since(passes, b.since)) + 1
          /\ Cardinality(Since(passes, b.since)) \in Nat
      BY <1>2, <3>2, Subsets, FS_AddElement
    <3>5. b.count <= Limit
      BY <2>2 DEF R!Allows
    <3>6. Cardinality(Since(passes', b.since)) <= b.count
          /\ Cardinality(Since(passes', b.since)) <= Limit
      BY <1>1, <1>2, <1>4, <3>4, <3>5, LimitAssumption
    <3>7. CountsAreBounded'
      BY <1>1, <1>4, <3>3, <3>6 DEF CountsAreBounded
    <3> QED
      BY <2>2, <3>7, OneMore
  <2>3. CASE policy = "auth" /\ R!Pass(FALSE)
    <3>1. PICK p : /\ p \notin passes /\ passes' = passes \cup {p}
                   /\ p.at = now /\ p.counted = FALSE
      BY <2>3, OneMore
    <3>2. Since(passes', b.since) = Since(passes, b.since)
          /\ Before(passes', b.since) = Before(passes, b.since)
      BY <3>1 DEF Since, Before
    <3>3. Cardinality(Since(passes, b.since)) \in Nat
      BY <1>2, Subsets
    <3>4. CountsAreBounded'
      BY <1>1, <1>2, <1>4, <3>2, <3>3 DEF CountsAreBounded
    <3> QED
      BY <2>3, <3>4, OneMore
  <2> QED
    BY <2>1, <2>2, <2>3 DEF R!Refuse
<1>6. RefusalIsPast' /\ R!RetryAfterIsEnough'
  <2>1. CASE refused' = refused
    <3>1. RefusalIsPast'
      BY <1>1, <1>2, <2>1 DEF RefusalIsPast
    <3>2. ASSUME b.since <= refused.at
          PROVE  2 * b.expires <= 2 * (refused.at + refused.wait * Second) + Second
      <4>1. CASE bucket.count = 0
        BY <1>1, <1>2, <3>2, <4>1 DEF LimitInv, RefusalIsPast
      <4>2. CASE bucket.count > 0
        <5>1. b.since = bucket.since /\ b.expires = bucket.expires
          BY <1>1, <4>2 DEF LimitInv, BucketIsTyped
        <5> QED
          BY <3>2, <4>2, <5>1 DEF LimitInv, R!RetryAfterIsEnough
      <4> QED
        BY <1>2, <4>1, <4>2
    <3> QED
      BY <2>1, <3>1, <3>2 DEF R!RetryAfterIsEnough
  <2>2. CASE R!Refuse(R!retry_after(bucket'))
    <3>1. refused'.at = now /\ refused'.wait = R!retry_after(bucket')
      BY <2>2 DEF R!Refuse
    <3>2. 2 * b.expires <= 2 * (now + R!retry_after(b) * Second) + Second
      BY <1>1, <1>2, RetryIsEnough
    <3>3. RefusalIsPast'
      BY <1>1, <1>2, <3>1 DEF RefusalIsPast
    <3>4. R!RetryAfterIsEnough'
      BY <3>1, <3>2 DEF R!RetryAfterIsEnough
    <3> QED
      BY <3>3, <3>4
  <2> QED
    BY <2>1, <2>2 DEF R!Pass
<1> QED
  BY <1>2, <1>3, <1>5, <1>6 DEF LimitInv

LEMMA LimitInit == ASSUME R!Init PROVE LimitInv
<1>1. /\ now = 1 /\ passes = {} /\ bucket = [count |-> 0, since |-> 0, expires |-> 0]
      /\ refused = [at |-> 0, wait |-> 0]
  BY DEF R!Init, R!NoBucket, R!NoRefusal
<1>2. PassesAreRecent
  BY <1>1, FS_EmptySet DEF PassesAreRecent
<1>3. BucketIsTyped
  BY <1>1 DEF BucketIsTyped
<1>4. CountsAreBounded
  <2>1. Counted(passes) = {} /\ Cardinality(Counted(passes)) = 0
    BY <1>1, FS_EmptySet DEF Counted
  <2> QED
    BY <1>1, <2>1, LimitAssumption DEF CountsAreBounded
<1>5. RefusalIsPast /\ R!RetryAfterIsEnough
  BY <1>1 DEF RefusalIsPast, R!RetryAfterIsEnough
<1> QED
  BY <1>1, <1>2, <1>3, <1>4, <1>5 DEF LimitInv

LEMMA TimePasses == ASSUME LimitInv, R!Tick PROVE LimitInv'
<1>1. /\ now' = now + 1 /\ UNCHANGED <<policy, refused>>
      /\ bucket' = IF bucket.count > 0 /\ now' >= bucket.expires THEN R!NoBucket ELSE bucket
      /\ passes' = {p \in passes : now' - p.at < Length}
  BY DEF R!Tick, Length
<1>2. /\ now \in Nat /\ refused.at \in Nat /\ refused.at <= now
      /\ IsFiniteSet(passes) /\ \A p \in passes : p.at \in Nat /\ p.at <= now
      /\ bucket.count \in Nat /\ bucket.since \in Nat /\ bucket.expires \in Nat
  BY DEF LimitInv, RefusalIsPast, BucketIsTyped, PassesAreRecent
<1>3. passes' \subseteq passes /\ IsFiniteSet(passes')
  BY <1>1, <1>2, FS_Subset
<1>4. PassesAreRecent'
  <2>1. ASSUME NEW p \in passes'
        PROVE  /\ p.at \in Nat /\ p.at <= now' /\ now' < p.at + Length /\ p.nth \in Nat
               /\ p.at # now' /\ (policy = "mutation" => p.counted)
    <3>1. now' - p.at < Length
      BY <1>1
    <3>2. p \in passes /\ p.nth \in Nat /\ (policy = "mutation" => p.counted)
      BY <1>3 DEF LimitInv, PassesAreRecent
    <3> QED
      BY <1>1, <1>2, <3>1, <3>2, LengthIsPositive
  <2> QED
    BY <1>1, <1>3, <2>1 DEF PassesAreRecent
<1>5. CASE bucket.count > 0 /\ now' >= bucket.expires
  <2>1. bucket' = [count |-> 0, since |-> 0, expires |-> 0]
    BY <1>1, <1>5 DEF R!NoBucket
  <2>2. bucket.expires = bucket.since + Length
    BY <1>5 DEF LimitInv, BucketIsTyped
  <2>3. \A p \in Counted(passes') : p \in Since(passes, bucket.since) /\ p.at < now'
    <3>1. SUFFICES ASSUME NEW p \in Counted(passes')
                   PROVE  p \in Since(passes, bucket.since) /\ p.at < now'
      OBVIOUS
    <3>2. p \in passes' /\ p \in passes /\ p.counted /\ now' - p.at < Length
      BY <1>1 DEF Counted
    <3>3. p.at >= bucket.since /\ p.at < now'
      BY <1>1, <1>2, <1>5, <2>2, <3>2, LengthIsPositive
    <3> QED
      BY <3>2, <3>3 DEF Since
  <2>4. Cardinality(Counted(passes')) <= Limit
    <3>1. Counted(passes') \subseteq Since(passes, bucket.since)
      BY <2>3
    <3>2. IsFiniteSet(Since(passes, bucket.since))
      BY <1>2, Subsets
    <3>3. /\ Cardinality(Counted(passes')) <= Cardinality(Since(passes, bucket.since))
          /\ Cardinality(Counted(passes')) \in Nat
          /\ Cardinality(Since(passes, bucket.since)) \in Nat
      BY <3>1, <3>2, FS_Subset, FS_CardinalityType
    <3>4. Cardinality(Since(passes, bucket.since)) <= Limit
      BY <1>5 DEF LimitInv, CountsAreBounded
    <3> QED
      BY <3>3, <3>4, LimitAssumption
  <2>5. BucketIsTyped' /\ CountsAreBounded' /\ R!RetryAfterIsEnough'
    BY <2>1, <2>3, <2>4 DEF BucketIsTyped, CountsAreBounded, R!RetryAfterIsEnough
  <2>6. RefusalIsPast'
    BY <1>1, <1>2 DEF RefusalIsPast
  <2> QED
    BY <1>1, <1>2, <1>4, <2>5, <2>6 DEF LimitInv
<1>6. CASE ~(bucket.count > 0 /\ now' >= bucket.expires)
  <2>1. bucket' = bucket
    BY <1>1, <1>6
  <2>2. BucketIsTyped'
    BY <1>1, <1>2, <1>6, <2>1 DEF LimitInv, BucketIsTyped
  <2>3. /\ Counted(passes') \subseteq Counted(passes)
        /\ Since(passes', bucket.since) \subseteq Since(passes, bucket.since)
        /\ Before(passes', bucket.since) \subseteq Before(passes, bucket.since)
    BY <1>3 DEF Counted, Since, Before
  <2>4. /\ Cardinality(Counted(passes')) <= Cardinality(Counted(passes))
        /\ Cardinality(Since(passes', bucket.since)) <= Cardinality(Since(passes, bucket.since))
        /\ Cardinality(Before(passes', bucket.since)) <= Cardinality(Before(passes, bucket.since))
    BY <1>2, <2>3, Subsets, FS_Subset
  <2>5. /\ Cardinality(Counted(passes')) \in Nat /\ Cardinality(Counted(passes)) \in Nat
        /\ Cardinality(Since(passes', bucket.since)) \in Nat
        /\ Cardinality(Since(passes, bucket.since)) \in Nat
        /\ Cardinality(Before(passes', bucket.since)) \in Nat
        /\ Cardinality(Before(passes, bucket.since)) \in Nat
    BY <1>2, <1>3, Subsets
  <2>6. CountsAreBounded'
    <3>1. CASE bucket.count = 0
      <4>1. Cardinality(Counted(passes')) <= Limit
        BY <2>4, <2>5, <3>1, LimitAssumption DEF LimitInv, CountsAreBounded
      <4>2. \A p \in Counted(passes') : p.at < now'
        BY <1>1, <1>2, <2>3 DEF Counted
      <4> QED
        BY <2>1, <3>1, <4>1, <4>2 DEF CountsAreBounded
    <3>2. CASE bucket.count > 0
      <4>1. /\ Cardinality(Since(passes, bucket.since)) <= bucket.count
            /\ Cardinality(Since(passes, bucket.since)) <= Limit
            /\ Cardinality(Before(passes, bucket.since)) <= Limit
        BY <3>2 DEF LimitInv, CountsAreBounded
      <4>2. /\ Cardinality(Since(passes', bucket.since)) <= bucket.count
            /\ Cardinality(Since(passes', bucket.since)) <= Limit
            /\ Cardinality(Before(passes', bucket.since)) <= Limit
        BY <1>2, <2>4, <2>5, <4>1, LimitAssumption
      <4> QED
        BY <2>1, <3>2, <4>2 DEF CountsAreBounded
    <3> QED
      BY <1>2, <3>1, <3>2
  <2>7. RefusalIsPast' /\ R!RetryAfterIsEnough'
    BY <1>1, <1>2, <2>1 DEF LimitInv, RefusalIsPast, R!RetryAfterIsEnough
  <2> QED
    BY <1>1, <1>2, <1>4, <2>2, <2>6, <2>7 DEF LimitInv
<1> QED
  BY <1>5, <1>6

LEMMA StoreFails == ASSUME LimitInv, R!enforce_without_store PROVE LimitInv'
<1>1. /\ UNCHANGED <<policy, now>> /\ bucket' \in {bucket, R!increment}
      /\ (policy = "auth" /\ R!Pass(FALSE)) \/ UNCHANGED <<passes, refused>>
  BY DEF R!enforce_without_store
<1>2. CASE bucket' = R!increment
  BY <1>1, <1>2, CountKeeps
<1>3. CASE bucket' = bucket
  <2>1. BucketIsTyped' /\ now' \in Nat
    BY <1>1, <1>3 DEF LimitInv, BucketIsTyped
  <2>2. CASE UNCHANGED <<passes, refused>>
    <3>1. PassesAreRecent'
      BY <1>1, <2>2 DEF LimitInv, PassesAreRecent, At
    <3> QED
      BY <1>1, <1>3, <2>1, <2>2, <3>1 DEF LimitInv, CountsAreBounded, RefusalIsPast,
         R!RetryAfterIsEnough
  <2>3. CASE policy = "auth" /\ R!Pass(FALSE)
    <3>1. PassesAreRecent' /\ UNCHANGED refused
      BY <1>1, <2>3, OneMore
    <3>2. PICK p : passes' = passes \cup {p} /\ p.counted = FALSE
      BY <1>1, <2>3, OneMore
    <3>3. \A t : /\ Counted(passes') = Counted(passes) /\ Since(passes', t) = Since(passes, t)
                 /\ Before(passes', t) = Before(passes, t)
      BY <3>2 DEF Counted, Since, Before
    <3>4. CountsAreBounded'
      BY <1>1, <1>3, <3>3 DEF LimitInv, CountsAreBounded
    <3>5. RefusalIsPast' /\ R!RetryAfterIsEnough'
      BY <1>1, <1>3, <3>1 DEF LimitInv, RefusalIsPast, R!RetryAfterIsEnough
    <3> QED
      BY <2>1, <3>1, <3>4, <3>5 DEF LimitInv
  <2> QED
    BY <1>1, <2>2, <2>3
<1> QED
  BY <1>1, <1>2, <1>3

\* However the store rounds, expires and fails: in any interval as long as a window at most
\* twice the limit pass, and the time a client is told to wait is enough
\* (dependencies/rate_limit.py).
THEOREM LimitSoundness == R!Spec => []LimitIsSound
<1>1. R!Init => LimitInv
  BY LimitInit
<1>2. LimitInv /\ [R!Next]_(R!vars) => LimitInv'
  <2> SUFFICES ASSUME LimitInv, [R!Next]_(R!vars) PROVE LimitInv'
    OBVIOUS
  <2>1. CASE R!Tick
    BY <2>1, TimePasses
  <2>2. CASE R!enforce_rate_limit
    <3>1. /\ bucket' = R!increment /\ UNCHANGED <<policy, now>>
          /\ \/ R!Allows(bucket') /\ R!Pass(TRUE)
             \/ ~R!Allows(bucket') /\ R!Refuse(R!retry_after(bucket'))
      BY <2>2 DEF R!enforce_rate_limit
    <3> QED
      BY <3>1, CountKeeps
  <2>3. CASE R!enforce_without_store
    BY <2>3, StoreFails
  <2>4. CASE UNCHANGED R!vars
    <3>1. UNCHANGED <<policy, now, bucket, passes, refused>>
      BY <2>4 DEF R!vars
    <3> QED
      BY <3>1 DEF LimitInv, PassesAreRecent, At, BucketIsTyped, CountsAreBounded, Counted, Since,
         Before, RefusalIsPast, R!RetryAfterIsEnough
  <2> QED
    BY <2>1, <2>2, <2>3, <2>4 DEF R!Next
<1>3. LimitInv => LimitIsSound
  <2> SUFFICES ASSUME LimitInv PROVE R!IntervalIsBounded /\ R!RetryAfterIsEnough
    BY DEF LimitIsSound
  <2>1. {p \in passes : p.counted \/ policy = "mutation"} = Counted(passes)
    BY DEF LimitInv, PassesAreRecent, Counted
  <2>2. Cardinality(Counted(passes)) <= 2 * Limit
    <3>1. /\ IsFiniteSet(passes) /\ bucket.since \in Nat /\ bucket.count \in Nat
          /\ \A p \in passes : p.at \in Nat
      BY DEF LimitInv, BucketIsTyped, PassesAreRecent
    <3>2. Cardinality(Counted(passes)) \in Nat
          /\ Cardinality(Since(passes, bucket.since)) \in Nat
          /\ Cardinality(Before(passes, bucket.since)) \in Nat
      BY <3>1, Subsets
    <3>3. CASE bucket.count = 0
      <4>1. Cardinality(Counted(passes)) <= Limit
        BY <3>3 DEF LimitInv, CountsAreBounded
      <4> QED
        BY <3>2, <4>1, LimitAssumption
    <3>4. CASE bucket.count > 0
      <4>1. Cardinality(Since(passes, bucket.since)) <= Limit
            /\ Cardinality(Before(passes, bucket.since)) <= Limit
        BY <3>4 DEF LimitInv, CountsAreBounded
      <4>2. Cardinality(Counted(passes)) =
              Cardinality(Since(passes, bucket.since)) + Cardinality(Before(passes, bucket.since))
        BY <3>1, CountedSplits
      <4> QED
        BY <3>2, <4>1, <4>2, LimitAssumption
    <3> QED
      BY <3>1, <3>3, <3>4
  <2>3. R!IntervalIsBounded
    BY <2>1, <2>2, LimitCardinality DEF R!IntervalIsBounded
  <2> QED
    BY <2>3 DEF LimitInv
<1> QED
  BY <1>1, <1>2, <1>3, PTL DEF R!Spec

-----------------------------------------------------------------------------
(* Uploads and readings, for any keys and files. *)

LEMMA SameFiniteSets ==
    /\ \A X : U!Cardinality(X) = Cardinality(X)
    /\ \A X : U!IsFiniteSet(X) <=> IsFiniteSet(X)
BY DEF U!Cardinality, Cardinality, U!IsFiniteSet, IsFiniteSet

LEMMA JoinedCount ==
    ASSUME NEW X, NEW Y, IsFiniteSet(X), IsFiniteSet(Y), X \cap Y = {}
    PROVE  IsFiniteSet(X \cup Y) /\ Cardinality(X \cup Y) = Cardinality(X) + Cardinality(Y)
<1>1. Cardinality(X \cap Y) = 0
  BY FS_EmptySet
<1>2. Cardinality(X) \in Nat /\ Cardinality(Y) \in Nat
  BY FS_CardinalityType
<1>3. /\ IsFiniteSet(X \cup Y)
      /\ Cardinality(X \cup Y) = Cardinality(X) + Cardinality(Y) - Cardinality(X \cap Y)
  BY FS_Union
<1> QED
  BY <1>1, <1>2, <1>3

IsImage(f, X, Y) == Y = {f[x] : x \in X}

\* What a function makes of a finite set is finite, and no larger.
LEMMA ImageIsFinite ==
    ASSUME NEW f, NEW X, NEW Y, IsFiniteSet(X), IsImage(f, X, Y)
    PROVE  IsFiniteSet(Y)
<1> DEFINE g == [x \in X |-> f[x]]
<1>1. g \in [X -> Y] /\ \A y \in Y : \E x \in X : g[x] = y
  BY DEF IsImage
<1>2. g \in Surjection(X, Y)
  BY <1>1 DEF Surjection
<1> QED
  BY <1>2, FS_Surjection DEF ExistsSurjection

\* Rows of a key and a job, of a job, and what rows are about.
Alike(rows, k, j) == {row \in rows : row.key = k /\ row.job = j}
OfJob(rows, j) == {row \in rows : row.job = j}
KeysOf(rows) == {row.key : row \in rows}

\* Rows number those of their key and job.
RowsAre(rows) ==
    /\ IsFiniteSet(rows)
    /\ \A row \in rows : /\ row.key \in UploadKeys /\ row.job \in Jobs
                         /\ row.nth \in Nat /\ row.nth < Cardinality(Alike(rows, row.key, row.job))

\* The row that comes next, and those of several keys.
NextRow(rows, k, j) == [key |-> k, job |-> j, nth |-> Cardinality(Alike(rows, k, j))]
NextRows(rows, keys, j) == {NextRow(rows, k, j) : k \in keys}
AddsRows(rows, after, keys, j) == after = rows \cup NextRows(rows, keys, j)

LEMMA AlikeAreFinite ==
    ASSUME NEW rows, IsFiniteSet(rows), NEW k, NEW j
    PROVE  /\ IsFiniteSet(Alike(rows, k, j)) /\ Cardinality(Alike(rows, k, j)) \in Nat
           /\ IsFiniteSet(OfJob(rows, j)) /\ Cardinality(OfJob(rows, j)) \in Nat
<1>1. Alike(rows, k, j) \in SUBSET rows /\ OfJob(rows, j) \in SUBSET rows
  BY DEF Alike, OfJob
<1> QED
  BY <1>1, FS_Subset, FS_CardinalityType

LEMMA NextRowsCount ==
    ASSUME NEW rows, NEW keys, IsFiniteSet(keys), NEW j
    PROVE  /\ IsFiniteSet(NextRows(rows, keys, j))
           /\ Cardinality(NextRows(rows, keys, j)) = Cardinality(keys)
<1> DEFINE next == [k \in keys |-> NextRow(rows, k, j)]
           new == NextRows(rows, keys, j)
<1>1. next \in Bijection(keys, new)
  <2>1. next \in [keys -> new]
    BY DEF NextRows
  <2>2. \A k, h \in keys : next[k] = next[h] => k = h
    BY DEF NextRow
  <2>3. \A row \in new : \E k \in keys : next[k] = row
    BY DEF NextRows
  <2> QED
    BY <2>1, <2>2, <2>3 DEF Bijection, Injection, Surjection, IsInjective
<1> QED
  BY <1>1, FS_Bijection DEF ExistsBijection

\* A row that comes next is not there yet.
LEMMA NextRowsAreNew ==
    ASSUME NEW rows, RowsAre(rows), NEW keys, NEW j
    PROVE  rows \cap NextRows(rows, keys, j) = {}
<1> SUFFICES ASSUME NEW k \in keys, NextRow(rows, k, j) \in rows PROVE FALSE
  BY DEF NextRows
<1> DEFINE row == NextRow(rows, k, j)
<1>1. row.key = k /\ row.job = j /\ row.nth = Cardinality(Alike(rows, k, j))
  BY DEF NextRow
<1> HIDE DEF row
<1>2. row \in rows
  BY DEF row
<1>3. row.nth \in Nat /\ row.nth < Cardinality(Alike(rows, row.key, row.job))
  BY <1>2 DEF RowsAre
<1> QED
  BY <1>1, <1>3

LEMMA RowsGrow ==
    ASSUME NEW rows, RowsAre(rows), NEW keys, IsFiniteSet(keys), NEW j,
           NEW after, AddsRows(rows, after, keys, j)
    PROVE  /\ IsFiniteSet(after)
           /\ Cardinality(after) = Cardinality(rows) + Cardinality(keys)
           /\ KeysOf(after) = KeysOf(rows) \cup keys
           /\ Cardinality(OfJob(after, j)) = Cardinality(OfJob(rows, j)) + Cardinality(keys)
           /\ \A i : i # j => OfJob(after, i) = OfJob(rows, i)
<1> DEFINE new == NextRows(rows, keys, j)
<1>1. IsFiniteSet(new) /\ Cardinality(new) = Cardinality(keys) /\ rows \cap new = {}
  BY NextRowsCount, NextRowsAreNew
<1>2. \A row \in new : row.job = j /\ row.key \in keys
  BY DEF NextRows, NextRow
<1>3. \A k \in keys : NextRow(rows, k, j) \in new /\ NextRow(rows, k, j).key = k
  BY DEF NextRows, NextRow
<1> HIDE DEF new
<1>4. after = rows \cup new
  BY DEF new, AddsRows
<1>5. IsFiniteSet(rows)
  BY DEF RowsAre
<1>6. IsFiniteSet(after) /\ Cardinality(after) = Cardinality(rows) + Cardinality(new)
  BY <1>1, <1>4, <1>5, JoinedCount
<1>7. KeysOf(after) = KeysOf(rows) \cup keys
  BY <1>2, <1>3, <1>4 DEF KeysOf
<1>8. OfJob(after, j) = OfJob(rows, j) \cup new
  BY <1>2, <1>4 DEF OfJob
<1>9. Cardinality(OfJob(after, j)) = Cardinality(OfJob(rows, j)) + Cardinality(new)
  <2>1. IsFiniteSet(OfJob(rows, j))
    BY <1>5, AlikeAreFinite
  <2>2. OfJob(rows, j) \cap new = {}
    BY <1>1 DEF OfJob
  <2> QED
    BY <1>1, <1>8, <2>1, <2>2, JoinedCount
<1>10. \A i : i # j => OfJob(after, i) = OfJob(rows, i)
  BY <1>2, <1>4 DEF OfJob
<1> QED
  BY <1>1, <1>6, <1>7, <1>9, <1>10

LEMMA RowsStayRows ==
    ASSUME NEW rows, RowsAre(rows), NEW keys, IsFiniteSet(keys), keys \subseteq UploadKeys,
           NEW j \in Jobs, NEW after, AddsRows(rows, after, keys, j)
    PROVE  RowsAre(after)
<1>1. IsFiniteSet(after) /\ IsFiniteSet(rows)
  BY RowsGrow DEF RowsAre
<1>2. ASSUME NEW row \in after
      PROVE  /\ row.key \in UploadKeys /\ row.job \in Jobs /\ row.nth \in Nat
             /\ row.nth < Cardinality(Alike(after, row.key, row.job))
  <2> DEFINE k == row.key
             i == row.job
             before == Alike(rows, k, i)
             then == Alike(after, k, i)
  <2>1. before \in SUBSET then
    BY DEF Alike, AddsRows
  <2>2. /\ IsFiniteSet(then) /\ Cardinality(before) <= Cardinality(then)
        /\ Cardinality(before) \in Nat /\ Cardinality(then) \in Nat
    BY <1>1, <2>1, AlikeAreFinite, FS_Subset
  <2>3. CASE row \in rows
    <3>1. row.key \in UploadKeys /\ row.job \in Jobs /\ row.nth \in Nat
          /\ row.nth < Cardinality(before)
      BY <2>3 DEF RowsAre
    <3> HIDE DEF before, then
    <3>2. row.nth < Cardinality(then)
      BY <2>2, <3>1
    <3> QED
      BY <3>1, <3>2 DEF then
  <2>4. CASE row \notin rows
    <3>1. PICK h \in keys : row = NextRow(rows, h, j)
      BY <2>4 DEF NextRows, AddsRows
    <3>2. row.key = h /\ row.job = j /\ row.nth = Cardinality(before)
      BY <3>1 DEF NextRow
    <3>3. row \in then /\ row \notin before
      BY <2>4 DEF Alike
    <3> HIDE DEF before, then
    <3>4. Cardinality(before) # Cardinality(then)
      BY <2>1, <2>2, <3>3, FS_Subset
    <3>5. row.nth \in Nat /\ row.nth < Cardinality(then)
      BY <2>2, <3>2, <3>4
    <3> QED
      BY <3>2, <3>5 DEF then
  <2> QED
    BY <2>3, <2>4
<1> QED
  BY <1>1, <1>2 DEF RowsAre

-----------------------------------------------------------------------------
(* Uploads: the inductive invariant *)

JobIs(x) ==
    /\ DOMAIN x = {"status", "total", "valid", "invalid"}
    /\ x.status \in {"absent", "PENDING", "PROCESSING", "COMPLETED", "FAILED"}
    /\ x.valid \in Nat

UploadRequest(q) ==
    /\ q.pc \in {"free", "start", "chunks", "reading"}
    /\ q.pc = "free" => q = U!NoRequest
    /\ q.pc = "start" => /\ q.job \in Jobs /\ JobIs(q.read)
                         /\ q.file \in Seq(Seq(UploadKeys \cup {Bad}))
    /\ q.pc = "chunks" => /\ DOMAIN q = {"pc", "job", "file", "mine", "total", "invalid"}
                          /\ q.job \in Jobs /\ q.file \in Seq(Seq(UploadKeys \cup {Bad}))
                          /\ q.mine \subseteq UploadKeys /\ IsFiniteSet(q.mine)
    /\ q.pc = "reading" => q.job \in Jobs /\ q.key \in UploadKeys /\ JobIs(q.read)

UploadTypes ==
    /\ DOMAIN jobs = Jobs /\ \A j \in Jobs : JobIs(jobs[j])
    /\ DOMAIN upload = Requests /\ \A r \in Requests : UploadRequest(upload[r])
    /\ singles \in 0 .. MaxReadings /\ overlap \in BOOLEAN /\ aborted \subseteq Jobs

\* A count of the rows of a job, and what a request has read of one.
BackedBy(rows, row, j) == row.valid <= Cardinality(OfJob(rows, j))

ReadIsBacked(q, rows, gone) ==
    q.pc = "reading" /\ q.job \notin gone => BackedBy(rows, q.read, q.job)

CountsAreBacked ==
    /\ \A j \in Jobs \ aborted : BackedBy(readings, jobs[j], j)
    /\ \A r \in Requests : ReadIsBacked(upload[r], readings, aborted)

\* Only readings created one by one repeat a key, and they are accounted for when they
\* begin.
RepeatsAtMost(rows, extra, ones) == Cardinality(rows) + extra <= Cardinality(KeysOf(rows)) + ones

AddsNoRepeat(q, rows, ones) ==
    /\ q.pc = "chunks" => q.mine \cap KeysOf(rows) = {}
    /\ q.pc = "reading" => RepeatsAtMost(rows, 1, ones)

AllFree == \A r \in Requests : upload[r].pc = "free"

OneAtATime ==
    /\ \A r, p \in Requests : upload[r].pc # "free" /\ upload[p].pc # "free" => r = p
    /\ RepeatsAtMost(readings, 0, singles)
    /\ \A r \in Requests : AddsNoRepeat(upload[r], readings, singles)

UploadInv == UploadTypes /\ RowsAre(readings) /\ CountsAreBacked /\ (~overlap => OneAtATime)

LEMMA KeysAreFinite ==
    ASSUME NEW rows, RowsAre(rows)
    PROVE  /\ IsFiniteSet(KeysOf(rows)) /\ Cardinality(KeysOf(rows)) \in Nat
           /\ Cardinality(rows) \in Nat
<1> DEFINE f == [row \in rows |-> row.key]
<1>1. IsFiniteSet(rows) /\ IsImage(f, rows, KeysOf(rows))
  BY DEF RowsAre, KeysOf, IsImage
<1> HIDE DEF f
<1>2. IsFiniteSet(KeysOf(rows))
  BY <1>1, ImageIsFinite
<1> QED
  BY <1>1, <1>2, FS_CardinalityType

\* A request moves on and stores nothing.
LEMMA UploadMoves ==
    ASSUME UploadInv, MaxReadings \in Nat, NEW r \in Requests, NEW q, UploadRequest(q),
           upload' = [upload EXCEPT ![r] = q], readings' = readings,
           DOMAIN jobs' = Jobs, \A j \in Jobs : JobIs(jobs'[j]),
           singles' \in 0 .. MaxReadings, singles <= singles',
           overlap' \in BOOLEAN, overlap => overlap',
           aborted \subseteq aborted', aborted' \subseteq Jobs,
           \A j \in Jobs \ aborted' : BackedBy(readings, jobs'[j], j),
           ReadIsBacked(q, readings, aborted),
           ~overlap' => /\ q.pc = "free" \/ upload[r].pc # "free" \/ AllFree
                        /\ AddsNoRepeat(q, readings, singles')
    PROVE  UploadInv'
<1>1. /\ DOMAIN upload = Requests /\ \A p \in Requests : UploadRequest(upload[p])
      /\ singles \in 0 .. MaxReadings /\ aborted \subseteq Jobs /\ overlap \in BOOLEAN
  BY DEF UploadInv, UploadTypes
<1>2. DOMAIN upload' = Requests /\ \A p \in Requests : upload'[p] = IF p = r THEN q ELSE upload[p]
  BY <1>1
<1>3. UploadTypes'
  <2>1. \A p \in Requests : UploadRequest(upload'[p])
    BY <1>1, <1>2
  <2> QED
    BY <1>2, <2>1 DEF UploadTypes
<1>4. RowsAre(readings)'
  BY DEF UploadInv, RowsAre, Alike
<1>5. CountsAreBacked'
  <2>1. \A p \in Requests : ReadIsBacked(upload'[p], readings, aborted)
    BY <1>2 DEF UploadInv, CountsAreBacked
  <2>2. \A p \in Requests : ReadIsBacked(upload'[p], readings', aborted')
    BY <2>1 DEF ReadIsBacked
  <2> QED
    BY <2>2 DEF CountsAreBacked
<1>6. ASSUME ~overlap' PROVE OneAtATime'
  <2>1. OneAtATime /\ ~overlap
    BY <1>6 DEF UploadInv
  <2>2. \A p, o \in Requests : upload'[p].pc # "free" /\ upload'[o].pc # "free" => p = o
    BY <1>2, <1>6, <2>1 DEF OneAtATime, AllFree
  <2>3. \A extra \in Nat : RepeatsAtMost(readings, extra, singles)
                           => RepeatsAtMost(readings, extra, singles')
    <3>1. Cardinality(readings) \in Nat /\ Cardinality(KeysOf(readings)) \in Nat
      BY KeysAreFinite DEF UploadInv
    <3>2. singles \in Nat /\ singles' \in Nat
      BY <1>1
    <3> QED
      BY <3>1, <3>2 DEF RepeatsAtMost
  <2>4. \A p \in Requests : AddsNoRepeat(upload'[p], readings, singles')
    BY <1>2, <1>6, <2>1, <2>3 DEF OneAtATime, AddsNoRepeat
  <2>5. RepeatsAtMost(readings, 0, singles')
    BY <2>1, <2>3 DEF OneAtATime
  <2>6. readings' = readings
    OBVIOUS
  <2> QED
    BY <2>2, <2>4, <2>5, <2>6 DEF OneAtATime
<1> QED
  BY <1>3, <1>4, <1>5, <1>6 DEF UploadInv

\* A request ends with rows of new keys, or with one that may repeat.
LEMMA UploadStores ==
    ASSUME UploadInv, MaxReadings \in Nat, NEW r \in Requests, upload[r].pc # "free",
           upload' = [upload EXCEPT ![r] = U!NoRequest],
           NEW keys, IsFiniteSet(keys), keys \subseteq UploadKeys, NEW j \in Jobs,
           AddsRows(readings, readings', keys, j),
           NEW x, JobIs(x), jobs' = [jobs EXCEPT ![j] = x],
           UNCHANGED <<singles, overlap, aborted>>,
           j \notin aborted => x.valid <= Cardinality(OfJob(readings, j)) + Cardinality(keys),
           ~overlap => Cardinality(readings) + Cardinality(keys)
                         <= Cardinality(KeysOf(readings) \cup keys) + singles
    PROVE  UploadInv'
<1>1. /\ DOMAIN upload = Requests /\ \A p \in Requests : UploadRequest(upload[p])
      /\ DOMAIN jobs = Jobs /\ \A i \in Jobs : JobIs(jobs[i])
      /\ singles \in 0 .. MaxReadings /\ aborted \subseteq Jobs /\ overlap \in BOOLEAN
  BY DEF UploadInv, UploadTypes
<1>2. RowsAre(readings)
  BY DEF UploadInv
<1>3. /\ DOMAIN upload' = Requests
      /\ \A p \in Requests : upload'[p] = IF p = r THEN U!NoRequest ELSE upload[p]
  BY <1>1
<1>4. DOMAIN jobs' = Jobs /\ \A i \in Jobs : jobs'[i] = IF i = j THEN x ELSE jobs[i]
  BY <1>1
<1>5. UploadRequest(U!NoRequest) /\ U!NoRequest.pc = "free"
  BY DEF UploadRequest, U!NoRequest
<1>6. UploadTypes'
  <2>1. \A p \in Requests : UploadRequest(upload'[p])
    BY <1>1, <1>3, <1>5
  <2>2. \A i \in Jobs : JobIs(jobs'[i])
    BY <1>1, <1>4
  <2> QED
    BY <1>1, <1>3, <1>4, <2>1, <2>2 DEF UploadTypes
<1>7. RowsAre(readings')
  BY <1>2, RowsStayRows
<1>8. /\ Cardinality(readings') = Cardinality(readings) + Cardinality(keys)
      /\ KeysOf(readings') = KeysOf(readings) \cup keys
      /\ Cardinality(OfJob(readings', j)) = Cardinality(OfJob(readings, j)) + Cardinality(keys)
      /\ \A i : i # j => OfJob(readings', i) = OfJob(readings, i)
  BY <1>2, RowsGrow
<1>9. /\ Cardinality(keys) \in Nat
      /\ \A i : Cardinality(OfJob(readings, i)) \in Nat
  BY <1>2, AlikeAreFinite, FS_CardinalityType DEF RowsAre
<1>10. \A i : Cardinality(OfJob(readings, i)) <= Cardinality(OfJob(readings', i))
  <2>1. Cardinality(OfJob(readings, j)) <= Cardinality(OfJob(readings', j))
    BY <1>8, <1>9
  <2>2. \A i : i # j => Cardinality(OfJob(readings, i)) <= Cardinality(OfJob(readings', i))
    <3> SUFFICES ASSUME NEW i, i # j
                 PROVE  Cardinality(OfJob(readings, i)) <= Cardinality(OfJob(readings', i))
      OBVIOUS
    <3>1. OfJob(readings', i) = OfJob(readings, i)
      BY <1>8
    <3>2. Cardinality(OfJob(readings', i)) = Cardinality(OfJob(readings, i))
      BY <3>1
    <3>3. Cardinality(OfJob(readings, i)) \in Nat
      BY <1>9
    <3> QED
      BY <3>2, <3>3
  <2> QED
    BY <2>1, <2>2
<1>11. \A row, i : JobIs(row) /\ BackedBy(readings, row, i) => BackedBy(readings', row, i)
  <2> SUFFICES ASSUME NEW row, NEW i, row.valid \in Nat, BackedBy(readings, row, i)
               PROVE  BackedBy(readings', row, i)
    BY DEF JobIs
  <2>1. Cardinality(OfJob(readings', i)) \in Nat
    BY <1>7, AlikeAreFinite DEF RowsAre
  <2>2. \A a, b, c \in Nat : a <= b /\ b <= c => a <= c
    OBVIOUS
  <2>3. row.valid <= Cardinality(OfJob(readings, i))
    BY DEF BackedBy
  <2>4. row.valid <= Cardinality(OfJob(readings', i))
    BY <1>9, <1>10, <2>1, <2>2, <2>3
  <2> QED
    BY <2>4 DEF BackedBy
<1>12. CountsAreBacked'
  <2>1. \A i \in Jobs \ aborted : BackedBy(readings', jobs'[i], i)
    <3> SUFFICES ASSUME NEW i \in Jobs \ aborted PROVE BackedBy(readings', jobs'[i], i)
      OBVIOUS
    <3>1. CASE i = j
      BY <1>4, <1>8, <3>1 DEF BackedBy
    <3>2. CASE i # j
      <4>1. jobs'[i] = jobs[i] /\ JobIs(jobs[i])
        BY <1>1, <1>4, <3>2
      <4>2. BackedBy(readings, jobs[i], i)
        BY DEF UploadInv, CountsAreBacked
      <4> QED
        BY <1>11, <4>1, <4>2
    <3> QED
      BY <3>1, <3>2
  <2>2. \A p \in Requests : ReadIsBacked(upload'[p], readings', aborted)
    <3> SUFFICES ASSUME NEW p \in Requests PROVE ReadIsBacked(upload'[p], readings', aborted)
      OBVIOUS
    <3>1. CASE p = r
      BY <1>3, <1>5, <3>1 DEF ReadIsBacked
    <3>2. CASE p # r
      <4>1. upload'[p] = upload[p] /\ UploadRequest(upload[p])
        BY <1>1, <1>3, <3>2
      <4>2. ReadIsBacked(upload[p], readings, aborted)
        BY DEF UploadInv, CountsAreBacked
      <4>3. upload[p].pc = "reading" => JobIs(upload[p].read)
        BY <4>1 DEF UploadRequest
      <4> QED
        BY <1>11, <4>1, <4>2, <4>3 DEF ReadIsBacked
    <3> QED
      BY <3>1, <3>2
  <2> QED
    BY <2>1, <2>2 DEF CountsAreBacked
<1>13. ASSUME ~overlap' PROVE OneAtATime'
  <2>1. OneAtATime /\ ~overlap
    BY <1>13 DEF UploadInv
  <2>2. \A p \in Requests : upload'[p].pc = "free"
    BY <1>3, <1>5, <2>1 DEF OneAtATime
  <2>3. RepeatsAtMost(readings', 0, singles)
    <3>1. Cardinality(readings) \in Nat
      BY <1>2, KeysAreFinite
    <3>2. Cardinality(readings') + 0 = Cardinality(readings) + Cardinality(keys)
      BY <1>8, <1>9, <3>1
    <3>3. Cardinality(KeysOf(readings')) = Cardinality(KeysOf(readings) \cup keys)
      BY <1>8
    <3> QED
      BY <2>1, <3>2, <3>3 DEF RepeatsAtMost
  <2> QED
    BY <2>2, <2>3 DEF OneAtATime, AddsNoRepeat
<1> QED
  BY <1>6, <1>7, <1>12, <1>13 DEF UploadInv


-----------------------------------------------------------------------------
(* Uploads: the steps *)

LEMMA SameRows ==
    /\ U!Stored = KeysOf(readings)
    /\ \A j : U!ReadingsOf(j) = OfJob(readings, j)
    /\ \A k, j : U!ReadingRow(k, j) = NextRow(readings, k, j)
    /\ \A keys, j : {U!ReadingRow(k, j) : k \in keys} = NextRows(readings, keys, j)
<1>1. U!Stored = KeysOf(readings) /\ \A j : U!ReadingsOf(j) = OfJob(readings, j)
  BY DEF U!Stored, KeysOf, U!ReadingsOf, OfJob
<1>2. \A k, j : U!ReadingRow(k, j) = NextRow(readings, k, j)
  BY SameFiniteSets DEF U!ReadingRow, NextRow, Alike
<1>3. \A keys, j : {U!ReadingRow(k, j) : k \in keys} = NextRows(readings, keys, j)
  BY <1>2 DEF NextRows
<1> QED
  BY <1>1, <1>2, <1>3

LEMMA FlushedJob ==
    ASSUME NEW row, NEW read, NEW new, JobIs(row), JobIs(read), JobIs(new)
    PROVE  /\ JobIs(U!Flush(row, read, new))
           /\ U!Flush(row, read, new).valid =
                IF new.valid # read.valid THEN new.valid ELSE row.valid
BY DEF JobIs, U!Flush

LEMMA UploadFacts ==
    ASSUME UploadInv
    PROVE  /\ DOMAIN jobs = Jobs /\ \A j \in Jobs : JobIs(jobs[j])
           /\ DOMAIN upload = Requests /\ \A r \in Requests : UploadRequest(upload[r])
           /\ singles \in 0 .. MaxReadings /\ overlap \in BOOLEAN /\ aborted \subseteq Jobs
           /\ \A r \in Requests : U!Free(r) <=> upload[r].pc = "free"
           /\ \A j \in Jobs \ aborted : BackedBy(readings, jobs[j], j)
           /\ \A r \in Requests : ReadIsBacked(upload[r], readings, aborted)
           /\ ~overlap => OneAtATime
BY DEF UploadInv, UploadTypes, CountsAreBacked, U!Free, UploadRequest, U!NoRequest

\* A request begins.
LEMMA UploadBegins ==
    ASSUME UploadInv, MaxReadings \in Nat, NEW r \in Requests, NEW q, U!Begin(r, q),
           UploadRequest(q), UNCHANGED <<jobs, readings, aborted>>,
           singles' \in 0 .. MaxReadings, singles <= singles',
           ReadIsBacked(q, readings, aborted),
           ~overlap => AddsNoRepeat(q, readings, singles')
    PROVE  UploadInv'
<1>1. /\ upload' = [upload EXCEPT ![r] = q]
      /\ overlap' = (overlap \/ \E p \in Requests : ~U!Free(p))
  BY DEF U!Begin
<1>2. overlap' \in BOOLEAN /\ (overlap => overlap')
  BY <1>1, UploadFacts
<1>3. ~overlap' => ~overlap /\ AllFree
  BY <1>1, UploadFacts DEF AllFree
<1>4. /\ DOMAIN jobs' = Jobs /\ \A j \in Jobs : JobIs(jobs'[j])
      /\ aborted \subseteq aborted' /\ aborted' \subseteq Jobs
      /\ \A j \in Jobs \ aborted' : BackedBy(readings, jobs'[j], j)
  BY UploadFacts
<1> QED
  BY <1>1, <1>2, <1>3, <1>4, UploadMoves

\* A request moves on by itself or ends.
LEMMA UploadGoesOn ==
    ASSUME UploadInv, MaxReadings \in Nat, NEW r \in Requests, upload[r].pc # "free",
           NEW q, upload' = [upload EXCEPT ![r] = q], UploadRequest(q),
           UNCHANGED <<readings, singles, overlap>>,
           DOMAIN jobs' = Jobs, \A j \in Jobs : JobIs(jobs'[j]),
           aborted \subseteq aborted', aborted' \subseteq Jobs,
           \A j \in Jobs \ aborted' : BackedBy(readings, jobs'[j], j),
           q.pc \in {"free", "chunks"},
           ~overlap => AddsNoRepeat(q, readings, singles)
    PROVE  UploadInv'
<1>1. /\ singles' \in 0 .. MaxReadings /\ singles <= singles'
      /\ overlap' \in BOOLEAN /\ (overlap => overlap')
  BY UploadFacts
<1>2. ReadIsBacked(q, readings, aborted)
  BY DEF ReadIsBacked
<1> QED
  BY <1>1, <1>2, UploadMoves

LEMMA EndedRequest ==
    /\ UploadRequest(U!NoRequest) /\ U!NoRequest.pc = "free"
    /\ AddsNoRepeat(U!NoRequest, readings, singles)
BY DEF UploadRequest, U!NoRequest, AddsNoRepeat

LEMMA CreateJobKeeps ==
    ASSUME UploadInv, MaxReadings \in Nat, U!create_upload_job PROVE UploadInv'
<1>1. PICK j \in Jobs : jobs[j] = U!NoJob /\ jobs' = [jobs EXCEPT ![j].status = "PENDING"]
  BY DEF U!create_upload_job
<1>2. UNCHANGED <<readings, upload, singles, overlap, aborted>>
  BY DEF U!create_upload_job
<1>3. /\ DOMAIN jobs' = Jobs
      /\ \A i \in Jobs : JobIs(jobs'[i]) /\ jobs'[i].valid = jobs[i].valid
  <2>1. DOMAIN jobs = Jobs /\ \A i \in Jobs : JobIs(jobs[i])
    BY UploadFacts
  <2> QED
    BY <1>1, <2>1 DEF JobIs
<1>4. \A i \in Jobs \ aborted : BackedBy(readings, jobs'[i], i)
  BY <1>3, UploadFacts DEF BackedBy
<1>5. UploadTypes'
  BY <1>2, <1>3 DEF UploadInv, UploadTypes
<1>6. CountsAreBacked'
  <2>1. \A r \in Requests : ReadIsBacked(upload[r], readings, aborted)
    BY UploadFacts
  <2> QED
    BY <1>2, <1>4, <2>1 DEF CountsAreBacked
<1>7. RowsAre(readings)' /\ (~overlap => OneAtATime)'
  BY <1>2 DEF UploadInv, OneAtATime
<1> QED
  BY <1>5, <1>6, <1>7 DEF UploadInv

LEMMA ReadJobKeeps ==
    ASSUME UploadInv, U!UploadConstants, NEW r \in Requests, U!ReadJob(r) PROVE UploadInv'
<1>1. PICK j \in Jobs, file \in UploadFiles :
        U!Begin(r, [pc |-> "start", job |-> j, file |-> file, read |-> jobs[j]])
  BY DEF U!ReadJob
<1> DEFINE q == [pc |-> "start", job |-> j, file |-> file, read |-> jobs[j]]
<1>2. file \in Seq(Seq(UploadKeys \cup {Bad})) /\ MaxReadings \in Nat
  BY DEF U!UploadConstants
<1>3. JobIs(jobs[j])
  BY UploadFacts
<1>4. UploadRequest(q)
  BY <1>2, <1>3 DEF UploadRequest
<1>5. ReadIsBacked(q, readings, aborted) /\ AddsNoRepeat(q, readings, singles')
  BY DEF ReadIsBacked, AddsNoRepeat
<1>6. singles' \in 0 .. MaxReadings /\ singles <= singles'
  BY UploadFacts DEF U!ReadJob
<1>7. UNCHANGED <<jobs, readings, aborted>> /\ U!Begin(r, q)
  BY <1>1 DEF U!ReadJob
<1> HIDE DEF q
<1> QED
  BY <1>2, <1>4, <1>5, <1>6, <1>7, UploadBegins

LEMMA StartKeeps ==
    ASSUME UploadInv, MaxReadings \in Nat, NEW r \in Requests, U!start_upload_job(r)
    PROVE  UploadInv'
<1> DEFINE p == upload[r]
           j == p.job
           x == U!Flush(jobs[j], p.read, U!Started)
           q == [pc |-> "chunks", job |-> p.job, file |-> p.file, mine |-> {}, total |-> 0,
                 invalid |-> 0]
<1>1. p.pc = "start" /\ UploadRequest(p)
  BY UploadFacts DEF U!start_upload_job
<1>2. j \in Jobs /\ JobIs(p.read) /\ p.file \in Seq(Seq(UploadKeys \cup {Bad}))
  BY <1>1 DEF UploadRequest
<1>3. JobIs(U!Started) /\ U!Started.valid = 0
  BY DEF JobIs, U!Started
<1>4. JobIs(jobs[j]) /\ DOMAIN jobs = Jobs
  BY <1>2, UploadFacts
<1>5. JobIs(x) /\ x.valid \in {0, jobs[j].valid}
  BY <1>2, <1>3, <1>4, FlushedJob
<1>6. UploadRequest(q) /\ q.pc = "chunks"
  BY <1>2, FS_EmptySet DEF UploadRequest
<1>7. AddsNoRepeat(q, readings, singles)
  BY DEF AddsNoRepeat
<1>8. /\ jobs' = [jobs EXCEPT ![j] = x] /\ upload' = [upload EXCEPT ![r] = q]
      /\ UNCHANGED <<readings, singles, overlap, aborted>>
  BY DEF U!start_upload_job
<1> HIDE DEF x, q
<1>9. DOMAIN jobs' = Jobs /\ \A i \in Jobs : jobs'[i] = IF i = j THEN x ELSE jobs[i]
  BY <1>4, <1>8
<1>10. \A i \in Jobs : JobIs(jobs'[i])
  BY <1>5, <1>9, UploadFacts
<1>11. \A i \in Jobs \ aborted' : BackedBy(readings, jobs'[i], i)
  <2> SUFFICES ASSUME NEW i \in Jobs \ aborted PROVE BackedBy(readings, jobs'[i], i)
    BY <1>8
  <2>1. BackedBy(readings, jobs[i], i)
    BY UploadFacts
  <2>2. jobs'[i].valid = jobs[i].valid \/ jobs'[i].valid = 0
    BY <1>5, <1>9
  <2>3. Cardinality(OfJob(readings, i)) \in Nat
    BY AlikeAreFinite DEF UploadInv, RowsAre
  <2>4. \A n \in Nat : 0 <= n
    OBVIOUS
  <2> QED
    BY <2>1, <2>2, <2>3, <2>4 DEF BackedBy
<1>12. p.pc # "free" /\ aborted' \subseteq Jobs /\ aborted \subseteq aborted'
  BY <1>1, <1>8, UploadFacts
<1> QED
  BY <1>6, <1>7, <1>8, <1>9, <1>10, <1>11, <1>12, UploadGoesOn


LEMMA KeptAreNew ==
    ASSUME NEW chunk \in Seq(UploadKeys \cup {Bad}), NEW own, NEW kept,
           kept = U!Deduplicated(chunk, U!get_existing_reading_keys(own)),
           NEW keys, keys = {chunk[i] : i \in kept}
    PROVE  /\ IsFiniteSet(keys) /\ keys \subseteq UploadKeys
           /\ keys \cap KeysOf(readings) = {}
<1>1. kept \subseteq DOMAIN chunk /\ \A i \in kept : chunk[i] # Bad /\ chunk[i] \notin U!Stored
  BY DEF U!Deduplicated, U!get_existing_reading_keys
<1>2. \A i \in DOMAIN chunk : chunk[i] \in UploadKeys \cup {Bad}
  OBVIOUS
<1>3. keys \subseteq UploadKeys /\ keys \cap KeysOf(readings) = {}
  BY <1>1, <1>2, SameRows
<1>4. IsFiniteSet(kept)
  <2>1. DOMAIN chunk = 1 .. Len(chunk) /\ Len(chunk) \in Int /\ 1 \in Int
    OBVIOUS
  <2>2. IsFiniteSet(1 .. Len(chunk))
    BY <2>1, FS_Interval
  <2> QED
    BY <1>1, <2>1, <2>2, FS_Subset
<1>5. IsFiniteSet(keys)
  <2>1. IsImage(chunk, kept, keys)
    BY DEF IsImage
  <2> QED
    BY <1>4, <2>1, ImageIsFinite
<1> QED
  BY <1>3, <1>5

LEMMA ChunkKeeps ==
    ASSUME UploadInv, MaxReadings \in Nat, NEW r \in Requests, U!_process_chunk(r)
    PROVE  UploadInv'
<1> DEFINE p == upload[r]
           chunk == Head(p.file)
           kept == U!Deduplicated(chunk, U!get_existing_reading_keys(p.mine))
           keys == {chunk[i] : i \in kept}
           q == [p EXCEPT !.file = Tail(@), !.mine = @ \cup keys,
                          !.total = @ + Len(chunk),
                          !.invalid = @ + Len(chunk) - U!Cardinality(kept)]
<1>1. p.pc = "chunks" /\ p.file # <<>> /\ UploadRequest(p)
  BY UploadFacts DEF U!_process_chunk
<1>2. /\ DOMAIN p = {"pc", "job", "file", "mine", "total", "invalid"}
      /\ p.job \in Jobs /\ p.file \in Seq(Seq(UploadKeys \cup {Bad}))
      /\ p.mine \subseteq UploadKeys /\ IsFiniteSet(p.mine)
  BY <1>1 DEF UploadRequest
<1>3. chunk \in Seq(UploadKeys \cup {Bad}) /\ Tail(p.file) \in Seq(Seq(UploadKeys \cup {Bad}))
  BY <1>1, <1>2, HeadTailProperties
<1>4. /\ upload' = [upload EXCEPT ![r] = q]
      /\ UNCHANGED <<jobs, readings, singles, overlap, aborted>>
  BY DEF U!_process_chunk
<1> HIDE DEF kept
<1>5. /\ q.pc = "chunks" /\ q.job = p.job /\ q.file = Tail(p.file)
      /\ q.mine = p.mine \cup keys
      /\ DOMAIN q = {"pc", "job", "file", "mine", "total", "invalid"}
  BY <1>1, <1>2
<1>6. IsFiniteSet(keys) /\ keys \subseteq UploadKeys /\ keys \cap KeysOf(readings) = {}
  BY <1>3, KeptAreNew DEF kept
<1> HIDE DEF q, keys
<1>7. IsFiniteSet(p.mine \cup keys)
  BY <1>2, <1>6, FS_Union
<1>8. UploadRequest(q)
  BY <1>2, <1>3, <1>5, <1>6, <1>7 DEF UploadRequest
<1>9. ~overlap => AddsNoRepeat(q, readings, singles)
  <2> SUFFICES ASSUME ~overlap PROVE q.mine \cap KeysOf(readings) = {}
    BY <1>5 DEF AddsNoRepeat
  <2>1. AddsNoRepeat(p, readings, singles)
    BY UploadFacts DEF OneAtATime
  <2> QED
    BY <1>1, <1>5, <1>6, <2>1 DEF AddsNoRepeat
<1>10. /\ DOMAIN jobs' = Jobs /\ \A i \in Jobs : JobIs(jobs'[i])
       /\ aborted' \subseteq Jobs /\ aborted \subseteq aborted'
       /\ \A i \in Jobs \ aborted' : BackedBy(readings, jobs'[i], i)
  BY <1>4, UploadFacts
<1>11. p.pc # "free"
  BY <1>1
<1> QED
  BY <1>4, <1>5, <1>8, <1>9, <1>10, <1>11, UploadGoesOn

LEMMA FinalizeKeeps ==
    ASSUME UploadInv, MaxReadings \in Nat, NEW r \in Requests, U!finalize_upload_job(r)
    PROVE  UploadInv'
<1> DEFINE p == upload[r]
           j == p.job
           keys == p.mine
           final == [status |-> IF p.invalid = 0 THEN "COMPLETED" ELSE "FAILED",
                     total |-> p.total, valid |-> U!valid_rows(p), invalid |-> p.invalid]
           x == U!Flush(jobs[j], U!Started, final)
<1>1. p.pc = "chunks" /\ UploadRequest(p)
  BY UploadFacts DEF U!finalize_upload_job
<1>2. j \in Jobs /\ keys \subseteq UploadKeys /\ IsFiniteSet(keys)
  BY <1>1 DEF UploadRequest
<1>3. /\ jobs' = [jobs EXCEPT ![j] = x]
      /\ readings' = readings \cup {U!ReadingRow(k, j) : k \in keys}
      /\ upload' = [upload EXCEPT ![r] = U!NoRequest]
      /\ UNCHANGED <<singles, overlap, aborted>>
  BY DEF U!finalize_upload_job, U!Done
<1>4. AddsRows(readings, readings', keys, j)
  BY <1>3, SameRows DEF AddsRows
<1>5. U!valid_rows(p) = Cardinality(keys) /\ Cardinality(keys) \in Nat
  BY <1>2, SameFiniteSets, FS_CardinalityType DEF U!valid_rows
<1>6. JobIs(final) /\ final.valid = Cardinality(keys)
  BY <1>5 DEF JobIs
<1>7. JobIs(U!Started) /\ U!Started.valid = 0
  BY DEF JobIs, U!Started
<1>8. JobIs(jobs[j])
  BY <1>2, UploadFacts
<1> HIDE DEF final
<1>9. JobIs(x) /\ x.valid = IF final.valid # U!Started.valid THEN final.valid ELSE jobs[j].valid
  BY <1>6, <1>7, <1>8, FlushedJob
<1> HIDE DEF x
<1>10. j \notin aborted => x.valid <= Cardinality(OfJob(readings, j)) + Cardinality(keys)
  <2> SUFFICES ASSUME j \notin aborted
               PROVE  x.valid <= Cardinality(OfJob(readings, j)) + Cardinality(keys)
    OBVIOUS
  <2>1. jobs[j].valid <= Cardinality(OfJob(readings, j)) /\ jobs[j].valid \in Nat
    BY <1>2, <1>8, UploadFacts DEF BackedBy, JobIs
  <2>2. Cardinality(OfJob(readings, j)) \in Nat
    BY AlikeAreFinite DEF UploadInv, RowsAre
  <2>3. x.valid = jobs[j].valid \/ x.valid = Cardinality(keys)
    BY <1>6, <1>9
  <2>4. \A v, c, n \in Nat : v <= n => v <= n + c /\ c <= n + c
    OBVIOUS
  <2> QED
    BY <1>5, <2>1, <2>2, <2>3, <2>4
<1>11. ASSUME ~overlap
       PROVE  Cardinality(readings) + Cardinality(keys)
                <= Cardinality(KeysOf(readings) \cup keys) + singles
  <2>1. OneAtATime /\ singles \in Nat
    BY <1>11, UploadFacts
  <2>2. KeysOf(readings) \cap keys = {}
    BY <1>1, <2>1 DEF OneAtATime, AddsNoRepeat
  <2>3. /\ IsFiniteSet(KeysOf(readings)) /\ Cardinality(KeysOf(readings)) \in Nat
        /\ Cardinality(readings) \in Nat
    BY KeysAreFinite DEF UploadInv
  <2>4. Cardinality(KeysOf(readings) \cup keys) = Cardinality(KeysOf(readings)) + Cardinality(keys)
    BY <1>2, <2>2, <2>3, JoinedCount
  <2>5. Cardinality(readings) + 0 <= Cardinality(KeysOf(readings)) + singles
    BY <2>1 DEF OneAtATime, RepeatsAtMost
  <2> QED
    BY <1>5, <2>1, <2>3, <2>4, <2>5
<1>12. p.pc # "free"
  BY <1>1
<1> QED
  BY <1>2, <1>3, <1>4, <1>9, <1>10, <1>11, <1>12, UploadStores

LEMMA FailUploadKeeps ==
    ASSUME UploadInv, MaxReadings \in Nat, NEW r \in Requests, U!FailUpload(r)
    PROVE  UploadInv'
<1> DEFINE p == upload[r]
           j == p.job
           x == [status |-> "FAILED", total |-> p.total, valid |-> U!Cardinality(p.mine),
                 invalid |-> IF p.invalid = 0 THEN 1 ELSE p.invalid]
<1>1. p.pc = "chunks" /\ UploadRequest(p)
  BY UploadFacts DEF U!FailUpload
<1>2. j \in Jobs /\ IsFiniteSet(p.mine)
  BY <1>1 DEF UploadRequest
<1>3. /\ jobs' = [jobs EXCEPT ![j] = x] /\ aborted' = aborted \cup {j}
      /\ upload' = [upload EXCEPT ![r] = U!NoRequest]
      /\ UNCHANGED <<readings, singles, overlap>>
  BY DEF U!FailUpload, U!Done
<1>4. JobIs(x)
  BY <1>2, SameFiniteSets, FS_CardinalityType DEF JobIs
<1> HIDE DEF x
<1>5. DOMAIN jobs' = Jobs /\ \A i \in Jobs : jobs'[i] = IF i = j THEN x ELSE jobs[i]
  BY <1>3, UploadFacts
<1>6. \A i \in Jobs : JobIs(jobs'[i])
  BY <1>4, <1>5, UploadFacts
<1>7. \A i \in Jobs \ aborted' : BackedBy(readings, jobs'[i], i)
  BY <1>3, <1>5, UploadFacts
<1>8. p.pc # "free" /\ aborted' \subseteq Jobs /\ aborted \subseteq aborted'
  BY <1>1, <1>2, <1>3, UploadFacts
<1> QED
  BY <1>3, <1>5, <1>6, <1>7, <1>8, EndedRequest, UploadGoesOn

LEMMA ReadBatchKeeps ==
    ASSUME UploadInv, MaxReadings \in Nat, NEW r \in Requests, U!ReadBatch(r)
    PROVE  UploadInv'
<1>1. PICK j \in Jobs, k \in UploadKeys :
        U!Begin(r, [pc |-> "reading", job |-> j, key |-> k, read |-> jobs[j]])
  BY DEF U!ReadBatch
<1> DEFINE q == [pc |-> "reading", job |-> j, key |-> k, read |-> jobs[j]]
<1>2. JobIs(jobs[j]) /\ (j \notin aborted => BackedBy(readings, jobs[j], j))
  BY UploadFacts
<1>3. UploadRequest(q)
  BY <1>2 DEF UploadRequest
<1>4. ReadIsBacked(q, readings, aborted)
  BY <1>2 DEF ReadIsBacked
<1>5. U!Begin(r, q) /\ UNCHANGED <<jobs, readings, aborted>>
  BY <1>1 DEF U!ReadBatch
<1>6. singles < MaxReadings /\ singles' = singles + 1
  BY DEF U!ReadBatch
<1>7. singles' \in 0 .. MaxReadings /\ singles <= singles' /\ singles \in Nat
  BY <1>6, UploadFacts
<1>8. ~overlap => AddsNoRepeat(q, readings, singles')
  <2> SUFFICES ASSUME ~overlap PROVE RepeatsAtMost(readings, 1, singles')
    BY DEF AddsNoRepeat
  <2>1. Cardinality(readings) \in Nat /\ Cardinality(KeysOf(readings)) \in Nat
    BY KeysAreFinite DEF UploadInv
  <2>2. Cardinality(readings) + 0 <= Cardinality(KeysOf(readings)) + singles
    BY UploadFacts DEF OneAtATime, RepeatsAtMost
  <2> QED
    BY <1>6, <1>7, <2>1, <2>2 DEF RepeatsAtMost
<1> HIDE DEF q
<1> QED
  BY <1>3, <1>4, <1>5, <1>7, <1>8, UploadBegins

LEMMA ReadingKeeps ==
    ASSUME UploadInv, MaxReadings \in Nat, NEW r \in Requests, U!create_sensor_reading(r)
    PROVE  UploadInv'
<1> DEFINE p == upload[r]
           j == p.job
           keys == {p.key}
           new == U!increment_upload_job_valid_rows(p.read)
           x == U!Flush(jobs[j], p.read, new)
<1>1. p.pc = "reading" /\ UploadRequest(p)
  BY UploadFacts DEF U!create_sensor_reading
<1>2. j \in Jobs /\ p.key \in UploadKeys /\ JobIs(p.read)
  BY <1>1 DEF UploadRequest
<1>3. IsFiniteSet(keys) /\ Cardinality(keys) = 1 /\ keys \subseteq UploadKeys
  BY <1>2, FS_Singleton
<1>4. /\ jobs' = [jobs EXCEPT ![j] = x] /\ readings' = readings \cup {U!ReadingRow(p.key, j)}
      /\ upload' = [upload EXCEPT ![r] = U!NoRequest]
      /\ UNCHANGED <<singles, overlap, aborted>>
  BY DEF U!create_sensor_reading, U!Done
<1>5. AddsRows(readings, readings', keys, j)
  BY <1>4, SameRows DEF AddsRows, NextRows
<1>6. JobIs(new) /\ new.valid = p.read.valid + 1
  BY <1>2 DEF JobIs, U!increment_upload_job_valid_rows
<1>7. JobIs(jobs[j])
  BY <1>2, UploadFacts
<1> HIDE DEF new
<1>8. JobIs(x) /\ x.valid = IF new.valid # p.read.valid THEN new.valid ELSE jobs[j].valid
  BY <1>2, <1>6, <1>7, FlushedJob
<1> HIDE DEF x, keys
<1>9. j \notin aborted => x.valid <= Cardinality(OfJob(readings, j)) + Cardinality(keys)
  <2> SUFFICES ASSUME j \notin aborted PROVE x.valid <= Cardinality(OfJob(readings, j)) + 1
    BY <1>3
  <2>1. ReadIsBacked(p, readings, aborted)
    BY UploadFacts
  <2>2. p.read.valid <= Cardinality(OfJob(readings, j)) /\ p.read.valid \in Nat
    BY <1>1, <1>2, <2>1 DEF ReadIsBacked, BackedBy, JobIs
  <2>3. Cardinality(OfJob(readings, j)) \in Nat
    BY AlikeAreFinite DEF UploadInv, RowsAre
  <2>4. x.valid = p.read.valid + 1
    BY <1>6, <1>8, <2>2
  <2> QED
    BY <2>2, <2>3, <2>4
<1>10. ASSUME ~overlap
       PROVE  Cardinality(readings) + Cardinality(keys)
                <= Cardinality(KeysOf(readings) \cup keys) + singles
  <2>1. OneAtATime /\ singles \in Nat
    BY <1>10, UploadFacts
  <2>2. Cardinality(readings) + 1 <= Cardinality(KeysOf(readings)) + singles
    BY <1>1, <2>1 DEF OneAtATime, AddsNoRepeat, RepeatsAtMost
  <2>3. /\ IsFiniteSet(KeysOf(readings)) /\ Cardinality(KeysOf(readings)) \in Nat
        /\ Cardinality(readings) \in Nat
    BY KeysAreFinite DEF UploadInv
  <2>4. /\ Cardinality(KeysOf(readings)) <= Cardinality(KeysOf(readings) \cup keys)
        /\ Cardinality(KeysOf(readings) \cup keys) \in Nat
    <3>1. IsFiniteSet(KeysOf(readings) \cup keys)
      BY <1>3, <2>3, FS_Union
    <3>2. KeysOf(readings) \in SUBSET (KeysOf(readings) \cup keys)
      OBVIOUS
    <3> QED
      BY <3>1, <3>2, FS_Subset, FS_CardinalityType
  <2> QED
    BY <1>3, <2>1, <2>2, <2>3, <2>4
<1>11. p.pc # "free"
  BY <1>1
<1> QED
  BY <1>2, <1>3, <1>4, <1>5, <1>8, <1>9, <1>10, <1>11, UploadStores

LEMMA UploadDies ==
    ASSUME UploadInv, MaxReadings \in Nat, NEW r \in Requests, U!Crash(r) PROVE UploadInv'
<1>1. /\ upload[r].pc # "free" /\ upload' = [upload EXCEPT ![r] = U!NoRequest]
      /\ UNCHANGED <<jobs, readings, singles, overlap, aborted>>
  BY UploadFacts DEF U!Crash, U!Done
<1>2. /\ DOMAIN jobs' = Jobs /\ \A i \in Jobs : JobIs(jobs'[i])
      /\ aborted \subseteq aborted' /\ aborted' \subseteq Jobs
      /\ \A i \in Jobs \ aborted' : BackedBy(readings, jobs'[i], i)
  BY <1>1, UploadFacts
<1> QED
  BY <1>1, <1>2, EndedRequest, UploadGoesOn

LEMMA UploadsStep ==
    ASSUME UploadInv, U!UploadConstants, [U!Next]_(U!vars) PROVE UploadInv'
<1>1. MaxReadings \in Nat
  BY DEF U!UploadConstants
<1>2. CASE U!Next
  <2>1. CASE U!create_upload_job
    BY <1>1, <2>1, CreateJobKeeps
  <2>2. ASSUME NEW r \in Requests,
               \/ U!ReadJob(r) \/ U!start_upload_job(r) \/ U!_process_chunk(r)
               \/ U!finalize_upload_job(r) \/ U!FailUpload(r) \/ U!ReadBatch(r)
               \/ U!create_sensor_reading(r) \/ U!Crash(r)
        PROVE  UploadInv'
    BY <1>1, <2>2, ReadJobKeeps, StartKeeps, ChunkKeeps, FinalizeKeeps, FailUploadKeeps,
       ReadBatchKeeps, ReadingKeeps, UploadDies
  <2> QED
    BY <1>2, <2>1, <2>2 DEF U!Next
<1>3. CASE UNCHANGED U!vars
  BY <1>3 DEF U!vars, UploadInv, UploadTypes, CountsAreBacked, OneAtATime
<1> QED
  BY <1>2, <1>3

LEMMA UploadsStart == U!Init /\ U!UploadConstants => UploadInv
<1> SUFFICES ASSUME U!Init, MaxReadings \in Nat PROVE UploadInv
  BY DEF U!UploadConstants
<1>1. /\ jobs = [j \in Jobs |-> U!NoJob] /\ readings = {}
      /\ upload = [r \in Requests |-> U!NoRequest]
      /\ singles = 0 /\ overlap = FALSE /\ aborted = {}
  BY DEF U!Init
<1>2. JobIs(U!NoJob) /\ U!NoJob.valid = 0
  BY DEF JobIs, U!NoJob
<1>3. UploadTypes
  <2>1. /\ DOMAIN jobs = Jobs /\ \A j \in Jobs : JobIs(jobs[j])
        /\ DOMAIN upload = Requests
    BY <1>1, <1>2
  <2>2. \A r \in Requests : UploadRequest(upload[r])
    BY <1>1, EndedRequest
  <2>3. singles \in 0 .. MaxReadings /\ aborted \subseteq Jobs
    BY <1>1
  <2>4. overlap \in BOOLEAN
    BY <1>1, Zenon
  <2> QED
    BY <2>1, <2>2, <2>3, <2>4 DEF UploadTypes
<1>4. RowsAre(readings)
  BY <1>1, FS_EmptySet DEF RowsAre
<1>5. CountsAreBacked
  <2>1. \A j : Cardinality(OfJob(readings, j)) \in Nat
    BY <1>4, AlikeAreFinite DEF RowsAre
  <2>2. \A j \in Jobs : BackedBy(readings, jobs[j], j)
    BY <1>1, <1>2, <2>1 DEF BackedBy
  <2>3. \A r \in Requests : upload[r].pc = "free"
    BY <1>1, EndedRequest
  <2> QED
    BY <2>2, <2>3 DEF CountsAreBacked, ReadIsBacked
<1>6. OneAtATime
  <2>1. \A r \in Requests : upload[r].pc = "free"
    BY <1>1, EndedRequest
  <2>2. RepeatsAtMost(readings, 0, singles)
    <3>1. Cardinality(readings) = 0 /\ Cardinality(KeysOf(readings)) \in Nat
      BY <1>1, <1>4, FS_EmptySet, KeysAreFinite
    <3> QED
      BY <1>1, <3>1 DEF RepeatsAtMost
  <2> QED
    BY <2>1, <2>2 DEF OneAtATime, AddsNoRepeat
<1> QED
  BY <1>3, <1>4, <1>5, <1>6 DEF UploadInv

\* Requests know jobs and keys, rows are numbered, and what is counted is stored.
THEOREM UploadsInvariance == U!Spec => []UploadInv
<1>1. U!Init => UploadInv
  BY UploadsStart, UploadAssumption
<1>2. UploadInv /\ [U!Next]_(U!vars) => UploadInv'
  BY UploadsStep, UploadAssumption
<1> QED
  BY <1>1, <1>2, PTL DEF U!Spec

\* A job counts no reading that is not stored, unless an upload of it was aborted, and
\* uploads that did not overlap repeat no reading (sensor_data_etl.py).
THEOREM UploadsSoundness == U!Spec => []UploadsAreSound
<1>1. UploadInv => UploadsAreSound
  <2> SUFFICES ASSUME UploadInv PROVE U!UploadsAreSound
    BY DEF UploadsAreSound
  <2>1. U!TypeOK
    <3>1. \A j \in Jobs : JobIs(jobs[j])
      BY UploadFacts
    <3>2. \A row \in readings : row.key \in UploadKeys /\ row.job \in Jobs
      BY DEF UploadInv, RowsAre
    <3> QED
      BY <3>1, <3>2, UploadFacts DEF U!TypeOK, JobIs
  <2>2. U!ReadingsBackTheCounts
    BY UploadFacts, SameRows, SameFiniteSets DEF U!ReadingsBackTheCounts, BackedBy
  <2>3. U!UploadsDoNotRepeat
    <3>1. Cardinality(readings) \in Nat /\ Cardinality(KeysOf(readings)) \in Nat
      BY KeysAreFinite DEF UploadInv
    <3>2. ~overlap => Cardinality(readings) + 0 <= Cardinality(KeysOf(readings)) + singles
      BY UploadFacts DEF OneAtATime, RepeatsAtMost
    <3>3. ~overlap => Cardinality(readings) <= Cardinality(KeysOf(readings)) + singles
      BY <3>1, <3>2
    <3> QED
      BY <3>3, SameRows, SameFiniteSets DEF U!UploadsDoNotRepeat
  <2> QED
    BY <2>1, <2>2, <2>3 DEF U!UploadsAreSound
<1> QED
  BY <1>1, UploadsInvariance, PTL


-----------------------------------------------------------------------------
(* The schema: what an operation does to it does not depend on the rows *)

Tabled(db) == \A r \in db.rows : "table" \in DOMAIN r /\ r.table \in db.tables

\* Equal schemas are equal in every part.
LEMMA SchemaParts ==
    ASSUME NEW d, NEW e
    PROVE  Schema(d) = Schema(e) <=>
             /\ d.tables = e.tables /\ d.columns = e.columns /\ d.refs = e.refs
             /\ d.keys = e.keys /\ d.checks = e.checks /\ d.required = e.required
  BY DEF Schema

LEMMA DatabaseFields ==
    ASSUME NEW db
    PROVE  IsDatabase(db) <=> DOMAIN db = {"tables", "columns", "refs", "keys", "checks",
                                           "required", "companies", "rows"}
  BY DEF IsDatabase, EmptyDatabase

\* Whether the objects an operation names are there depends on the schema only.
LEMMA SchemaDecides ==
    ASSUME NEW d, NEW e, Schema(d) = Schema(e), NEW o, o.op \in Operations
    PROVE  Applicable(d, o) <=> Applicable(e, o)
<1>1. /\ d.tables = e.tables /\ d.columns = e.columns /\ d.refs = e.refs
      /\ d.keys = e.keys /\ d.checks = e.checks
  BY SchemaParts
<1> QED
  BY <1>1 DEF Applicable, Operations

\* What an operation changes in a row leaves it in its table.
LEMMA RowsStayInTables ==
    ASSUME NEW r, "table" \in DOMAIN r, NEW c, NEW v
    PROVE  /\ "table" \in DOMAIN Put(r, c, v) /\ Put(r, c, v).table = r.table
           /\ "table" \in DOMAIN Without(r, c) /\ Without(r, c).table = r.table
<1>1. "table" # "cells"
  OBVIOUS
<1> DEFINE put == (c :> v) @@ r.cells
           out == Restrict(r.cells, DOMAIN r.cells \ {c})
<1>2. Put(r, c, v) = [r EXCEPT !.cells = put] /\ Without(r, c) = [r EXCEPT !.cells = out]
  BY DEF Put, Without
<1> HIDE DEF put, out
<1> QED
  BY <1>1, <1>2

\* The schema an operation leaves, of the schema it finds.
NextSchema(d, o) ==
    LET t == o.table IN
    [tables |-> CASE o.op = "create" -> d.tables \union {t}
                  [] o.op = "drop" -> d.tables \ {t}
                  [] OTHER -> d.tables,
     columns |-> CASE o.op = "drop" -> d.columns \ Of(t, d.columns)
                   [] o.op = "add column" -> d.columns \union {<<t, o.column>>}
                   [] o.op = "drop column" -> d.columns \ {<<t, o.column>>}
                   [] OTHER -> d.columns,
     refs |-> CASE o.op = "create" -> d.refs \union {<<t, ref>> : ref \in o.refs}
                [] o.op = "drop" -> d.refs \ Of(t, d.refs)
                [] o.op = "add reference" -> d.refs \union {<<t, o.ref>>}
                [] o.op \in {"drop column", "drop reference"} -> d.refs \ On(t, o.column, d.refs)
                [] OTHER -> d.refs,
     keys |-> CASE o.op = "create" -> d.keys \union {<<t, key>> : key \in o.keys}
                [] o.op = "drop" -> d.keys \ Of(t, d.keys)
                [] o.op = "add key" -> d.keys \union {<<t, o.columns>>}
                [] o.op = "drop key" -> d.keys \ {<<t, o.columns>>}
                [] OTHER -> d.keys,
     checks |-> CASE o.op = "drop" -> d.checks \ Of(t, d.checks)
                  [] o.op = "add check" -> d.checks \union {<<t, o.column, o.values>>}
                  [] o.op = "drop check" ->
                       d.checks \ {k \in Of(t, d.checks) : k[2] = o.column}
                  [] OTHER -> d.checks,
     required |-> CASE o.op = "drop" -> d.required \ Of(t, d.required)
                    [] o.op = "drop column" -> d.required \ {<<t, o.column>>}
                    [] o.op = "not null" -> d.required \union {<<t, o.column>>}
                    [] OTHER -> d.required]

\* An operation does to the schema what NextSchema says, whatever the rows, and a row
\* stays in a table there is.
LEMMA EffectOnSchema ==
    ASSUME NEW d, IsDatabase(d), Tabled(d), NEW o, o.op \in Operations
    PROVE  /\ IsDatabase(Effect(d, o)) /\ Tabled(Effect(d, o))
           /\ Schema(Effect(d, o)) = NextSchema(d, o)
<1> DEFINE t == o.table
           e == Effect(d, o)
<1>0. DOMAIN d = {"tables", "columns", "refs", "keys", "checks", "required", "companies", "rows"}
  BY DatabaseFields
<1>1. \A r \in d.rows : "table" \in DOMAIN r /\ r.table \in d.tables
  BY DEF Tabled
<1>2. CASE o.op = "create"
  <2>1. e = [d EXCEPT !.tables = d.tables \union {t},
                      !.refs = d.refs \union {<<t, ref>> : ref \in o.refs},
                      !.keys = d.keys \union {<<t, key>> : key \in o.keys}]
    BY <1>2 DEF Effect
  <2> HIDE DEF e
  <2>2. /\ DOMAIN e = DOMAIN d /\ e.rows = d.rows /\ e.tables = d.tables \union {t}
        /\ e.columns = d.columns /\ e.refs = d.refs \union {<<t, ref>> : ref \in o.refs}
        /\ e.keys = d.keys \union {<<t, key>> : key \in o.keys}
        /\ e.checks = d.checks /\ e.required = d.required
    BY <2>1, <1>0
  <2>3. IsDatabase(e) /\ Tabled(e)
    BY <2>2, <1>0, <1>1, DatabaseFields DEF Tabled
  <2>4. Schema(e) = NextSchema(d, o)
    BY <2>2, <1>2 DEF Schema, NextSchema
  <2> QED
    BY <2>3, <2>4 DEF e
<1>3. CASE o.op = "drop"
  <2>1. e = [tables |-> d.tables \ {t}, columns |-> d.columns \ Of(t, d.columns),
            refs |-> d.refs \ Of(t, d.refs), keys |-> d.keys \ Of(t, d.keys),
            checks |-> d.checks \ Of(t, d.checks),
            required |-> d.required \ Of(t, d.required),
            companies |-> IF t = "companies" THEN <<>> ELSE d.companies,
            rows |-> d.rows \ RowsOf(d, t)]
    BY <1>3 DEF Effect
  <2>2. IsDatabase(e)
    BY <2>1 DEF IsDatabase, EmptyDatabase
  <2>3. Tabled(e)
    BY <2>1, <1>1 DEF Tabled, RowsOf
  <2>4. Schema(e) = NextSchema(d, o)
    BY <2>1, <1>3 DEF Schema, NextSchema
  <2> QED
    BY <2>2, <2>3, <2>4
<1>4. CASE o.op = "add column"
  <2>1. e = [d EXCEPT !.columns = d.columns \union {<<t, o.column>>},
                      !.rows = Updated(d, t, LAMBDA r : Put(r, o.column, None))]
    BY <1>4 DEF Effect
  <2> HIDE DEF e
  <2>2. /\ DOMAIN e = DOMAIN d /\ e.tables = d.tables
        /\ e.rows = {IF r.table = t THEN Put(r, o.column, None) ELSE r : r \in d.rows}
        /\ e.columns = d.columns \union {<<t, o.column>>} /\ e.refs = d.refs
        /\ e.keys = d.keys /\ e.checks = d.checks /\ e.required = d.required
    BY <2>1, <1>0 DEF Updated
  <2>3. IsDatabase(e) /\ Tabled(e)
    BY <2>2, <1>0, <1>1, DatabaseFields, RowsStayInTables DEF Tabled
  <2>4. Schema(e) = NextSchema(d, o)
    BY <2>2, <1>4 DEF Schema, NextSchema
  <2> QED
    BY <2>3, <2>4 DEF e
<1>5. CASE o.op = "drop column"
  <2>1. e = [d EXCEPT !.columns = d.columns \ {<<t, o.column>>},
                      !.required = d.required \ {<<t, o.column>>},
                      !.refs = d.refs \ On(t, o.column, d.refs),
                      !.rows = Updated(d, t, LAMBDA r : Without(r, o.column))]
    BY <1>5 DEF Effect
  <2> HIDE DEF e
  <2>2. /\ DOMAIN e = DOMAIN d /\ e.tables = d.tables
        /\ e.rows = {IF r.table = t THEN Without(r, o.column) ELSE r : r \in d.rows}
        /\ e.columns = d.columns \ {<<t, o.column>>}
        /\ e.refs = d.refs \ On(t, o.column, d.refs)
        /\ e.keys = d.keys /\ e.checks = d.checks /\ e.required = d.required \ {<<t, o.column>>}
    BY <2>1, <1>0 DEF Updated
  <2>3. IsDatabase(e) /\ Tabled(e)
    BY <2>2, <1>0, <1>1, DatabaseFields, RowsStayInTables DEF Tabled
  <2>4. Schema(e) = NextSchema(d, o)
    BY <2>2, <1>5 DEF Schema, NextSchema
  <2> QED
    BY <2>3, <2>4 DEF e
<1>6. CASE o.op = "add reference"
  <2>1. e = [d EXCEPT !.refs = d.refs \union {<<t, o.ref>>}]
    BY <1>6 DEF Effect
  <2> HIDE DEF e
  <2>2. /\ DOMAIN e = DOMAIN d /\ e.rows = d.rows
        /\ e.tables = d.tables /\ e.columns = d.columns /\ e.keys = d.keys
        /\ e.checks = d.checks /\ e.required = d.required /\ e.refs = d.refs \union {<<t, o.ref>>}
    BY <2>1, <1>0
  <2>3. IsDatabase(e) /\ Tabled(e)
    BY <2>2, <1>0, <1>1, DatabaseFields DEF Tabled
  <2>4. Schema(e) = NextSchema(d, o)
    BY <2>2, <1>6 DEF Schema, NextSchema
  <2> QED
    BY <2>3, <2>4 DEF e
<1>7. CASE o.op = "drop reference"
  <2>1. e = [d EXCEPT !.refs = d.refs \ On(t, o.column, d.refs)]
    BY <1>7 DEF Effect
  <2> HIDE DEF e
  <2>2. /\ DOMAIN e = DOMAIN d /\ e.rows = d.rows
        /\ e.tables = d.tables /\ e.columns = d.columns /\ e.keys = d.keys
        /\ e.checks = d.checks /\ e.required = d.required /\ e.refs = d.refs \ On(t, o.column, d.refs)
    BY <2>1, <1>0
  <2>3. IsDatabase(e) /\ Tabled(e)
    BY <2>2, <1>0, <1>1, DatabaseFields DEF Tabled
  <2>4. Schema(e) = NextSchema(d, o)
    BY <2>2, <1>7 DEF Schema, NextSchema
  <2> QED
    BY <2>3, <2>4 DEF e
<1>8. CASE o.op = "add key"
  <2>1. e = [d EXCEPT !.keys = d.keys \union {<<t, o.columns>>}]
    BY <1>8 DEF Effect
  <2> HIDE DEF e
  <2>2. /\ DOMAIN e = DOMAIN d /\ e.rows = d.rows
        /\ e.tables = d.tables /\ e.columns = d.columns /\ e.refs = d.refs
        /\ e.checks = d.checks /\ e.required = d.required /\ e.keys = d.keys \union {<<t, o.columns>>}
    BY <2>1, <1>0
  <2>3. IsDatabase(e) /\ Tabled(e)
    BY <2>2, <1>0, <1>1, DatabaseFields DEF Tabled
  <2>4. Schema(e) = NextSchema(d, o)
    BY <2>2, <1>8 DEF Schema, NextSchema
  <2> QED
    BY <2>3, <2>4 DEF e
<1>9. CASE o.op = "drop key"
  <2>1. e = [d EXCEPT !.keys = d.keys \ {<<t, o.columns>>}]
    BY <1>9 DEF Effect
  <2> HIDE DEF e
  <2>2. /\ DOMAIN e = DOMAIN d /\ e.rows = d.rows
        /\ e.tables = d.tables /\ e.columns = d.columns /\ e.refs = d.refs
        /\ e.checks = d.checks /\ e.required = d.required /\ e.keys = d.keys \ {<<t, o.columns>>}
    BY <2>1, <1>0
  <2>3. IsDatabase(e) /\ Tabled(e)
    BY <2>2, <1>0, <1>1, DatabaseFields DEF Tabled
  <2>4. Schema(e) = NextSchema(d, o)
    BY <2>2, <1>9 DEF Schema, NextSchema
  <2> QED
    BY <2>3, <2>4 DEF e
<1>10. CASE o.op = "add check"
  <2>1. e = [d EXCEPT !.checks = d.checks \union {<<t, o.column, o.values>>}]
    BY <1>10 DEF Effect
  <2> HIDE DEF e
  <2>2. /\ DOMAIN e = DOMAIN d /\ e.rows = d.rows
        /\ e.tables = d.tables /\ e.columns = d.columns /\ e.refs = d.refs
        /\ e.keys = d.keys /\ e.required = d.required /\ e.checks = d.checks \union {<<t, o.column, o.values>>}
    BY <2>1, <1>0
  <2>3. IsDatabase(e) /\ Tabled(e)
    BY <2>2, <1>0, <1>1, DatabaseFields DEF Tabled
  <2>4. Schema(e) = NextSchema(d, o)
    BY <2>2, <1>10 DEF Schema, NextSchema
  <2> QED
    BY <2>3, <2>4 DEF e
<1>11. CASE o.op = "drop check"
  <2>1. e = [d EXCEPT !.checks = d.checks \ {k \in Of(t, d.checks) : k[2] = o.column}]
    BY <1>11 DEF Effect
  <2> HIDE DEF e
  <2>2. /\ DOMAIN e = DOMAIN d /\ e.rows = d.rows
        /\ e.tables = d.tables /\ e.columns = d.columns /\ e.refs = d.refs
        /\ e.keys = d.keys /\ e.required = d.required /\ e.checks = d.checks \ {k \in Of(t, d.checks) : k[2] = o.column}
    BY <2>1, <1>0
  <2>3. IsDatabase(e) /\ Tabled(e)
    BY <2>2, <1>0, <1>1, DatabaseFields DEF Tabled
  <2>4. Schema(e) = NextSchema(d, o)
    BY <2>2, <1>11 DEF Schema, NextSchema
  <2> QED
    BY <2>3, <2>4 DEF e
<1>12. CASE o.op = "not null"
  <2>1. e = [d EXCEPT !.required = d.required \union {<<t, o.column>>}]
    BY <1>12 DEF Effect
  <2> HIDE DEF e
  <2>2. /\ DOMAIN e = DOMAIN d /\ e.rows = d.rows
        /\ e.tables = d.tables /\ e.columns = d.columns /\ e.refs = d.refs
        /\ e.keys = d.keys /\ e.checks = d.checks /\ e.required = d.required \union {<<t, o.column>>}
    BY <2>1, <1>0
  <2>3. IsDatabase(e) /\ Tabled(e)
    BY <2>2, <1>0, <1>1, DatabaseFields DEF Tabled
  <2>4. Schema(e) = NextSchema(d, o)
    BY <2>2, <1>12 DEF Schema, NextSchema
  <2> QED
    BY <2>3, <2>4 DEF e
<1>13. CASE o.op = "insert company"
  <2>1. e = [d EXCEPT !.companies = <<Legacy>>] \/ e = d
    BY <1>13 DEF Effect
  <2> HIDE DEF e
  <2>2. /\ DOMAIN e = DOMAIN d /\ e.rows = d.rows
        /\ e.tables = d.tables /\ e.columns = d.columns /\ e.refs = d.refs
        /\ e.keys = d.keys /\ e.checks = d.checks /\ e.required = d.required
    BY <2>1, <1>0
  <2>3. IsDatabase(e) /\ Tabled(e)
    BY <2>2, <1>0, <1>1, DatabaseFields DEF Tabled
  <2>4. Schema(e) = NextSchema(d, o)
    BY <2>2, <1>13 DEF Schema, NextSchema
  <2> QED
    BY <2>3, <2>4 DEF e
<1>14. CASE o.op = "fill from user"
  <2>1. e = [d EXCEPT !.rows = Updated(d, t, LAMBDA r :
               IF Unscoped(r) THEN Put(r, "company_id", CompanyOf(d, r.cells[o.column])) ELSE r)]
    BY <1>14 DEF Effect
  <2> HIDE DEF e
  <2>2. /\ DOMAIN e = DOMAIN d
        /\ e.rows = {IF r.table = t
                     THEN IF Unscoped(r) THEN Put(r, "company_id", CompanyOf(d, r.cells[o.column]))
                          ELSE r
                     ELSE r : r \in d.rows}
        /\ e.tables = d.tables /\ e.columns = d.columns /\ e.refs = d.refs
        /\ e.keys = d.keys /\ e.checks = d.checks /\ e.required = d.required
    BY <2>1, <1>0 DEF Updated
  <2>3. IsDatabase(e) /\ Tabled(e)
    BY <2>2, <1>0, <1>1, DatabaseFields, RowsStayInTables DEF Tabled
  <2>4. Schema(e) = NextSchema(d, o)
    BY <2>2, <1>14 DEF Schema, NextSchema
  <2> QED
    BY <2>3, <2>4 DEF e
<1>15. CASE o.op = "fill canonical"
  <2>1. e = [d EXCEPT !.rows = Updated(d, t, LAMBDA r :
               IF Unscoped(r) THEN Put(r, "company_id", Canonical(d)) ELSE r)]
    BY <1>15 DEF Effect
  <2> HIDE DEF e
  <2>2. /\ DOMAIN e = DOMAIN d
        /\ e.rows = {IF r.table = t
                     THEN IF Unscoped(r) THEN Put(r, "company_id", Canonical(d))
                          ELSE r
                     ELSE r : r \in d.rows}
        /\ e.tables = d.tables /\ e.columns = d.columns /\ e.refs = d.refs
        /\ e.keys = d.keys /\ e.checks = d.checks /\ e.required = d.required
    BY <2>1, <1>0 DEF Updated
  <2>3. IsDatabase(e) /\ Tabled(e)
    BY <2>2, <1>0, <1>1, DatabaseFields, RowsStayInTables DEF Tabled
  <2>4. Schema(e) = NextSchema(d, o)
    BY <2>2, <1>15 DEF Schema, NextSchema
  <2> QED
    BY <2>3, <2>4 DEF e
<1> QED
  BY <1>2, <1>3, <1>4, <1>5, <1>6, <1>7, <1>8, <1>9, <1>10, <1>11, <1>12, <1>13, <1>14, <1>15
  DEF Operations

LEMMA NextSchemaOf ==
    ASSUME NEW d, NEW e, Schema(d) = Schema(e), NEW o
    PROVE  NextSchema(d, o) = NextSchema(e, o)
<1>1. /\ d.tables = e.tables /\ d.columns = e.columns /\ d.refs = e.refs
      /\ d.keys = e.keys /\ d.checks = e.checks /\ d.required = e.required
  BY SchemaParts
<1> QED
  BY <1>1 DEF NextSchema

-----------------------------------------------------------------------------
(* The schema: a script *)

IsRun(run) ==
    /\ DOMAIN run = {"db", "stopped"} /\ run.stopped \in {"no", "schema", "data"}
    /\ IsDatabase(run.db) /\ Tabled(run.db)

\* A run with rows goes as the run without, unless it stops on its data.
GoesAs(run, bare) ==
    bare.stopped = "no" =>
        \/ run.stopped = "data"
        \/ run.stopped = "no" /\ Schema(run.db) = Schema(bare.db)

LEMMA StepsAlike ==
    ASSUME NEW run, IsRun(run), NEW bare, IsRun(bare), GoesAs(run, bare),
           NEW o, o.op \in Operations
    PROVE  /\ IsRun(Step(run, o)) /\ IsRun(Step(bare, o))
           /\ GoesAs(Step(run, o), Step(bare, o))
<1>1. ASSUME NEW x, IsRun(x)
      PROVE  /\ IsRun(Step(x, o))
             /\ x.stopped # "no" => Step(x, o) = x
             /\ Step(x, o).stopped = "no" =>
                  Applicable(x.db, o) /\ Schema(Step(x, o).db) = NextSchema(x.db, o)
             /\ x.stopped = "no" /\ Applicable(x.db, o) => Step(x, o).stopped \in {"no", "data"}
  <2>1. /\ IsDatabase(Effect(x.db, o)) /\ Tabled(Effect(x.db, o))
        /\ Schema(Effect(x.db, o)) = NextSchema(x.db, o)
    BY <1>1, EffectOnSchema DEF IsRun
  <2>2. CASE x.stopped # "no"
    BY <1>1, <2>2 DEF Step
  <2>3. CASE x.stopped = "no" /\ ~Applicable(x.db, o)
    <3>1. Step(x, o) = [x EXCEPT !.stopped = "schema"]
      BY <2>3 DEF Step
    <3>2. DOMAIN Step(x, o) = DOMAIN x /\ Step(x, o).stopped = "schema" /\ Step(x, o).db = x.db
      BY <3>1, <1>1 DEF IsRun
    <3> QED
      BY <3>2, <1>1, <2>3 DEF IsRun
  <2>4. CASE x.stopped = "no" /\ Applicable(x.db, o) /\ ~Satisfied(x.db, o)
    <3>1. Step(x, o) = [x EXCEPT !.stopped = "data"]
      BY <2>4 DEF Step
    <3>2. DOMAIN Step(x, o) = DOMAIN x /\ Step(x, o).stopped = "data" /\ Step(x, o).db = x.db
      BY <3>1, <1>1 DEF IsRun
    <3> QED
      BY <3>2, <1>1, <2>4 DEF IsRun
  <2>5. CASE x.stopped = "no" /\ Applicable(x.db, o) /\ Satisfied(x.db, o)
    <3>1. Step(x, o) = [x EXCEPT !.db = Effect(x.db, o)]
      BY <2>5 DEF Step
    <3>2. DOMAIN Step(x, o) = DOMAIN x /\ Step(x, o).stopped = "no"
          /\ Step(x, o).db = Effect(x.db, o)
      BY <3>1, <1>1, <2>5 DEF IsRun
    <3> QED
      BY <3>2, <1>1, <2>1, <2>5 DEF IsRun
  <2> QED
    BY <2>2, <2>3, <2>4, <2>5
<1>2. IsRun(Step(run, o)) /\ IsRun(Step(bare, o))
  BY <1>1
<1>3. ASSUME Step(bare, o).stopped = "no"
      PROVE  \/ Step(run, o).stopped = "data"
             \/ Step(run, o).stopped = "no" /\ Schema(Step(run, o).db) = Schema(Step(bare, o).db)
  <2>1. bare.stopped = "no" /\ Applicable(bare.db, o)
        /\ Schema(Step(bare, o).db) = NextSchema(bare.db, o)
    BY <1>1, <1>3
  <2>2. CASE run.stopped = "data"
    BY <1>1, <2>2
  <2>3. CASE run.stopped = "no" /\ Schema(run.db) = Schema(bare.db)
    <3>1. Applicable(run.db, o)
      BY <2>1, <2>3, SchemaDecides
    <3>2. NextSchema(run.db, o) = NextSchema(bare.db, o)
      BY <2>3, NextSchemaOf
    <3> QED
      BY <3>1, <3>2, <2>1, <2>3, <1>1
  <2> QED
    BY <2>1, <2>2, <2>3 DEF GoesAs
<1> QED
  BY <1>2, <1>3 DEF GoesAs

\* Induction on the natural numbers, of a set.
LEMMA NaturalsBySteps ==
    ASSUME NEW S, 0 \in S, \A n \in Nat : n \in S => n + 1 \in S
    PROVE  \A n \in Nat : n \in S
<1> DEFINE T == Nat \ S
<1> SUFFICES ASSUME T # {} PROVE FALSE
    OBVIOUS
<1>1. PICK n \in T : \A m \in T : <<m, n>> \notin OpToRel(<, Nat)
    <2>1. T \subseteq Nat
        OBVIOUS
    <2> HIDE DEF T
    <2> QED BY <2>1, WFMin, NatLessThanWellFounded
<1>2. \A m \in T : ~(m < n)
    BY <1>1 DEF OpToRel
<1>3. n # 0 /\ n \in Nat
    OBVIOUS
<1>4. n - 1 \in Nat /\ n - 1 < n /\ (n - 1) + 1 = n
    BY <1>3
<1> QED BY <1>2, <1>4

\* What a script has come to after i operations, given what it came to before by f.
After(f, db, ops, i) == IF i = 0 THEN {[db |-> db, stopped |-> "no"]}
                        ELSE {Step(run, ops[i]) : run \in f[i - 1]}

\* There is a function of what a script has come to.
LEMMA ScriptRuns ==
    ASSUME NEW db, NEW ops, Len(ops) \in Nat
    PROVE  \E f : /\ \A i \in 0 .. Len(ops) : f[i] = After(f, db, ops, i)
                  /\ RunScript(db, ops) = CHOOSE run \in f[Len(ops)] : TRUE
<1> DEFINE n == Len(ops)
           Solves(f, k) == f = [i \in 0 .. k |-> After(f, db, ops, i)]
           S == {k \in Nat : \E f : Solves(f, k)}
<1>0. ASSUME NEW f, NEW g, NEW i \in Nat, i # 0 => f[i - 1] = g[i - 1]
      PROVE  After(f, db, ops, i) = After(g, db, ops, i)
  BY <1>0 DEF After
<1>1. 0 \in S
  <2> DEFINE f == [i \in 0 .. 0 |-> After(<<>>, db, ops, i)]
  <2>1. \A i \in 0 .. 0 : After(<<>>, db, ops, i) = After(f, db, ops, i)
    BY <1>0
  <2>2. Solves(f, 0)
    <3> HIDE DEF f
    <3>1. [i \in 0 .. 0 |-> After(<<>>, db, ops, i)] = [i \in 0 .. 0 |-> After(f, db, ops, i)]
      BY <2>1
    <3> QED BY <3>1 DEF f
  <2> QED BY <2>2, Zenon
<1>2. ASSUME NEW k \in Nat, k \in S PROVE k + 1 \in S
  <2>1. PICK f : Solves(f, k)
    BY <1>2
  <2> DEFINE h == [i \in 0 .. k + 1 |-> After(f, db, ops, i)]
  <2>2. \A i \in 0 .. k + 1 : After(f, db, ops, i) = After(h, db, ops, i)
    <3> TAKE i \in 0 .. k + 1
    <3>1. ASSUME i # 0 PROVE f[i - 1] = h[i - 1]
      <4>1. i - 1 \in 0 .. k /\ i - 1 \in 0 .. k + 1
        BY <3>1
      <4>2. f[i - 1] = After(f, db, ops, i - 1)
        BY <2>1, <4>1
      <4> QED BY <4>1, <4>2
    <3> HIDE DEF h
    <3> QED BY <3>1, <1>0
  <2>3. Solves(h, k + 1)
    <3> HIDE DEF h
    <3>1. [i \in 0 .. k + 1 |-> After(f, db, ops, i)] = [i \in 0 .. k + 1 |-> After(h, db, ops, i)]
      BY <2>2
    <3> QED BY <3>1 DEF h
  <2>4. k + 1 \in Nat
    OBVIOUS
  <2> HIDE DEF h
  <2> QED BY <2>3, <2>4, Zenon
<1>3. n \in S
  <2> HIDE DEF S
  <2> QED BY <1>1, <1>2, NaturalsBySteps
<1> DEFINE runs == CHOOSE f : Solves(f, n)
<1>4. Solves(runs, n)
  BY <1>3
<1>5. RunScript(db, ops) = CHOOSE run \in runs[n] : TRUE
  BY DEF RunScript, After
<1> HIDE DEF runs
<1> QED BY <1>4, <1>5

\* Whatever the rows, a script that runs without any stops on nothing but its data, and
\* otherwise ends with the same schema.
LEMMA ScriptOnRows ==
    ASSUME NEW db, IsDatabase(db), Tabled(db),
           NEW bare, IsDatabase(bare), bare.rows = {}, Schema(bare) = Schema(db),
           NEW script, IsScript(script), NEW schema, LeadsTo(bare, script, schema),
           NEW run, run = RunScript(db, script)
    PROVE  /\ IsRun(run) /\ run.stopped \in {"no", "data"}
           /\ run.stopped = "no" => Schema(run.db) = schema
<1> DEFINE n == Len(script)
           first(d) == [db |-> d, stopped |-> "no"]
<1>0. n \in Nat /\ \A i \in 1 .. n : script[i].op \in Operations
  BY DEF IsScript
<1>1. PICK f : /\ \A i \in 0 .. n : f[i] = After(f, db, script, i)
               /\ RunScript(db, script) = CHOOSE x \in f[n] : TRUE
  BY <1>0, ScriptRuns
<1>2. PICK g : /\ \A i \in 0 .. n : g[i] = After(g, bare, script, i)
               /\ RunScript(bare, script) = CHOOSE x \in g[n] : TRUE
  BY <1>0, ScriptRuns
<1> HIDE DEF n
<1> DEFINE Together(i) == \E x, y : /\ f[i] = {x} /\ g[i] = {y}
                                    /\ IsRun(x) /\ IsRun(y) /\ GoesAs(x, y)
           S == {i \in Nat : i <= n => Together(i)}
<1>3. 0 \in S
  <2>1. f[0] = {first(db)} /\ g[0] = {first(bare)}
    <3>1. 0 \in 0 .. n
      BY <1>0
    <3>2. f[0] = After(f, db, script, 0) /\ g[0] = After(g, bare, script, 0)
      BY <1>1, <1>2, <3>1
    <3> QED BY <3>2, Zenon DEF After
  <2>2. IsRun(first(db)) /\ IsRun(first(bare))
    BY DEF IsRun, Tabled
  <2>3. GoesAs(first(db), first(bare))
    BY DEF GoesAs
  <2> HIDE DEF first
  <2>4. Together(0)
    BY <2>1, <2>2, <2>3
  <2> HIDE DEF Together
  <2> QED BY <2>4
<1>4. ASSUME NEW i \in Nat, i \in S PROVE i + 1 \in S
  <2> SUFFICES ASSUME i + 1 <= n PROVE Together(i + 1)
    BY DEF S
  <2>1. PICK x, y : /\ f[i] = {x} /\ g[i] = {y}
                    /\ IsRun(x) /\ IsRun(y) /\ GoesAs(x, y)
    BY <1>0, <1>4
  <2>2. script[i + 1].op \in Operations /\ i + 1 \in 0 .. n /\ (i + 1) - 1 = i /\ i + 1 # 0
    BY <1>0
  <2>3. f[i + 1] = {Step(x, script[i + 1])} /\ g[i + 1] = {Step(y, script[i + 1])}
    <3>1. /\ f[i + 1] = {Step(r, script[i + 1]) : r \in f[i]}
          /\ g[i + 1] = {Step(r, script[i + 1]) : r \in g[i]}
      BY <1>1, <1>2, <2>2 DEF After
    <3> QED BY <3>1, <2>1
  <2>4. /\ IsRun(Step(x, script[i + 1])) /\ IsRun(Step(y, script[i + 1]))
        /\ GoesAs(Step(x, script[i + 1]), Step(y, script[i + 1]))
    BY <2>1, <2>2, StepsAlike
  <2> QED BY <2>3, <2>4
<1>5. Together(n)
  <2> HIDE DEF Together
  <2>1. \A i \in Nat : i \in S
    <3> HIDE DEF S
    <3> QED BY <1>3, <1>4, NaturalsBySteps
  <2> QED BY <2>1, <1>0
<1>6. PICK x, y : /\ f[n] = {x} /\ g[n] = {y} /\ IsRun(x) /\ IsRun(y) /\ GoesAs(x, y)
  BY <1>5
<1>7. run = x /\ RunScript(bare, script) = y
  BY <1>1, <1>2, <1>6
<1>8. y.stopped = "no" /\ Schema(y.db) = schema
  BY <1>7 DEF LeadsTo
<1> QED
  BY <1>6, <1>7, <1>8 DEF GoesAs

-----------------------------------------------------------------------------
(* The schema: the inductive invariant *)

\* A database at a revision: its rows are in tables it has, and its schema is that of an
\* empty one upgraded that far.
AtRevision(db, k) ==
    /\ k \in 0 .. Len(Upgrades)
    /\ IsDatabase(db) /\ Tabled(db) /\ Schema(db) = Schema(Revised[k])

SchemaInv ==
    /\ AtRevision(database, revision)
    /\ attempt \in [to : 0 .. Len(Upgrades), stopped : {"no", "data"}]
    /\ command # NoCommand => /\ command.to \in Stops \ {revision}
                              /\ AtRevision(command.database, command.revision)

LEMMA ChainLength == Len(Upgrades) \in Nat
  BY DEF Upgrades

LEMMA RevisedHasNoRows ==
    \A k \in 0 .. Len(Upgrades) : IsDatabase(Revised[k]) /\ Revised[k].rows = {}
<1> TAKE k \in 0 .. Len(Upgrades)
<1>1. CASE k = 0
  <2>1. Revised[0] = EmptyDatabase
    BY ChainAssumption DEF ChainIsSound
  <2> QED BY <1>1, <2>1 DEF IsDatabase, EmptyDatabase
<1>2. CASE k # 0
  <2>1. k \in 1 .. Len(Upgrades)
    BY <1>2, ChainLength
  <2>2. PICK before \in {Revised[k - 1]}, after \in {Revised[k]} :
          IsDatabase(after) /\ after.rows = {}
    BY <2>1, ChainAssumption DEF ChainIsSound
  <2> QED BY <2>2
<1> QED BY <1>1, <1>2

\* A migration takes a database from a revision to the next, or stops on its rows.
LEMMA MigrateKeeps ==
    ASSUME SchemaInv, command # NoCommand, NEW script, IsScript(script),
           NEW next \in 0 .. Len(Upgrades), NEW bare, IsDatabase(bare), bare.rows = {},
           Schema(bare) = Schema(Revised[revision]),
           LeadsTo(bare, script, Schema(Revised[next])), Migrate(script, next)
    PROVE  SchemaInv'
<1> DEFINE run == RunScript(database, script)
<1>1. /\ IsRun(run) /\ run.stopped \in {"no", "data"}
      /\ run.stopped = "no" => Schema(run.db) = Schema(Revised[next])
  <2>1. IsDatabase(database) /\ Tabled(database) /\ Schema(bare) = Schema(database)
    BY DEF SchemaInv, AtRevision
  <2> QED BY <2>1, ScriptOnRows
<1>2. /\ command.to \in Stops \ {revision} /\ AtRevision(command.database, command.revision)
      /\ command.to \in 0 .. Len(Upgrades)
      /\ attempt \in [to : 0 .. Len(Upgrades), stopped : {"no", "data"}]
  BY StopsAssumption DEF SchemaInv
<1>3. \/ /\ run.stopped # "no" /\ RollBack /\ command' = NoCommand
         /\ attempt' = [to |-> command.to, stopped |-> run.stopped]
      \/ /\ run.stopped = "no" /\ database' = run.db /\ revision' = next
         /\ command' = IF next = command.to THEN NoCommand ELSE command
         /\ attempt' = IF next = command.to THEN [to |-> next, stopped |-> "no"] ELSE attempt
  BY DEF Migrate
<1> HIDE DEF run
<1>4. CASE run.stopped # "no" /\ RollBack /\ command' = NoCommand
           /\ attempt' = [to |-> command.to, stopped |-> run.stopped]
  BY <1>1, <1>2, <1>4 DEF SchemaInv, AtRevision, RollBack
<1>5. CASE /\ run.stopped = "no" /\ database' = run.db /\ revision' = next
           /\ command' = IF next = command.to THEN NoCommand ELSE command
           /\ attempt' = IF next = command.to THEN [to |-> next, stopped |-> "no"] ELSE attempt
  <2>1. AtRevision(database', revision')
    BY <1>1, <1>5 DEF AtRevision, IsRun
  <2>2. attempt' \in [to : 0 .. Len(Upgrades), stopped : {"no", "data"}]
    BY <1>2, <1>5
  <2>3. command' # NoCommand => /\ command'.to \in Stops \ {revision'}
                                /\ AtRevision(command'.database, command'.revision)
    BY <1>2, <1>5
  <2> QED BY <2>1, <2>2, <2>3 DEF SchemaInv, AtRevision
<1> QED BY <1>3, <1>4, <1>5

LEMMA RowKeeps ==
    ASSUME SchemaInv, NEW row, "table" \in DOMAIN row, row.table \in database.tables,
           database' = [database EXCEPT !.rows = @ \union {row}],
           UNCHANGED <<revision, command, attempt>>
    PROVE  SchemaInv'
<1>1. DOMAIN database = {"tables", "columns", "refs", "keys", "checks", "required",
                         "companies", "rows"} /\ Tabled(database)
  BY DatabaseFields DEF SchemaInv, AtRevision
<1>2. /\ DOMAIN database' = DOMAIN database /\ database'.rows = database.rows \union {row}
      /\ database'.tables = database.tables /\ database'.columns = database.columns
      /\ database'.refs = database.refs /\ database'.keys = database.keys
      /\ database'.checks = database.checks /\ database'.required = database.required
  BY <1>1
<1>3. Schema(database') = Schema(database) /\ IsDatabase(database') /\ Tabled(database')
  BY <1>1, <1>2, DatabaseFields DEF Schema, Tabled
<1> QED BY <1>3 DEF SchemaInv, AtRevision

LEMMA SchemaStep == SchemaInv /\ [Next]_vars => SchemaInv'
<1> SUFFICES ASSUME SchemaInv, [Next]_vars PROVE SchemaInv'
  OBVIOUS
<1>0. AtRevision(database, revision) /\ revision \in 0 .. Len(Upgrades) /\ Len(Upgrades) \in Nat
  BY ChainLength DEF SchemaInv, AtRevision
<1>1. ASSUME NEW to \in Stops, Begin(to) PROVE SchemaInv'
  BY <1>1 DEF SchemaInv, Begin, AtRevision
<1>2. CASE Upgrade
  <2> DEFINE k == revision + 1
  <2>1. k \in 1 .. Len(Upgrades) /\ k - 1 = revision /\ k \in 0 .. Len(Upgrades)
    <3>1. command.to \in 0 .. Len(Upgrades)
      BY <1>2, StopsAssumption DEF Upgrade, SchemaInv
    <3> QED BY <1>0, <1>2, <3>1 DEF Upgrade
  <2>2. command # NoCommand /\ Migrate(Upgrades[k], k)
    BY <1>2 DEF Upgrade
  <2> HIDE DEF k
  <2>3. PICK before \in {Revised[k - 1]}, after \in {Revised[k]} :
          /\ IsScript(Upgrades[k]) /\ LeadsTo(before, Upgrades[k], Schema(after))
    BY <2>1, ChainAssumption DEF ChainIsSound
  <2>4. IsDatabase(Revised[revision]) /\ Revised[revision].rows = {}
    BY <1>0, RevisedHasNoRows
  <2>5. LeadsTo(Revised[revision], Upgrades[k], Schema(Revised[k]))
    BY <2>1, <2>3
  <2> QED BY <2>1, <2>2, <2>3, <2>4, <2>5, MigrateKeeps
<1>3. CASE Downgrade
  <2> DEFINE k == revision
  <2>1. k \in 1 .. Len(Upgrades) /\ k - 1 \in 0 .. Len(Upgrades)
    <3>1. command.to \in 0 .. Len(Upgrades)
      BY <1>3, StopsAssumption DEF Downgrade, SchemaInv
    <3> QED BY <1>0, <1>3, <3>1 DEF Downgrade
  <2>2. command # NoCommand /\ Migrate(Downgrades[k], k - 1)
    BY <1>3 DEF Downgrade
  <2>3. PICK before \in {Revised[k - 1]}, after \in {Revised[k]} :
          /\ IsScript(Downgrades[k]) /\ LeadsTo(after, Downgrades[k], Schema(before))
    BY <2>1, ChainAssumption DEF ChainIsSound
  <2>4. IsDatabase(Revised[k]) /\ Revised[k].rows = {}
    BY <1>0, RevisedHasNoRows
  <2>5. LeadsTo(Revised[k], Downgrades[k], Schema(Revised[k - 1]))
    BY <2>3
  <2> QED BY <2>1, <2>2, <2>3, <2>4, <2>5, MigrateKeeps
<1>4. ASSUME NEW c \in Companies, CreateCompany(c) PROVE SchemaInv'
  <2>1. database' = [database EXCEPT !.companies = Append(@, c)]
        /\ UNCHANGED <<revision, command, attempt>>
    BY <1>4 DEF CreateCompany
  <2>2. DOMAIN database = {"tables", "columns", "refs", "keys", "checks", "required",
                           "companies", "rows"} /\ Tabled(database)
    BY <1>0, DatabaseFields DEF AtRevision
  <2>3. /\ DOMAIN database' = DOMAIN database /\ database'.rows = database.rows
        /\ database'.tables = database.tables /\ database'.columns = database.columns
        /\ database'.refs = database.refs /\ database'.keys = database.keys
        /\ database'.checks = database.checks /\ database'.required = database.required
    BY <2>1, <2>2
  <2>4. Schema(database') = Schema(database) /\ IsDatabase(database') /\ Tabled(database')
    BY <2>2, <2>3, DatabaseFields DEF Schema, Tabled
  <2> QED BY <2>1, <2>4 DEF SchemaInv, AtRevision
<1>5. ASSUME NEW t \in RowTables \union {"users"}, Insert(t) PROVE SchemaInv'
  <2>1. PICK cells \in Cells(t) : \E row \in Scoped(t, cells) :
          database' = [database EXCEPT !.rows = @ \union {row}]
    BY <1>5 DEF Insert
  <2>2. PICK row \in Scoped(t, cells) : database' = [database EXCEPT !.rows = @ \union {row}]
    BY <2>1
  <2>3. t \in database.tables /\ UNCHANGED <<revision, command, attempt>>
    BY <1>5 DEF Insert
  <2>4. "table" \in DOMAIN row /\ row.table = t
    <3> DEFINE r == [table |-> t, cells |-> cells]
    <3>1. "table" \in DOMAIN r /\ r.table = t
      OBVIOUS
    <3>2. row = r \/ \E c : row = Put(r, "company_id", c)
      BY <2>2 DEF Scoped
    <3> HIDE DEF r
    <3> QED BY <3>1, <3>2, RowsStayInTables
  <2> QED BY <2>2, <2>3, <2>4, RowKeeps
<1>6. CASE UNCHANGED vars
  BY <1>6 DEF SchemaInv, vars, AtRevision
<1> QED BY <1>1, <1>2, <1>3, <1>4, <1>5, <1>6 DEF Next

LEMMA SchemaBegins == Init => SchemaInv
<1> SUFFICES ASSUME Init PROVE SchemaInv
  OBVIOUS
<1>1. Revised[0] = EmptyDatabase
  BY ChainAssumption DEF ChainIsSound
<1>2. 0 \in 0 .. Len(Upgrades)
  BY ChainLength
<1>3. IsDatabase(EmptyDatabase) /\ Tabled(EmptyDatabase)
  BY DEF IsDatabase, Tabled, EmptyDatabase
<1> QED BY <1>1, <1>2, <1>3 DEF Init, SchemaInv, AtRevision

\* For any rows: a command never stops because of the schema, and the schema is that of
\* the revision, at the last revision the declared one.
THEOREM SchemaSoundness == Spec => []SchemaIsSound
<1>1. SchemaInv => SchemaIsSound
  <2> SUFFICES ASSUME SchemaInv PROVE SchemaIsSound
    OBVIOUS
  <2>1. TypeOK
    BY DEF TypeOK, SchemaInv, AtRevision, Tabled
  <2>2. SchemaNeverStops
    BY DEF SchemaNeverStops, SchemaInv
  <2>3. SchemaFollowsRevision
    BY DEF SchemaFollowsRevision, SchemaAt, SchemaInv, AtRevision
  <2>4. HeadIsDeclared
    <3>1. ASSUME Schema(database) = Schema(Revised[Len(Upgrades)]) PROVE IsDeclared(database)
      BY <3>1, SchemaParts, HeadAssumption DEF IsDeclared
    <3> QED BY <3>1 DEF SchemaInv, AtRevision, HeadIsDeclared
  <2> QED BY <2>1, <2>2, <2>3, <2>4 DEF SchemaIsSound
<1> QED BY <1>1, SchemaBegins, SchemaStep, PTL DEF Spec
=============================================================================
