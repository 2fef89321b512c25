---------------------------- MODULE StoresProofs ----------------------------
(***************************************************************************)
(* Proofs about the services that keep something (MCServices): files,      *)
(* tokens of the superadmin, the records of a tenant and the data banks,   *)
(* each for any number of requests, rows and tokens.  ServicesProofs goes  *)
(* on with the others and states what holds side by side.                  *)
(***************************************************************************)
EXTENDS MCServices, Subsequences, Integers, TLAPS, FiniteSetTheorems, FunctionTheorems

-----------------------------------------------------------------------------
(***************************************************************************)
(* Subsequences.  The ranks of the places of a list are 1, 2 and so on:    *)
(* they are as many as the places, and no two places have the same.        *)
(***************************************************************************)
LEMMA RankBijective ==
    ASSUME NEW n \in Nat, NEW I \in SUBSET (1..n)
    PROVE  /\ Cardinality(I) \in Nat
           /\ \A i \in I : Rank(I, i) \in 1..Cardinality(I)
           /\ \A i, j \in I : i < j => Rank(I, i) < Rank(I, j)
           /\ \A k \in 1..Cardinality(I) : \E i \in I : Rank(I, i) = k
<1> DEFINE Upto(i) == {j \in I : j <= i}
           c == Cardinality(I)
           rank == [i \in I |-> Rank(I, i)]
<1>1. IsFiniteSet(I) /\ c \in Nat
  <2>1. IsFiniteSet(1..n)
    BY FS_Interval
  <2>2. IsFiniteSet(I)
    BY <2>1, FS_Subset
  <2> QED
    BY <2>2, FS_CardinalityType
<1>2. \A i \in I : IsFiniteSet(Upto(i)) /\ Cardinality(Upto(i)) \in Nat /\ Cardinality(Upto(i)) <= c
  <2> TAKE i \in I
  <2>1. Upto(i) \in SUBSET I
    OBVIOUS
  <2> QED
    BY <1>1, <2>1, FS_Subset, FS_CardinalityType
<1>3. \A i, j \in I : i < j => Cardinality(Upto(i)) < Cardinality(Upto(j))
  <2> SUFFICES ASSUME NEW i \in I, NEW j \in I, i < j
               PROVE  Cardinality(Upto(i)) < Cardinality(Upto(j))
    OBVIOUS
  <2>1. Upto(i) \in SUBSET Upto(j) /\ j \in Upto(j) /\ j \notin Upto(i)
    <3>1. \A l \in I : l \in Int
      OBVIOUS
    <3>2. \A l \in Upto(i) : l \in I /\ l <= j
      BY <3>1
    <3>3. i \in Int /\ j \in Int
      BY <3>1
    <3>4. Upto(i) \subseteq Upto(j)
      BY <3>2
    <3>5. j \in Upto(j) /\ j \notin Upto(i)
      BY <3>3
    <3> QED
      BY <3>4, <3>5
  <2>2. Cardinality(Upto(i)) <= Cardinality(Upto(j)) /\ Cardinality(Upto(i)) # Cardinality(Upto(j))
    BY <1>2, <2>1, FS_Subset
  <2> QED
    BY <1>2, <2>2
<1>4. \A i \in I : Cardinality(Upto(i)) >= 1
  <2> TAKE i \in I
  <2>1. i \in Upto(i)
    OBVIOUS
  <2>2. Cardinality(Upto(i)) # 0
    BY <1>2, <2>1, FS_EmptySet
  <2> QED
    BY <1>2, <2>2
<1>5. \A i \in I : Rank(I, i) = Cardinality(Upto(i))
  BY DEF Rank
<1> HIDE DEF Upto, c
<1>6. \A i \in I : Rank(I, i) \in 1..c
  BY <1>1, <1>2, <1>4, <1>5
<1>7. \A i, j \in I : i < j => Rank(I, i) < Rank(I, j)
  BY <1>3, <1>5
<1>8. rank \in Injection(I, 1..c)
  <2>1. rank \in [I -> 1..c]
    BY <1>6
  <2>2. \A i, j \in I : rank[i] = rank[j] => i = j
    <3> SUFFICES ASSUME NEW i \in I, NEW j \in I, Rank(I, i) = Rank(I, j)
                 PROVE  i = j
      OBVIOUS
    <3>1. i \in Int /\ j \in Int /\ Rank(I, i) \in Int
      BY <1>1, <1>6
    <3> QED
      BY <1>7, <3>1
  <2> HIDE DEF rank
  <2> QED
    BY <2>1, <2>2, Fun_IsInj
<1>9. IsFiniteSet(1..c) /\ Cardinality(1..c) = c
  BY <1>1, FS_Interval
<1>10. rank \in Surjection(I, 1..c)
  BY <1>8, <1>9, FS_Injection DEF c
<1>11. \A k \in 1..c : \E i \in I : rank[i] = k
  <2> HIDE DEF rank
  <2> QED
    BY <1>10, Fun_SurjectionProperties
<1> QED
  BY <1>1, <1>6, <1>7, <1>11 DEF c

(***************************************************************************)
(* A subsequence is a sequence of elements of the list, in the order of    *)
(* their places, and has every element whose place is kept.                *)
(***************************************************************************)
LEMMA SubsequenceFacts ==
    ASSUME NEW S, NEW s \in Seq(S), NEW I \in SUBSET (1..Len(s))
    PROVE  /\ Subsequence(s, I) \in Seq(S)
           /\ Len(Subsequence(s, I)) = Cardinality(I) /\ Cardinality(I) \in Nat
           /\ \A i \in I : \E k \in 1..Len(Subsequence(s, I)) : Subsequence(s, I)[k] = s[i]
           /\ \A k, m \in 1..Len(Subsequence(s, I)) : k < m =>
                  \E i, j \in I : i < j /\ Subsequence(s, I)[k] = s[i] /\ Subsequence(s, I)[m] = s[j]
           /\ \A k \in 1..Len(Subsequence(s, I)) : \E i \in I : Subsequence(s, I)[k] = s[i]
<1> DEFINE c == Cardinality(I)
           Place(k) == CHOOSE i \in I : Rank(I, i) = k
           sub == Subsequence(s, I)
<1>1. Len(s) \in Nat
  OBVIOUS
<1>2. /\ c \in Nat
      /\ \A i \in I : Rank(I, i) \in 1..c
      /\ \A i, j \in I : i < j => Rank(I, i) < Rank(I, j)
      /\ \A k \in 1..c : \E i \in I : Rank(I, i) = k
  BY <1>1, RankBijective
<1>3. sub = [k \in 1..c |-> s[Place(k)]]
  BY DEF Subsequence
<1>4. \A k \in 1..c : Place(k) \in I /\ Rank(I, Place(k)) = k
  BY <1>2
<1>5. \A i \in I : s[i] \in S /\ i \in Int
  OBVIOUS
<1> HIDE DEF c, Place, sub
<1>6. sub \in Seq(S) /\ Len(sub) = c
  <2>1. \A k \in 1..c : s[Place(k)] \in S
    BY <1>4, <1>5
  <2> QED
    BY <1>2, <1>3, <2>1
<1>7. \A k \in 1..c : sub[k] = s[Place(k)]
  BY <1>3
<1>8. \A i \in I : \E k \in 1..c : sub[k] = s[i]
  <2> TAKE i \in I
  <2>1. Rank(I, i) \in 1..c /\ Place(Rank(I, i)) \in I /\ Rank(I, Place(Rank(I, i))) = Rank(I, i)
    BY <1>2, <1>4
  <2>2. Place(Rank(I, i)) = i
    <3> DEFINE p == Place(Rank(I, i))
    <3>1. p \in I /\ p \in Int /\ i \in Int /\ Rank(I, p) = Rank(I, i)
      BY <1>5, <2>1
    <3>2. Rank(I, i) \in 1..c
      BY <2>1
    <3> HIDE DEF p
    <3>3. Rank(I, i) \in Int
      BY <1>2, <3>2
    <3>4. p = i
      BY <1>2, <3>1, <3>3
    <3> QED
      BY <3>4 DEF p
  <2> QED
    BY <1>7, <2>1, <2>2
<1>9. \A k, m \in 1..c : k < m => Place(k) < Place(m)
  <2> SUFFICES ASSUME NEW k \in 1..c, NEW m \in 1..c, k < m
               PROVE  Place(k) < Place(m)
    OBVIOUS
  <2>1. /\ Place(k) \in I /\ Place(m) \in I /\ Place(k) \in Int /\ Place(m) \in Int
        /\ Rank(I, Place(k)) = k /\ Rank(I, Place(m)) = m
    BY <1>4, <1>5
  <2>2. Place(m) < Place(k) => m < k
    BY <1>2, <2>1
  <2>3. k \in Int /\ m \in Int /\ k # m
    OBVIOUS
  <2> QED
    BY <2>1, <2>2, <2>3
<1>10. \A k \in 1..c : \E i \in I : sub[k] = s[i]
  BY <1>4, <1>7
<1>11. \A k, m \in 1..c : k < m =>
           \E i, j \in I : i < j /\ sub[k] = s[i] /\ sub[m] = s[j]
  BY <1>4, <1>7, <1>9
<1>12. c = Cardinality(I) /\ sub = Subsequence(s, I)
  BY DEF c, sub
<1>13. c \in Nat
  BY <1>2
<1>14. /\ Subsequence(s, I) \in Seq(S) /\ Len(Subsequence(s, I)) = c
       /\ c = Cardinality(I) /\ Cardinality(I) \in Nat
  BY <1>6, <1>12, <1>13
<1>15. \A i \in I : \E k \in 1..c : Subsequence(s, I)[k] = s[i]
  BY <1>8, <1>12
<1>16. \A k, m \in 1..c : k < m =>
           \E i, j \in I : i < j /\ Subsequence(s, I)[k] = s[i] /\ Subsequence(s, I)[m] = s[j]
  BY <1>11, <1>12
<1>17. \A k \in 1..c : \E i \in I : Subsequence(s, I)[k] = s[i]
  BY <1>10, <1>12
<1> QED
  BY <1>14, <1>15, <1>16, <1>17

-----------------------------------------------------------------------------
(***************************************************************************)
(* The storage.  The invariant says what an upload that is under way has   *)
(* to show for itself: exactly the files that are not left, in the backend *)
(* it is at.                                                               *)
(***************************************************************************)
StorageWhole(u) ==
    /\ u.at \in {"trying", "answered"} => u.of \in Staff
    /\ u.at = "trying" => /\ u.backend \in Kinds /\ u.left \subseteq u.names
                          /\ u.urls = {u.backend} \X (u.names \ u.left)
    /\ u.at = "answered" => u.urls = {u.backend} \X u.names

StorageAllWhole == \A r \in Requests : StorageWhole(upload[r])

StorageInv == TypeOK /\ StorageAllWhole /\ PictureIsListed

-----------------------------------------------------------------------------
LEMMA StorageInit == Init => StorageInv
BY DEF Init, StorageInv, TypeOK, StorageAllWhole, StorageWhole, PictureIsListed, Upload, NoUpload

\* The steps that change one upload: what is left is to look at the new one.
LEMMA StorageOneUpload ==
    ASSUME TypeOK, StorageAllWhole, NEW r \in Requests, NEW u \in Upload, StorageWhole(u),
           upload' = [upload EXCEPT ![r] = u]
    PROVE  upload' \in [Requests -> Upload] /\ StorageAllWhole'
BY DEF TypeOK, StorageAllWhole

LEMMA StorageBegin ==
    ASSUME StorageInv, NEW r \in Requests, NEW e \in Staff,
           NEW names \in SUBSET FileNames, Begin(r, e, names)
    PROVE  StorageInv'
<1> DEFINE u == [at |-> "trying", of |-> e, names |-> names, backend |-> 1, second |-> FALSE,
                 left |-> names, urls |-> {}]
<1>1. u \in Upload
  BY BackendsAssumption DEF Upload, Kinds, Blobs
<1>2. StorageWhole(u)
  BY BackendsAssumption DEF StorageWhole, Kinds
<1> QED
  BY <1>1, <1>2, StorageOneUpload DEF Begin, StorageInv, TypeOK, PictureIsListed

LEMMA StoragePut ==
    ASSUME StorageInv, NEW r \in Requests, NEW n \in FileNames, Put(r, n)
    PROVE  StorageInv'
<1> DEFINE u == [upload[r] EXCEPT !.left = @ \ {n},
                                  !.urls = @ \cup {<<upload[r].backend, n>>}]
<1>1. upload[r] \in Upload /\ upload[r].at = "trying" /\ n \in upload[r].left /\ StorageWhole(upload[r])
  BY DEF Put, StorageInv, TypeOK, StorageAllWhole
<1>2. u \in Upload
  <2>1. <<upload[r].backend, n>> \in Blobs
    BY <1>1 DEF Blobs, StorageWhole
  <2>2. upload[r].urls \cup {<<upload[r].backend, n>>} \in SUBSET Blobs
    BY <1>1, <2>1 DEF Upload
  <2> QED
    BY <1>1, <2>2 DEF Upload
<1>3. StorageWhole(u)
  BY <1>1 DEF StorageWhole, Upload
<1>4. upload' = [upload EXCEPT ![r] = u]
  BY DEF Put, StorageInv, TypeOK
<1> QED
  BY <1>2, <1>3, <1>4, StorageOneUpload DEF Put, StorageInv, TypeOK, PictureIsListed

LEMMA StorageAgain ==
    ASSUME StorageInv, NEW r \in Requests, Again(r)
    PROVE  StorageInv'
<1> DEFINE u == [upload[r] EXCEPT !.second = TRUE, !.left = upload[r].names, !.urls = {}]
<1>1. upload[r] \in Upload /\ upload[r].at = "trying" /\ StorageWhole(upload[r])
  BY DEF Again, StorageInv, TypeOK, StorageAllWhole
<1>2. u \in Upload /\ StorageWhole(u)
  BY <1>1 DEF Upload, StorageWhole
<1>3. upload' = [upload EXCEPT ![r] = u]
  BY DEF Again, StorageInv, TypeOK
<1> QED
  BY <1>2, <1>3, StorageOneUpload DEF Again, StorageInv, TypeOK, PictureIsListed

LEMMA StorageFail ==
    ASSUME StorageInv, NEW r \in Requests, Fail(r)
    PROVE  StorageInv'
<1> DEFINE u == Fallback(upload[r])
<1>1. upload[r] \in Upload /\ upload[r].at = "trying" /\ StorageWhole(upload[r])
  BY DEF Fail, StorageInv, TypeOK, StorageAllWhole
<1>2. upload[r].backend # Backends => upload[r].backend + 1 \in Kinds
  BY <1>1, BackendsAssumption DEF StorageWhole, Kinds
<1>3. u \in Upload
  BY <1>1, <1>2 DEF Upload, Fallback
<1>4. StorageWhole(u)
  BY <1>1, <1>2 DEF Upload, StorageWhole, Fallback
<1> QED
  BY <1>3, <1>4, StorageOneUpload DEF Fail, StorageInv, TypeOK, PictureIsListed

LEMMA StorageAnswer ==
    ASSUME StorageInv, NEW r \in Requests, Answer(r)
    PROVE  StorageInv'
<1> DEFINE u == [upload[r] EXCEPT !.at = "answered"]
<1>1. upload[r] \in Upload /\ upload[r].at = "trying" /\ upload[r].left = {} /\ StorageWhole(upload[r])
  BY DEF Answer, StorageInv, TypeOK, StorageAllWhole
<1>2. u \in Upload /\ StorageWhole(u)
  BY <1>1 DEF Upload, StorageWhole
<1>3. upload' = [upload EXCEPT ![r] = u]
  BY DEF Answer, StorageInv, TypeOK
<1> QED
  BY <1>2, <1>3, StorageOneUpload DEF Answer, StorageInv, TypeOK, PictureIsListed

\* A row gets a picture and, with it, its line in file_storages.
LEMMA StorageListed ==
    ASSUME TypeOK, PictureIsListed, NEW e \in Staff, NEW b \in Blobs,
           picture' = [picture EXCEPT ![e] = b], files' = Listed(e, b)
    PROVE  /\ picture' \in [Staff -> Blobs \cup {None}]
           /\ files' \subseteq Staff \X FileNames \X Kinds
           /\ PictureIsListed'
<1>1. \A x \in Staff : picture'[x] = IF x = e THEN b ELSE picture[x]
  BY DEF TypeOK
<1>2. <<e, b[2], b[1]>> \in Staff \X FileNames \X Kinds
  BY DEF Blobs
<1>3. \A x \in Staff \ {e}, n \in FileNames, k \in Kinds :
         <<x, n, k>> \in files => <<x, n, k>> \in files'
  BY DEF Listed
<1>4. ASSUME NEW x \in Staff, picture'[x] # None
      PROVE  <<x, picture'[x][2], picture'[x][1]>> \in files'
  <2>1. CASE x = e
    BY <1>1, <2>1 DEF Listed
  <2>2. CASE x # e
    BY <1>1, <1>3, <1>4, <2>2 DEF PictureIsListed, TypeOK, Blobs
  <2> QED
    BY <2>1, <2>2
<1> QED
  BY <1>2, <1>4 DEF TypeOK, Listed, PictureIsListed

LEMMA StorageSave ==
    ASSUME StorageInv, NEW r \in Requests, Save(r)
    PROVE  StorageInv'
<1> DEFINE u == [NoUpload EXCEPT !.at = "saved"]
<1>1. u \in Upload /\ StorageWhole(u)
  BY DEF Upload, StorageWhole, NoUpload
<1>2. upload' \in [Requests -> Upload] /\ StorageAllWhole'
  BY <1>1, StorageOneUpload DEF Save, StorageInv
<1>3. upload[r] \in Upload /\ upload[r].at = "answered" /\ blobs' = blobs
  BY DEF Save, StorageInv, TypeOK
<1>4. CASE UNCHANGED <<picture, files>>
  BY <1>2, <1>3, <1>4 DEF StorageInv, TypeOK, PictureIsListed
<1>5. ASSUME NEW b \in upload[r].urls,
             picture' = [picture EXCEPT ![upload[r].of] = b], files' = Listed(upload[r].of, b)
      PROVE  StorageInv'
  <2>1. b \in Blobs
    BY <1>3, <1>5 DEF Upload
  <2>2. upload[r].of \in Staff
    BY <1>3 DEF StorageInv, StorageAllWhole, StorageWhole
  <2> QED
    BY <1>2, <1>3, <1>5, <2>1, <2>2, StorageListed DEF StorageInv, TypeOK
<1> QED
  BY <1>4, <1>5 DEF Save

LEMMA StorageUpdatePicture ==
    ASSUME StorageInv, NEW r \in Requests, NEW e \in Staff, UpdatePicture(r, e)
    PROVE  StorageInv'
<1> DEFINE u == [upload[r] EXCEPT !.at = "refused"]
<1>1. u \in Upload /\ StorageWhole(u)
  BY DEF StorageInv, TypeOK, Upload, StorageWhole
<1>2. upload' = [upload EXCEPT ![r] = u]
  BY DEF UpdatePicture, StorageInv, TypeOK
<1>3. blobs' \in [Blobs -> Requests \cup {None}]
  BY DEF UpdatePicture, StorageInv, TypeOK
<1> QED
  BY <1>1, <1>2, <1>3, StorageOneUpload DEF UpdatePicture, StorageInv, TypeOK, PictureIsListed

LEMMA StorageRemove ==
    ASSUME StorageInv, NEW e \in Staff, Remove(e)
    PROVE  StorageInv'
<1>1. \A x \in Staff : picture'[x] # None => x # e /\ picture'[x] = picture[x]
  BY DEF Remove, StorageInv, TypeOK
<1>2. \A x \in Staff \ {e}, n \in FileNames, k \in Kinds :
         <<x, n, k>> \in files => <<x, n, k>> \in files'
  BY DEF Remove
<1>3. PictureIsListed'
  BY <1>1, <1>2 DEF StorageInv, PictureIsListed, TypeOK, Blobs
<1>4. TypeOK'
  BY DEF Remove, StorageInv, TypeOK
<1> QED
  BY <1>3, <1>4 DEF Remove, StorageInv, StorageAllWhole

LEMMA StorageNext ==
    ASSUME StorageInv, [Next]_vars
    PROVE  StorageInv'
<1>1. CASE \E r \in Requests : Again(r) \/ Fail(r) \/ Answer(r) \/ Save(r)
  BY <1>1, StorageAgain, StorageFail, StorageAnswer, StorageSave
<1>2. CASE \E r \in Requests, n \in FileNames : Put(r, n)
  BY <1>2, StoragePut
<1>3. CASE \E r \in Requests, e \in Staff : UpdatePicture(r, e)
  BY <1>3, StorageUpdatePicture
<1>4. CASE \E r \in Requests, e \in Staff, names \in SUBSET FileNames : Begin(r, e, names)
  BY <1>4, StorageBegin
<1>5. CASE \E e \in Staff : Remove(e)
  BY <1>5, StorageRemove
<1>6. CASE UNCHANGED vars
  BY <1>6 DEF vars, StorageInv, TypeOK, StorageAllWhole, PictureIsListed
<1> QED
  BY <1>1, <1>2, <1>3, <1>4, <1>5, <1>6 DEF Next, Ended

-----------------------------------------------------------------------------
(***************************************************************************)
(* The superadmin's sessions.  What keeps a token that was logged out from *)
(* being found again is that its row is only ever written by the request   *)
(* that made it, before any client has it: such a request shares its token *)
(* with nobody (SuperOwn), and a logout that deleted a row, or was         *)
(* answered, left none behind (SuperApart).                                *)
(***************************************************************************)

\* A token that is being made is no client's and in no other request's hands.
SuperOwn ==
    \A r \in Requests : req[r].op = "token" =>
        /\ req[r].token \in Tokens \ (known \cup stored)
        /\ \A q \in Requests : q # r /\ req[q].op # "idle" => req[q].token # req[r].token

\* Requests with a token of a client hold one.
SuperHeld ==
    \A r \in Requests : req[r].op \in {"found", "leaving", "deleted"} =>
        req[r].token \in known

\* Whoever is answered an access token is told a token of the table.
SuperIssued ==
    \A r \in Requests : req[r].op = "issued" => req[r].token \in Tokens

\* No row is left of a token that was logged out.
SuperApart ==
    /\ ended \cap stored = {}
    /\ \A r \in Requests : req[r].op = "deleted" => req[r].token \notin stored

SuperInv == Super!TypeOK /\ SuperOwn /\ SuperHeld /\ SuperIssued /\ SuperApart

-----------------------------------------------------------------------------
LEMMA SuperInit == Super!Init => SuperInv
BY DEF Super!Init, SuperInv, Super!TypeOK, SuperOwn, SuperHeld, SuperIssued, SuperApart,
   Super!Idle, Super!Ops

\* A step of one request that touches no table but possibly its own row.
LEMMA SuperStepTyped ==
    ASSUME Super!TypeOK, NEW r \in Requests, NEW op \in Super!Ops, NEW t \in Tokens \cup {None},
           Super!Step(r, op, t)
    PROVE  /\ req' \in [Requests -> [op : Super!Ops, token : Tokens \cup {None}]]
           /\ req'[r].op = op /\ req'[r].token = t
           /\ \A q \in Requests \ {r} : req'[q] = req[q]
BY DEF Super!TypeOK, Super!Step

LEMMA SuperNextTyped ==
    ASSUME SuperInv, [Super!Next]_(Super!vars)
    PROVE  Super!TypeOK'
<1> USE DEF SuperInv, Super!TypeOK, Super!Ops
<1>1. CASE Super!Seed
  BY <1>1 DEF Super!Seed, Super!Idle
<1>2. CASE Super!Deactivate
  BY <1>2 DEF Super!Deactivate
<1>3. CASE \E k \in Links : Super!Login(k) \/ Super!LinkExpires(k)
  <2>1. ASSUME NEW k \in Links, Super!Login(k)
        PROVE  Super!TypeOK'
    <3>1. links' \subseteq links \cup {k} /\ used' = used \cup {k}
      BY <2>1 DEF Super!Login
    <3>2. links' \subseteq used'
      BY <3>1
    <3> QED
      BY <3>1, <3>2, <2>1 DEF Super!Login
  <2>2. ASSUME NEW k \in Links, Super!LinkExpires(k)
        PROVE  Super!TypeOK'
    BY <2>2 DEF Super!LinkExpires
  <2> QED
    BY <1>3, <2>1, <2>2
<1>4. CASE \E t \in Tokens : Super!Expire(t)
  BY <1>4 DEF Super!Expire
<1>5. ASSUME NEW r \in Requests,
             Super!TokenCommit(r) \/ Super!RefreshAnswer(r)
             \/ Super!LogoutCommit(r) \/ Super!LogoutAnswer(r) \/ Super!Return(r)
      PROVE  Super!TypeOK'
  <2>1. CASE Super!TokenCommit(r)
    BY <1>5, <2>1, SuperStepTyped DEF Super!TokenCommit, SuperOwn
  <2>2. CASE Super!RefreshAnswer(r)
    BY <1>5, <2>2, SuperStepTyped DEF Super!RefreshAnswer
  <2>3. CASE Super!LogoutCommit(r)
    BY <1>5, <2>3, SuperStepTyped DEF Super!LogoutCommit
  <2>4. CASE Super!LogoutAnswer(r)
    BY <1>5, <2>4, SuperStepTyped DEF Super!LogoutAnswer, SuperHeld
  <2>5. CASE Super!Return(r)
    BY <1>5, <2>5, SuperStepTyped DEF Super!Return, SuperIssued
  <2> QED
    BY <1>5, <2>1, <2>2, <2>3, <2>4, <2>5
<1>6. ASSUME NEW r \in Requests, NEW t \in Tokens,
             Super!TokenBegin(r, t) \/ Super!Refresh(r, t) \/ Super!Logout(r, t)
      PROVE  Super!TypeOK'
  BY <1>6, SuperStepTyped DEF Super!TokenBegin, Super!Refresh, Super!Logout
<1>7. CASE UNCHANGED Super!vars
  BY <1>7 DEF Super!vars
<1> QED
  BY <1>1, <1>2, <1>3, <1>4, <1>5, <1>6, <1>7 DEF Super!Next

-----------------------------------------------------------------------------
(* The rest of the invariant.  Two lemmas for the steps of one request,    *)
(* one for everything else.                                                *)

SuperRest == SuperOwn /\ SuperHeld /\ SuperIssued /\ SuperApart

\* Requests go on as they are or are lost; rows only go; nobody learns a token.
LEMMA SuperQuietKeeps ==
    ASSUME SuperInv, stored' \subseteq stored, UNCHANGED <<known, ended>>,
           req' = req \/ req' = [r \in Requests |-> Super!Idle]
    PROVE  SuperRest'
BY DEF SuperInv, Super!TypeOK, SuperRest, SuperOwn, SuperHeld, SuperIssued, SuperApart, Super!Idle

LEMMA SuperTokenCommitKeeps ==
    ASSUME SuperInv, NEW r \in Requests, Super!TokenCommit(r)
    PROVE  SuperRest'
<1>1. /\ req[r].op = "token" /\ req[r].token \in Tokens \ (known \cup stored)
      /\ stored' = stored \cup {req[r].token} /\ known' = known /\ ended' = ended
  BY DEF Super!TokenCommit, SuperInv, SuperOwn
<1>2. /\ req'[r].op = "issued" /\ req'[r].token = req[r].token
      /\ \A q \in Requests \ {r} : req'[q] = req[q]
  BY <1>1, SuperStepTyped DEF Super!TokenCommit, SuperInv, Super!Ops
<1>3. \A q \in Requests \ {r} : req[q].op # "idle" => req[q].token # req[r].token
  BY <1>1 DEF SuperInv, SuperOwn
<1>4. SuperOwn'
  BY <1>1, <1>2, <1>3 DEF SuperInv, SuperOwn
<1>5. SuperHeld' /\ SuperIssued'
  BY <1>1, <1>2 DEF SuperInv, SuperHeld, SuperIssued
<1>6. SuperApart'
  BY <1>1, <1>2, <1>3 DEF SuperInv, Super!TypeOK, SuperApart
<1> QED
  BY <1>4, <1>5, <1>6 DEF SuperRest

LEMMA SuperAnswersKeep ==
    ASSUME SuperInv, NEW r \in Requests,
           Super!RefreshAnswer(r)
           \/ Super!LogoutCommit(r) \/ Super!LogoutAnswer(r) \/ Super!Return(r)
    PROVE  SuperRest'
<1>1. CASE Super!RefreshAnswer(r)
  <2>1. /\ req'[r].op = "issued" /\ req'[r].token = req[r].token /\ req[r].op = "found"
        /\ \A q \in Requests \ {r} : req'[q] = req[q]
    BY <1>1, SuperStepTyped DEF Super!RefreshAnswer, SuperInv, Super!TypeOK, Super!Ops
  <2> QED
    BY <1>1, <2>1 DEF Super!RefreshAnswer, SuperInv, Super!TypeOK, SuperRest, SuperOwn,
       SuperHeld, SuperIssued, SuperApart
<1>2. CASE Super!LogoutCommit(r)
  <2>1. /\ req'[r].op = "deleted" /\ req'[r].token = req[r].token /\ req[r].op = "leaving"
        /\ \A q \in Requests \ {r} : req'[q] = req[q]
        /\ stored' = stored \ {req[r].token} /\ known' = known /\ ended' = ended
    BY <1>2, SuperStepTyped DEF Super!LogoutCommit, SuperInv, Super!TypeOK, Super!Ops
  <2>2. SuperOwn'
    BY <2>1 DEF SuperInv, SuperOwn
  <2> QED
    BY <2>1, <2>2 DEF SuperInv, Super!TypeOK, SuperRest, SuperHeld, SuperIssued, SuperApart
<1>3. CASE Super!LogoutAnswer(r)
  <2>1. /\ req'[r].op = "idle" /\ req[r].op = "deleted"
        /\ \A q \in Requests \ {r} : req'[q] = req[q]
        /\ ended' = ended \cup {req[r].token} /\ known' = known /\ stored' = stored
    BY <1>3, SuperStepTyped DEF Super!LogoutAnswer, SuperInv, Super!TypeOK, Super!Ops
  <2> QED
    BY <2>1 DEF SuperInv, Super!TypeOK, SuperRest, SuperOwn, SuperHeld, SuperIssued, SuperApart
<1>4. CASE Super!Return(r)
  <2>1. /\ req'[r].op = "idle" /\ req[r].op \in {"issued", "refused"}
        /\ \A q \in Requests \ {r} : req'[q] = req[q]
        /\ known \subseteq known' /\ known' \subseteq known \cup {req[r].token}
        /\ ended' = ended /\ stored' = stored
    BY <1>4, SuperStepTyped DEF Super!Return, SuperInv, Super!TypeOK, Super!Ops
  <2>2. SuperOwn'
    BY <2>1 DEF SuperInv, SuperOwn
  <2> QED
    BY <2>1, <2>2 DEF SuperInv, Super!TypeOK, SuperRest, SuperHeld, SuperIssued, SuperApart
<1> QED
  BY <1>1, <1>2, <1>3, <1>4

LEMMA SuperBeginsKeep ==
    ASSUME SuperInv, NEW r \in Requests, NEW t \in Tokens,
           Super!TokenBegin(r, t) \/ Super!Refresh(r, t) \/ Super!Logout(r, t)
    PROVE  SuperRest'
<1>1. UNCHANGED <<stored, known, ended>> /\ req[r].op = "idle"
  BY DEF Super!TokenBegin, Super!Refresh, Super!Logout
<1>2. CASE Super!TokenBegin(r, t)
  <2>1. /\ req'[r].op = "token" /\ req'[r].token = t
        /\ \A q \in Requests \ {r} : req'[q] = req[q]
    BY <1>2, SuperStepTyped DEF Super!TokenBegin, SuperInv, Super!Ops
  <2>2. t \notin known \cup stored /\ \A q \in Requests : req[q].token # t
    BY <1>2 DEF Super!TokenBegin, Super!Fresh
  <2> QED
    BY <1>1, <2>1, <2>2 DEF SuperInv, Super!TypeOK, SuperRest, SuperOwn, SuperHeld,
       SuperIssued, SuperApart
<1>3. CASE Super!Refresh(r, t) \/ Super!Logout(r, t)
  <2>1. /\ req'[r].op \in {"found", "refused", "leaving"} /\ req'[r].token = t
        /\ \A q \in Requests \ {r} : req'[q] = req[q]
    BY <1>3, SuperStepTyped DEF Super!Refresh, Super!Logout, SuperInv, Super!Ops
  <2>2. t \in known
    BY <1>3 DEF Super!Refresh, Super!Logout
  <2> QED
    BY <1>1, <2>1, <2>2 DEF SuperInv, Super!TypeOK, SuperRest, SuperOwn, SuperHeld,
       SuperIssued, SuperApart
<1> QED
  BY <1>2, <1>3

LEMMA SuperNext ==
    ASSUME SuperInv, [Super!Next]_(Super!vars)
    PROVE  SuperInv'
<1>1. Super!TypeOK'
  BY SuperNextTyped
<1>2. CASE Super!Seed \/ Super!Deactivate \/ UNCHANGED Super!vars
  BY <1>1, <1>2, SuperQuietKeeps DEF Super!Seed, Super!Deactivate, Super!vars, SuperInv, SuperRest
<1>3. CASE \E k \in Links : Super!Login(k) \/ Super!LinkExpires(k)
  BY <1>1, <1>3, SuperQuietKeeps DEF Super!Login, Super!LinkExpires, SuperInv, SuperRest
<1>4. CASE \E t \in Tokens : Super!Expire(t)
  <2>1. stored' \subseteq stored
    BY <1>4 DEF Super!Expire
  <2> QED
    BY <1>1, <1>4, <2>1, SuperQuietKeeps DEF Super!Expire, SuperInv, SuperRest
<1>5. CASE \E r \in Requests :
              Super!TokenCommit(r) \/ Super!RefreshAnswer(r)
              \/ Super!LogoutCommit(r) \/ Super!LogoutAnswer(r) \/ Super!Return(r)
  BY <1>1, <1>5, SuperTokenCommitKeeps, SuperAnswersKeep DEF SuperInv, SuperRest
<1>6. CASE \E r \in Requests, t \in Tokens :
              Super!TokenBegin(r, t) \/ Super!Refresh(r, t) \/ Super!Logout(r, t)
  BY <1>1, <1>6, SuperBeginsKeep DEF SuperInv, SuperRest
<1> QED
  BY <1>2, <1>3, <1>4, <1>5, <1>6 DEF Super!Next

-----------------------------------------------------------------------------
(***************************************************************************)
(* The records of a tenant.  That no later row takes the id of an older    *)
(* one is what makes a commit after a deletion harmless: a request's row   *)
(* is always a made one, and a row is made once.                           *)
(***************************************************************************)

\* What the answered requests and those with a row in hand are.
TenantBusy ==
    \A c \in Requests :
        /\ task[c].op # "idle" => task[c].row \in made /\ task[c].row \in Rows
        /\ done[c] = "saved" => task[c].op = "update"
TenantExisting == \A r \in Rows : table[r] # None => r \in made

TenantInv == Tenant!TypeOK /\ TenantBusy /\ TenantExisting /\ Tenant!AnsweredIsKept

\* Whoever wrote a column of a row that exists is a request.
LEMMA TenantWriterTyped ==
    ASSUME Tenant!TypeOK, NEW r \in Rows, table[r] # None, NEW f \in Columns
    PROVE  table[r].by[f] \in Requests \cup {None}
BY DEF Tenant!TypeOK, Tenant!Record

\* A column stays kept while the row and the answers of the others do.
LEMMA TenantKeptStays ==
    ASSUME TenantInv, NEW c \in Requests, NEW f \in task[c].fields,
           done[c] = "saved", table[task[c].row] # None,
           table'[task[c].row] = table[task[c].row],
           \A d \in Requests : done[d] = "saved" =>
               done'[d] = "saved" /\ task'[d].row = task[d].row /\ task'[d].fields = task[d].fields
    PROVE  Tenant!Kept(c, f)'
<1> DEFINE w == table[task[c].row].by[f]
<1>1. task[c].row \in Rows /\ f \in Columns
  BY DEF TenantInv, TenantBusy, Tenant!TypeOK
<1>2. w = c \/ /\ w # None /\ done[w] = "saved"
               /\ task[w].row = task[c].row /\ f \in task[w].fields
  BY DEF TenantInv, Tenant!AnsweredIsKept, Tenant!Kept
<1>3. w \in Requests
  BY <1>1, <1>2, TenantWriterTyped DEF TenantInv
<1>4. task'[c].row = task[c].row
  OBVIOUS
<1>5. table'[task'[c].row].by[f] = w
  BY <1>4
<1> HIDE DEF w
<1> QED
  BY <1>2, <1>3, <1>4, <1>5 DEF Tenant!Kept

\* Steps that save nothing.
LEMMA TenantAnsweredStays ==
    ASSUME TenantInv,
           \A c \in Requests : done'[c] = "saved" <=> done[c] = "saved",
           \A c \in Requests : done[c] = "saved" => task'[c] = task[c],
           \A c \in Requests : done[c] = "saved" =>
               table'[task[c].row] \in {table[task[c].row], None}
    PROVE  Tenant!AnsweredIsKept'
<1> SUFFICES ASSUME NEW c \in Requests, done'[c] = "saved", table'[task'[c].row] # None,
                    NEW f \in task'[c].fields
             PROVE  Tenant!Kept(c, f)'
  BY DEF Tenant!AnsweredIsKept
<1>1. /\ done[c] = "saved" /\ task'[c] = task[c]
      /\ table'[task[c].row] = table[task[c].row]
  OBVIOUS
<1> QED
  BY <1>1, TenantKeptStays

LEMMA TenantInit == Tenant!Init => TenantInv
<1> SUFFICES ASSUME Tenant!Init
             PROVE  TenantInv
  OBVIOUS
<1>1. Tenant!TypeOK
  BY DEF Tenant!Init, Tenant!TypeOK, Tenant!Idle
<1> QED
  BY <1>1 DEF Tenant!Init, TenantInv, TenantBusy, TenantExisting, Tenant!AnsweredIsKept,
     Tenant!Idle

LEMMA TenantCreateKeeps ==
    ASSUME TenantInv, NEW r \in Rows, NEW kind \in Tenant!Kinds, NEW o \in Orgs, Tenant!Create(r, kind, o)
    PROVE  TenantInv'
<1> DEFINE row == [kind |-> kind, org |-> o, by |-> [c \in Columns |-> None]]
<1>1. row \in Tenant!Record
  BY DEF Tenant!Record
<1>2. /\ r \notin made /\ made' = made \cup {r}
      /\ table' = [table EXCEPT ![r] = row]
      /\ UNCHANGED <<task, done>>
  BY DEF Tenant!Create
<1> HIDE DEF row
<1>3. Tenant!TypeOK'
  BY <1>1, <1>2 DEF TenantInv, Tenant!TypeOK
<1>4. \A s \in Rows : s # r => table'[s] = table[s]
  BY <1>2 DEF TenantInv, Tenant!TypeOK
<1>5. TenantBusy' /\ TenantExisting'
  BY <1>2, <1>4 DEF TenantInv, TenantBusy, TenantExisting
<1>6. \A c \in Requests : done[c] = "saved" => table'[task[c].row] = table[task[c].row]
  BY <1>2, <1>4 DEF TenantInv, TenantBusy
<1>7. Tenant!AnsweredIsKept'
  BY <1>2, <1>6, TenantAnsweredStays
<1> QED
  BY <1>3, <1>5, <1>7 DEF TenantInv

LEMMA TenantBeginKeeps ==
    ASSUME TenantInv, NEW c \in Requests, NEW op \in {"update", "delete"}, NEW r \in Rows,
           NEW o \in Orgs, NEW named \in Orgs, NEW fields \in SUBSET Columns,
           Tenant!Begin(c, op, r, o, named, fields)
    PROVE  TenantInv'
<1>1. /\ task[c] = Tenant!Idle /\ done[c] = "no" /\ UNCHANGED <<table, made>>
  BY DEF Tenant!Begin
<1>2. CASE /\ table[r] # None
           /\ task' = [task EXCEPT ![c] =
                  [op |-> op, row |-> r, fields |-> fields, read |-> table[r]]]
           /\ UNCHANGED done
  <2>1. Tenant!TypeOK'
    BY <1>1, <1>2 DEF TenantInv, Tenant!TypeOK
  <2>2. \A d \in Requests : d # c => task'[d] = task[d]
    BY <1>2 DEF TenantInv, Tenant!TypeOK
  <2>3. task'[c].row = r /\ task'[c].op = op
    BY <1>2 DEF TenantInv, Tenant!TypeOK
  <2>4. TenantBusy' /\ TenantExisting'
    BY <1>1, <1>2, <2>2, <2>3 DEF TenantInv, TenantBusy, TenantExisting
  <2>5. Tenant!AnsweredIsKept'
    BY <1>1, <1>2, <2>2, TenantAnsweredStays
  <2> QED
    BY <2>1, <2>4, <2>5 DEF TenantInv
<1>3. CASE done' = [done EXCEPT ![c] = "refused"] /\ UNCHANGED task
  <2>1. Tenant!TypeOK'
    BY <1>1, <1>3 DEF TenantInv, Tenant!TypeOK
  <2>2. \A d \in Requests : done'[d] = "saved" <=> done[d] = "saved"
    BY <1>1, <1>3 DEF TenantInv, Tenant!TypeOK
  <2>3. TenantBusy' /\ TenantExisting'
    BY <1>1, <1>3, <2>2 DEF TenantInv, TenantBusy, TenantExisting
  <2>4. Tenant!AnsweredIsKept'
    BY <1>1, <1>3, <2>2, TenantAnsweredStays
  <2> QED
    BY <2>1, <2>3, <2>4 DEF TenantInv
<1> QED
  BY <1>2, <1>3 DEF Tenant!Begin, Tenant!Finds

\* What a commit writes is its own; of the other columns it writes nothing.
LEMMA TenantCommitKeeps ==
    ASSUME TenantInv, NEW c \in Requests, Tenant!Commit(c)
    PROVE  TenantInv'
<1> DEFINE r == task[c].row
<1>1. /\ task[c].op = "update" /\ done[c] = "no" /\ UNCHANGED <<made, task>>
      /\ r \in Rows
  BY DEF Tenant!Commit, TenantInv, TenantBusy
<1>2. CASE table[r] = None /\ table' = table /\ done' = [done EXCEPT ![c] = "lost"]
  <2>1. Tenant!TypeOK'
    BY <1>1, <1>2 DEF TenantInv, Tenant!TypeOK
  <2>2. \A d \in Requests : done'[d] = "saved" <=> done[d] = "saved"
    BY <1>1, <1>2 DEF TenantInv, Tenant!TypeOK
  <2>3. TenantBusy' /\ TenantExisting'
    BY <1>1, <1>2, <2>2 DEF TenantInv, TenantBusy, TenantExisting
  <2>4. Tenant!AnsweredIsKept'
    BY <1>1, <1>2, <2>2, TenantAnsweredStays
  <2> QED
    BY <2>1, <2>3, <2>4 DEF TenantInv
<1>3. CASE /\ table[r] # None
           /\ table' = [table EXCEPT ![r] = Tenant!Written(c, table[r])]
           /\ done' = [done EXCEPT ![c] = "saved"]
  <2> DEFINE row == Tenant!Written(c, table[r])
  <2>1. table[r] \in Tenant!Record
    BY <1>1, <1>3 DEF TenantInv, Tenant!TypeOK
  <2>2. /\ row \in Tenant!Record
        /\ \A f \in Columns : row.by[f] = IF f \in task[c].fields THEN c ELSE table[r].by[f]
    BY <2>1 DEF Tenant!Written, Tenant!Record
  <2> HIDE DEF row
  <2>3. /\ \A s \in Rows : table'[s] = IF s = r THEN row ELSE table[s]
        /\ \A d \in Requests : done'[d] = IF d = c THEN "saved" ELSE done[d]
    BY <1>1, <1>3 DEF TenantInv, Tenant!TypeOK, row
  <2>4. Tenant!TypeOK'
    <3>1. table' \in [Rows -> Tenant!Record \cup {None}]
      BY <1>1, <1>3, <2>2 DEF TenantInv, Tenant!TypeOK, row
    <3> QED
      BY <1>1, <1>3, <3>1 DEF TenantInv, Tenant!TypeOK
  <2>5. TenantBusy' /\ TenantExisting'
    BY <1>1, <1>3, <2>3 DEF TenantInv, TenantBusy, TenantExisting
  <2>6. Tenant!AnsweredIsKept'
    <3> SUFFICES ASSUME NEW d \in Requests, done'[d] = "saved", table'[task[d].row] # None,
                        NEW f \in task[d].fields
                 PROVE  Tenant!Kept(d, f)'
      BY <1>1 DEF Tenant!AnsweredIsKept
    <3>1. f \in Columns
      BY DEF TenantInv, Tenant!TypeOK
    <3>2. CASE d = c
      BY <1>1, <2>2, <2>3, <3>1, <3>2 DEF Tenant!Kept
    <3>3. CASE d # c /\ task[d].row # r
      <4>1. done[d] = "saved" /\ task[d].row \in Rows
        BY <2>3, <3>3 DEF TenantInv, TenantBusy
      <4>2. table'[task[d].row] = table[task[d].row]
        BY <2>3, <3>3, <4>1
      <4>3. \A b \in Requests : done[b] = "saved" => done'[b] = "saved"
        BY <2>3
      <4> QED
        BY <1>1, <4>1, <4>2, <4>3, TenantKeptStays
    <3>4. CASE d # c /\ task[d].row = r /\ f \in task[c].fields
      <4>1. table'[r].by[f] = c
        BY <1>1, <2>2, <2>3, <3>1, <3>4
      <4>2. c # None
        BY DomainAssumption
      <4> QED
        BY <1>1, <2>3, <3>4, <4>1, <4>2 DEF Tenant!Kept
    <3>5. CASE d # c /\ task[d].row = r /\ f \notin task[c].fields
      <4> DEFINE w == table[r].by[f]
      <4>1. done[d] = "saved" /\ table'[r].by[f] = w
        BY <1>1, <2>2, <2>3, <3>1, <3>5
      <4>2. Tenant!Kept(d, f)
        BY <1>3, <3>5, <4>1 DEF TenantInv, Tenant!AnsweredIsKept
      <4>3. w \in Requests \cup {None}
        BY <1>1, <1>3, <3>1, TenantWriterTyped DEF TenantInv
      <4> QED
        BY <1>1, <2>3, <3>5, <4>1, <4>2, <4>3 DEF Tenant!Kept
    <3> QED
      BY <3>2, <3>3, <3>4, <3>5
  <2> QED
    BY <2>4, <2>5, <2>6 DEF TenantInv
<1> QED
  BY <1>2, <1>3 DEF Tenant!Commit

LEMMA TenantDeleteKeeps ==
    ASSUME TenantInv, NEW c \in Requests, Tenant!Delete(c)
    PROVE  TenantInv'
<1>1. /\ task[c].op = "delete" /\ done[c] = "no" /\ UNCHANGED <<made, task>>
      /\ table' = [table EXCEPT ![task[c].row] = None]
      /\ done' = [done EXCEPT ![c] = "deleted"]
  BY DEF Tenant!Delete
<1>2. Tenant!TypeOK'
  BY <1>1 DEF TenantInv, Tenant!TypeOK
<1>3. \A d \in Requests : done'[d] = "saved" <=> done[d] = "saved"
  BY <1>1 DEF TenantInv, Tenant!TypeOK
<1>4. \A s \in Rows : table'[s] \in {table[s], None}
  BY <1>1 DEF TenantInv, Tenant!TypeOK
<1>5. TenantBusy' /\ TenantExisting'
  BY <1>1, <1>3, <1>4 DEF TenantInv, TenantBusy, TenantExisting
<1>6. \A d \in Requests : done[d] = "saved" =>
          table'[task[d].row] \in {table[task[d].row], None}
  BY <1>4 DEF TenantInv, TenantBusy
<1>7. Tenant!AnsweredIsKept'
  BY <1>1, <1>3, <1>6, TenantAnsweredStays
<1> QED
  BY <1>2, <1>5, <1>7 DEF TenantInv

LEMMA TenantNext ==
    ASSUME TenantInv, [Tenant!Next]_(Tenant!vars)
    PROVE  TenantInv'
<1>1. CASE \E r \in Rows, kind \in Tenant!Kinds, o \in Orgs : Tenant!Create(r, kind, o)
  BY <1>1, TenantCreateKeeps
<1>2. CASE \E c \in Requests, r \in Rows, op \in {"update", "delete"}, o, named \in Orgs,
              fields \in SUBSET Columns : Tenant!Begin(c, op, r, o, named, fields)
  BY <1>2, TenantBeginKeeps
<1>3. CASE \E c \in Requests : Tenant!Commit(c)
  BY <1>3, TenantCommitKeeps
<1>4. CASE \E c \in Requests : Tenant!Delete(c)
  BY <1>4, TenantDeleteKeeps
<1>5. CASE UNCHANGED Tenant!vars
  BY <1>5 DEF Tenant!vars, TenantInv, Tenant!TypeOK, TenantBusy, TenantExisting,
     Tenant!AnsweredIsKept, Tenant!Kept
<1> QED
  BY <1>1, <1>2, <1>3, <1>4, <1>5 DEF Tenant!Next, Tenant!Ended

-----------------------------------------------------------------------------
(***************************************************************************)
(* The data banks.  A server that runs has its row; one that stopped left  *)
(* room in it for what the next start adds.                                *)
(***************************************************************************)
CatalogUp == up => bank \in Seq(Catalog!Entry) /\ Len(bank) <= MaxEntries

CatalogDown == (~up /\ bank # None) => Len(bank) + Len(Catalog!Missing) <= MaxEntries

CatalogInv == Catalog!TypeOK /\ CatalogUp /\ CatalogDown

\* What a start may do to the entries.
CatalogEdits ==
    (~up /\ up' /\ bank # None) =>
        /\ Catalog!IsPrefix(bank, bank')
        /\ \A i, j \in DOMAIN bank' :
               (j > Len(bank) /\ i < j) => bank'[i].name # bank'[j].name

LEMMA CatalogInit == Catalog!Init => CatalogInv
<1> SUFFICES ASSUME Catalog!Init PROVE CatalogInv
  OBVIOUS
<1>1. /\ bank = None /\ up = FALSE
      /\ role \in [Orgs \X RoleNames -> Nat] /\ board \in [Users \X Orgs -> Nat]
  BY DEF Catalog!Init
<1> QED
  BY <1>1 DEF CatalogInv, Catalog!TypeOK, CatalogUp, CatalogDown

(***************************************************************************)
(* What a start adds: entries whose names are neither in the row nor equal *)
(* to each other.                                                          *)
(***************************************************************************)
LEMMA CatalogSubsequence ==
    ASSUME NEW s, NEW I
    PROVE  Catalog!Subsequence(s, I) = Subsequence(s, I)
BY DEF Catalog!Subsequence, Catalog!Rank, Catalog!Cardinality, Subsequence, Rank, Cardinality

LEMMA CatalogMissing ==
    ASSUME bank \in Seq(Catalog!Entry)
    PROVE  /\ Catalog!Missing \in Seq(Catalog!Entry)
           /\ \A k \in 1..Len(Catalog!Missing), i \in 1..Len(bank) : Catalog!Missing[k].name # bank[i].name
           /\ \A k, m \in 1..Len(Catalog!Missing) : k < m => Catalog!Missing[k].name # Catalog!Missing[m].name
<1> DEFINE I == {i \in DOMAIN Defaults : Catalog!Absent(Defaults[i])}
           absent == Subsequence(Defaults, I)
<1>1. I \in SUBSET (1..Len(Defaults)) /\ \A i \in I : Catalog!Absent(Defaults[i])
  BY ServicesAssumption
<1>2. Catalog!Missing = [k \in DOMAIN absent |-> Catalog!Seeded(absent[k])]
  BY CatalogSubsequence DEF Catalog!Missing
<1> HIDE DEF I
<1>3. /\ absent \in Seq(RoleNames)
      /\ \A k, m \in 1..Len(absent) : k < m =>
             \E i, j \in I : i < j /\ absent[k] = Defaults[i] /\ absent[m] = Defaults[j]
      /\ \A k \in 1..Len(absent) : \E i \in I : absent[k] = Defaults[i]
  BY <1>1, ServicesAssumption, SubsequenceFacts
<1> HIDE DEF absent
<1>4. \A n \in RoleNames : Catalog!Seeded(n) \in Catalog!Entry /\ Catalog!Seeded(n).name = n
  BY DEF Catalog!Seeded, Catalog!Entry
<1>5. DOMAIN absent = 1..Len(absent) /\ Len(absent) \in Nat
      /\ \A k \in 1..Len(absent) : absent[k] \in RoleNames
  BY <1>3
<1>6. \A k \in 1..Len(absent) : Catalog!Missing[k] \in Catalog!Entry /\ Catalog!Missing[k].name = absent[k]
  BY <1>2, <1>4, <1>5
<1>7. Catalog!Missing \in Seq(Catalog!Entry) /\ Len(Catalog!Missing) = Len(absent)
  BY <1>2, <1>4, <1>5
<1>8. \A k \in 1..Len(absent), i \in 1..Len(bank) : absent[k] # bank[i].name
  BY <1>1, <1>3 DEF Catalog!Absent, Catalog!Names
<1>9. \A k, m \in 1..Len(absent) : k < m => absent[k] # absent[m]
  <2> SUFFICES ASSUME NEW k \in 1..Len(absent), NEW m \in 1..Len(absent), k < m
               PROVE  absent[k] # absent[m]
    OBVIOUS
  <2>1. PICK i \in I, j \in I : i < j /\ absent[k] = Defaults[i] /\ absent[m] = Defaults[j]
    BY <1>3
  <2>2. i # j /\ i \in 1..Len(Defaults) /\ j \in 1..Len(Defaults)
    BY <1>1, <2>1
  <2> QED
    BY <2>1, <2>2, ServicesAssumption
<1> QED
  BY <1>6, <1>7, <1>8, <1>9

LEMMA CatalogStart ==
    ASSUME CatalogInv, Catalog!Start
    PROVE  CatalogInv' /\ CatalogEdits
<1>1. ~up /\ up' = TRUE /\ UNCHANGED <<role, board>>
  BY DEF Catalog!Start
<1>2. CASE bank = None
  <2>1. bank' = [i \in DOMAIN Defaults |-> Catalog!Seeded(Defaults[i])]
    BY <1>2 DEF Catalog!Start
  <2>2. \A i \in 1..Len(Defaults) : Catalog!Seeded(Defaults[i]) \in Catalog!Entry
    BY ServicesAssumption DEF Catalog!Seeded, Catalog!Entry
  <2>3. DOMAIN Defaults = 1..Len(Defaults) /\ Len(Defaults) \in Nat
    BY ServicesAssumption
  <2>4. bank' \in Seq(Catalog!Entry) /\ Len(bank') = Len(Defaults)
    BY <2>1, <2>2, <2>3
  <2> QED
    BY <1>1, <1>2, <2>4, ServicesAssumption
       DEF CatalogInv, Catalog!TypeOK, CatalogUp, CatalogDown, CatalogEdits
<1>3. CASE bank # None
  <2>1. bank \in Seq(Catalog!Entry) /\ bank' = bank \o Catalog!Missing
    BY <1>3 DEF Catalog!Start, CatalogInv, Catalog!TypeOK
  <2> DEFINE more == Catalog!Missing
  <2>2. /\ more \in Seq(Catalog!Entry) /\ bank' = bank \o more
        /\ \A k \in 1..Len(more), i \in 1..Len(bank) : more[k].name # bank[i].name
        /\ \A k, m \in 1..Len(more) : k < m => more[k].name # more[m].name
        /\ Len(bank) + Len(more) <= MaxEntries
    BY <1>1, <1>3, <2>1, CatalogMissing DEF CatalogInv, CatalogDown
  <2> HIDE DEF more
  <2>3. Len(bank) \in Nat /\ Len(more) \in Nat
    BY <2>1, <2>2
  <2>4. bank' \in Seq(Catalog!Entry) /\ Len(bank') = Len(bank) + Len(more)
    BY <2>1, <2>2
  <2>5. /\ \A i \in 1..Len(bank) : bank'[i] = bank[i]
        /\ \A k \in 1..Len(more) : bank'[Len(bank) + k] = more[k]
    BY <2>1, <2>2
  <2>6. CatalogInv'
    BY <1>1, <2>2, <2>4 DEF CatalogInv, Catalog!TypeOK, CatalogUp, CatalogDown
  <2>7. Catalog!IsPrefix(bank, bank')
    <3>1. Len(bank) <= Len(bank')
      BY <2>3, <2>4
    <3>2. SubSeq(bank, 1, Len(bank)) = SubSeq(bank', 1, Len(bank))
      BY <2>1, <2>3, <2>4, <2>5
    <3> QED
      BY <3>1, <3>2 DEF Catalog!IsPrefix
  <2>8. ASSUME NEW i \in DOMAIN bank', NEW j \in DOMAIN bank', j > Len(bank), i < j
        PROVE  bank'[i].name # bank'[j].name
    <3>1. i \in 1..Len(bank) + Len(more) /\ j \in 1..Len(bank) + Len(more)
      BY <2>4
    <3> DEFINE m == j - Len(bank)
               k == i - Len(bank)
    <3>2. m \in 1..Len(more) /\ bank'[j] = more[m]
      BY <2>3, <2>5, <2>8, <3>1
    <3>3. CASE i <= Len(bank)
      BY <2>2, <2>3, <2>5, <3>1, <3>2, <3>3
    <3>4. CASE i > Len(bank)
      <4>1. k \in 1..Len(more) /\ bank'[i] = more[k] /\ k < m
        BY <2>3, <2>5, <2>8, <3>1, <3>4
      <4> QED
        BY <2>2, <3>2, <4>1
    <3> QED
      BY <2>3, <3>1, <3>3, <3>4
  <2> QED
    BY <2>6, <2>7, <2>8 DEF CatalogEdits
<1> QED
  BY <1>2, <1>3

LEMMA CatalogEntries ==
    ASSUME CatalogInv, NEW n \in RoleNames, NEW e \in Catalog!Entry, Catalog!Update(n, e) \/ Catalog!Add(e)
    PROVE  CatalogInv'
<1>1. /\ up /\ up' = up /\ UNCHANGED <<role, board>>
      /\ bank \in Seq(Catalog!Entry) /\ Len(bank) <= MaxEntries /\ Len(bank) \in Nat
  BY DEF Catalog!Update, Catalog!Add, CatalogInv, CatalogUp
<1>2. bank' \in Seq(Catalog!Entry) /\ Len(bank') <= MaxEntries
  <2>1. CASE Catalog!Update(n, e)
    <3> DEFINE k == Catalog!First(n)
    <3>1. bank' = [bank EXCEPT ![k] = e]
      BY <2>1 DEF Catalog!Update
    <3> HIDE DEF k
    <3>2. bank \in [1..Len(bank) -> Catalog!Entry]
      BY <1>1
    <3>3. bank' \in [1..Len(bank) -> Catalog!Entry]
      BY <3>1, <3>2
    <3> QED
      BY <1>1, <3>3
  <2>2. CASE Catalog!Add(e)
    <3>1. bank' \in {bank, Append(bank, e)} /\ Len(bank) < MaxEntries
      BY <2>2 DEF Catalog!Add
    <3> QED
      BY <1>1, <3>1, ServicesAssumption
  <2> QED
    BY <2>1, <2>2
<1> QED
  BY <1>1, <1>2 DEF CatalogInv, Catalog!TypeOK, CatalogUp, CatalogDown

LEMMA CatalogStop ==
    ASSUME CatalogInv, Catalog!Stop
    PROVE  CatalogInv'
<1>1. /\ up /\ up' = FALSE /\ Len(bank) + Len(Catalog!Missing) <= MaxEntries
      /\ UNCHANGED <<bank, role, board>>
  BY DEF Catalog!Stop
<1>2. Catalog!Missing' = Catalog!Missing
  BY <1>1 DEF Catalog!Missing, Catalog!Absent, Catalog!Names
<1> QED
  BY <1>1, <1>2 DEF CatalogInv, Catalog!TypeOK, CatalogUp, CatalogDown

LEMMA CatalogRows ==
    ASSUME CatalogInv,
           \/ \E o \in Orgs, n \in RoleNames :
                  Catalog!CreateRole(o, n) \/ Catalog!CreateRoles(o, n) \/ Catalog!ImportRole(o, n)
           \/ \E u \in Users, o \in Orgs : Catalog!Upsert(u, o)
           \/ \E x, z \in Users \X Orgs : Catalog!Rewrite(x, z)
    PROVE  CatalogInv' /\ up'
<1>1. up /\ UNCHANGED <<bank, up>>
  BY DEF Catalog!CreateRole, Catalog!CreateRoles, Catalog!ImportRole, Catalog!Insert,
     Catalog!Upsert, Catalog!Rewrite
<1>2. role' \in [Orgs \X RoleNames -> Nat] /\ board' \in [Users \X Orgs -> Nat]
  <2>1. ASSUME NEW o \in Orgs, NEW n \in RoleNames, Catalog!Insert(o, n)
        PROVE  role' \in [Orgs \X RoleNames -> Nat] /\ board' = board
    BY <2>1 DEF Catalog!Insert, CatalogInv, Catalog!TypeOK
  <2>2. ASSUME NEW u \in Users, NEW o \in Orgs, Catalog!Upsert(u, o)
        PROVE  board' \in [Users \X Orgs -> Nat] /\ role' = role
    BY <2>2 DEF Catalog!Upsert, CatalogInv, Catalog!TypeOK
  <2>3. ASSUME NEW x \in Users \X Orgs, NEW z \in Users \X Orgs, Catalog!Rewrite(x, z)
        PROVE  board' \in [Users \X Orgs -> Nat] /\ role' = role
    <3>1. board \in [Users \X Orgs -> Nat] /\ board[x] \in Nat /\ board[x] > 0
      BY <2>3 DEF Catalog!Rewrite, CatalogInv, Catalog!TypeOK
    <3>2. board[x] - 1 \in Nat
      BY <3>1
    <3>3. /\ role' = role
          /\ board' = board \/ board' = [board EXCEPT ![x] = board[x] - 1, ![z] = @ + 1]
      BY <2>3 DEF Catalog!Rewrite
    <3> QED
      BY <3>1, <3>2, <3>3
  <2> QED
    BY <2>1, <2>2, <2>3 DEF Catalog!CreateRole, Catalog!CreateRoles, Catalog!ImportRole,
       CatalogInv, Catalog!TypeOK
<1> QED
  BY <1>1, <1>2 DEF CatalogInv, Catalog!TypeOK, CatalogUp, CatalogDown

LEMMA CatalogNext ==
    ASSUME CatalogInv, [Catalog!Next]_(Catalog!vars)
    PROVE  CatalogInv' /\ CatalogEdits
<1>1. CASE UNCHANGED Catalog!vars
  <2>1. Catalog!Missing' = Catalog!Missing
    BY <1>1 DEF Catalog!vars, Catalog!Missing, Catalog!Absent, Catalog!Names
  <2> QED
    BY <1>1, <2>1 DEF Catalog!vars, CatalogInv, Catalog!TypeOK, CatalogUp, CatalogDown,
       CatalogEdits
<1>2. CASE Catalog!Start
  BY <1>2, CatalogStart
<1>3. CASE Catalog!Stop
  BY <1>3, CatalogStop DEF Catalog!Stop, CatalogEdits
<1>4. CASE \E n \in RoleNames, e \in Catalog!Entry : Catalog!Update(n, e)
  BY <1>4, CatalogEntries DEF Catalog!Update, CatalogEdits
<1>5. CASE \E e \in Catalog!Entry : Catalog!Add(e)
  <2>1. PICK e \in Catalog!Entry : Catalog!Add(e)
    BY <1>5
  <2>2. e.name \in RoleNames
    BY DEF Catalog!Entry
  <2> QED
    BY <2>1, <2>2, CatalogEntries DEF Catalog!Add, CatalogEdits
<1>6. CASE \/ \E o \in Orgs, n \in RoleNames :
                  Catalog!CreateRole(o, n) \/ Catalog!CreateRoles(o, n) \/ Catalog!ImportRole(o, n)
           \/ \E u \in Users, o \in Orgs : Catalog!Upsert(u, o)
           \/ \E x, z \in Users \X Orgs : Catalog!Rewrite(x, z)
  <2>1. up
    BY <1>6 DEF Catalog!CreateRole, Catalog!CreateRoles, Catalog!ImportRole, Catalog!Upsert,
       Catalog!Rewrite
  <2> QED
    BY <1>6, <2>1, CatalogRows DEF CatalogEdits
<1> QED
  BY <1>1, <1>2, <1>3, <1>4, <1>5, <1>6 DEF Catalog!Next
=============================================================================
