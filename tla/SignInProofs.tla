----------------------------- MODULE SignInProofs -----------------------------
(***************************************************************************)
(* Proofs about SignIn, for any number of users and of requests of any     *)
(* kind, overlapping in any way.                                           *)
(***************************************************************************)
EXTENDS SignIn, TLAPS

\* Profiles are only made for users that there were.
OwnerKnown ==
  \A r \in Requests : pc[r] = "insertProfile" => local[r].user \in UserIds

\* The profile is like the one a request is about to insert.
Alike(p, r) ==
  /\ p.user = local[r].user
  /\ local[r].first \/ (p.provider = Stored(op[r]) /\ p.email = ProfileEmail(r))

\* Requests that run now overlap, so a request that is about to insert a profile
\* overlapped whoever inserted one like it since it looked.
RunningOverlap ==
  \A r, q \in Requests : Running(r) /\ Running(q) /\ r # q => Overlapped(r, q)

MadeByDone == \A p \in profiles : pc[p.by] = "done"

AlikeOverlap ==
  \A r \in Requests : pc[r] = "insertProfile" =>
    \A p \in profiles : Alike(p, r) => Overlapped(p.by, r)

TwinsInv ==
  OwnerKnown /\ RunningOverlap /\ MadeByDone /\ AlikeOverlap /\ TwinsOverlap

SignInInv == TypeOK /\ TwinsInv
-----------------------------------------------------------------------------
(* Type correctness.                                                       *)

LEMMA InitTypeOK == Init => TypeOK
<1> SUFFICES ASSUME Init PROVE TypeOK
  OBVIOUS
<1>1. AnyName \in Usernames
  BY SignInAssumption DEF AnyName
<1>2. op \in [Requests -> Operation]
  BY SignInAssumption DEF Init, HandlersInit
<1>3. /\ pc \in [Requests -> Step] /\ local \in [Requests -> Local]
      /\ answer \in [Requests -> Answer]
  BY <1>1 DEF Init, Step, Local, Answer, Nobody, Finished, HandlersInit
<1>4. /\ DOMAIN user \subseteq UserIds /\ user \in [DOMAIN user -> User]
  BY SignInAssumption DEF Init, UserIds, HandlersInit
<1>5. /\ profiles \subseteq Profile
      /\ slot \in [user : UserIds \cup {NoUser}, expires : Nat]
      /\ mailed \subseteq Requests
      /\ clock \in 0..MaxClock /\ faults \in 0..MaxFaults
      /\ seen \in [UserIds -> SUBSET UserIds]
      /\ overlap \subseteq SUBSET Requests
      /\ fate \in [Requests -> Fate]
  BY SignInAssumption DEF Init, Empty, HandlersInit, Fate
<1> QED
  BY <1>2, <1>3, <1>4, <1>5 DEF TypeOK

\* The three variables of a request.
ControlType ==
  /\ pc \in [Requests -> Step]
  /\ local \in [Requests -> Local]
  /\ answer \in [Requests -> Answer]

LEMMA LocalKept ==
  ASSUME NEW w \in Local, NEW u \in UserIds \cup {NoUser}
  PROVE  [w EXCEPT !.user = u] \in Local
BY DEF Local

\* Writing two fields of a record at once.
LEMMA LocalUpdate ==
  ASSUME NEW w \in Local, NEW u \in UserIds \cup {NoUser}, NEW n \in Usernames,
         NEW e \in Emails \cup {NoEmail}
  PROVE  /\ [w EXCEPT !.user = u, !.username = n] \in Local
         /\ [w EXCEPT !.username = n, !.email = e] \in Local
<1> DEFINE v == [w EXCEPT !.username = n]
<1>1. v \in Local
  BY DEF Local
<1>2. /\ [w EXCEPT !.user = u, !.username = n] = [v EXCEPT !.user = u]
      /\ [w EXCEPT !.username = n, !.email = e] = [v EXCEPT !.email = e]
  BY DEF Local
<1> HIDE DEF v
<1> QED
  BY <1>1, <1>2 DEF Local

\* Going on, answering, and keeping a user.
LEMMA ControlSteps ==
  ASSUME TypeOK, NEW r \in Requests, NEW s \in Step
  PROVE  /\ Ends(r, s) => ControlType'
         /\ \A u \in UserIds \cup {NoUser}, n \in Usernames :
              Answers(r, u, n) => ControlType'
         /\ \A u \in DOMAIN user : Keeps(r, u, s) => ControlType'
<1>1. Ends(r, s) => ControlType'
  BY DEF TypeOK, Ends, Goto, ControlType
<1>2. ASSUME NEW u \in UserIds \cup {NoUser}, NEW n \in Usernames, Answers(r, u, n)
      PROVE  ControlType'
  <2>1. [user |-> u, username |-> n] \in Answer
    BY DEF Answer
  <2> QED
    BY <1>2, <2>1 DEF TypeOK, Answers, Goto, ControlType, Step, Finished
<1>3. ASSUME NEW u \in DOMAIN user, Keeps(r, u, s)
      PROVE  ControlType'
  <2>1. u \in UserIds /\ user[u].username \in Usernames
    BY DEF TypeOK, User
  <2>2. [local[r] EXCEPT !.user = u, !.username = user[u].username] \in Local
    <3>1. local[r] \in Local /\ NoEmail \in Emails \cup {NoEmail}
      BY DEF TypeOK
    <3> QED
      BY <2>1, <3>1, LocalUpdate
  <2> QED
    BY <1>3, <2>2 DEF TypeOK, Keeps, Goto, ControlType
<1> QED
  BY <1>1, <1>2, <1>3

\* The types of everything but the variables of requests.
RecordType ==
  /\ DOMAIN user \subseteq UserIds
  /\ user \in [DOMAIN user -> User]
  /\ profiles \subseteq Profile
  /\ mailed \subseteq Requests
  /\ fate \in [Requests -> Fate]

LEMMA QuietType ==
  ASSUME TypeOK, Quiet, UNCHANGED slot, ControlType', RecordType'
  PROVE  TypeOK'
BY DEF TypeOK, Quiet, ControlType, RecordType

LEMMA ReadsType ==
  ASSUME TypeOK, Reads, ControlType'
  PROVE  TypeOK'
<1>1. RecordType'
  BY DEF TypeOK, Reads, SameRecords, RecordType
<1> QED
  BY <1>1, QuietType DEF Reads

LEMMA UserUpdate ==
  ASSUME TypeOK, NEW u \in DOMAIN user, NEW w \in User, user' = [user EXCEPT ![u] = w]
  PROVE  DOMAIN user' \subseteq UserIds /\ user' \in [DOMAIN user' -> User]
BY DEF TypeOK

\* Looking somebody up and going on.
LEMMA LookupTypes ==
  ASSUME TypeOK, NEW r \in Requests
  PROVE  /\ FindOwner(r) => TypeOK'
         /\ Ask(r) => TypeOK'
         /\ Lookup(r) => TypeOK'
         /\ Taken(r) => TypeOK'
         /\ Password(r) => TypeOK'
         /\ Username(r) => TypeOK'
         /\ FindByToken(r) => TypeOK'
<1>1. /\ op[r] \in Operation /\ local[r] \in Local
      /\ \A u \in DOMAIN user : u \in UserIds /\ user[u] \in User
  BY DEF TypeOK
<1>2. \A u \in DOMAIN user : /\ user[u].username \in Usernames
                         /\ user[u].email \in Emails \cup {NoEmail}
  BY <1>1 DEF User
<1>3. ASSUME FindOwner(r) PROVE TypeOK'
  <2>1. CASE local[r].user \notin DOMAIN user
    <3>1. ControlType'
      BY <1>3, <2>1, ControlSteps DEF FindOwner, Step, Finished
    <3> QED
      BY <1>3, <3>1, ReadsType DEF FindOwner
  <2>2. CASE local[r].user \in DOMAIN user
    <3> DEFINE u == local[r].user
               e == IF op[r].provider = "pinterest" THEN user[u].email ELSE op[r].email
    <3>1. e \in Emails \cup {NoEmail}
      BY <1>1, <1>2, <2>2 DEF Operation
    <3>2. [local[r] EXCEPT !.username = user[u].username, !.email = e] \in Local
      <4> HIDE DEF e
      <4> QED
        BY <1>1, <1>2, <2>2, <3>1, LocalUpdate
    <3>3. ControlType'
      BY <1>3, <2>2, <3>2 DEF FindOwner, TypeOK, ControlType, Goto, Step, Finished
    <3> QED
      BY <1>3, <3>3, ReadsType DEF FindOwner
  <2> QED
    BY <2>1, <2>2
<1>4. ASSUME Ask(r) PROVE TypeOK'
  <2>1. ControlType'
    BY <1>4, ControlSteps DEF Ask, Step, Finished
  <2> QED
    BY <1>4, <2>1, ReadsType DEF Ask
<1> DEFINE Known == DOMAIN user
           Went == \/ \E s \in Step : Ends(r, s)
                   \/ \E u \in Known : Answers(r, u, user[u].username)
                   \/ \E u \in Known, s \in Step : Keeps(r, u, s)
<1>5. ASSUME Went, Reads PROVE TypeOK'
  <2>1. CASE \E s \in Step : Ends(r, s)
    BY <1>5, <2>1, ControlSteps, ReadsType
  <2>2. CASE \E u \in Known : Answers(r, u, user[u].username)
    <3>1. PICK u \in Known : Answers(r, u, user[u].username)
      BY <2>2
    <3>2. u \in UserIds /\ user[u].username \in Usernames
      BY <1>1, <1>2
    <3>3. ControlType'
      BY <3>1, <3>2, ControlSteps DEF Step, Finished
    <3> QED
      BY <1>5, <3>3, ReadsType
  <2>3. CASE \E u \in Known, s \in Step : Keeps(r, u, s)
    BY <1>5, <2>3, ControlSteps, ReadsType
  <2> QED
    BY <1>5, <2>1, <2>2, <2>3
<1>6. Lookup(r) => Went /\ Reads
  BY DEF Lookup, Holders, Step, Finished
<1>7. Taken(r) => Went /\ Reads
  BY DEF Taken, Holders, Step, Finished
<1>8. Password(r) => Went /\ Reads
  BY DEF Password, Identified, Step, Finished
<1>9. Username(r) => Went /\ Reads
  BY DEF Username, Step, Finished
<1>10. FindByToken(r) => Went /\ Reads
  BY DEF FindByToken, Step, Finished
<1> QED
  BY <1>3, <1>4, <1>5, <1>6, <1>7, <1>8, <1>9, <1>10

\* Answering with the user kept before.
LEMMA AnswersOwn ==
  ASSUME TypeOK, NEW r \in Requests, Answers(r, local[r].user, local[r].username)
  PROVE  ControlType'
<1>1. local[r].user \in UserIds \cup {NoUser} /\ local[r].username \in Usernames
  BY DEF TypeOK, Local
<1> QED
  BY <1>1, ControlSteps DEF Step, Finished

\* A step that changes profiles, or reads them.
LEMMA ProfileTypes ==
  ASSUME TypeOK, OwnerKnown, NEW r \in Requests
  PROVE  /\ FindProvider(r) => TypeOK'
         /\ LoadProfiles(r) => TypeOK'
         /\ InsertProfile(r) => TypeOK'
         /\ Unlink(r) => TypeOK'
<1>1. op[r] \in Operation /\ local[r] \in Local
  BY DEF TypeOK
<1>2. FindProvider(r) => TypeOK'
  BY AnswersOwn, ControlSteps, ReadsType DEF FindProvider, Step, Finished
<1>3. ASSUME LoadProfiles(r) PROVE TypeOK'
  <2>1. CASE Ends(r, "failed")
    BY <1>3, <2>1, ControlSteps, ReadsType DEF LoadProfiles, Step, Finished
  <2>2. CASE Answers(r, local[r].user, local[r].username)
    BY <1>3, <2>2, AnswersOwn, ReadsType DEF LoadProfiles
  <2>3. CASE ~Ends(r, "failed") /\ ~Answers(r, local[r].user, local[r].username)
    <3> DEFINE b == ~\E p \in profiles : p.user = local[r].user
    <3>1. /\ Goto(r, "insertProfile") /\ UNCHANGED answer
          /\ local' = [local EXCEPT ![r].first = b]
      BY <1>3, <2>3 DEF LoadProfiles
    <3>2. b \in BOOLEAN
      OBVIOUS
    <3> HIDE DEF b
    <3>3. ControlType'
      BY <1>1, <3>1, <3>2 DEF TypeOK, ControlType, Goto, Step, Local, Finished
    <3> QED
      BY <1>3, <3>3, ReadsType DEF LoadProfiles
  <2> QED
    BY <2>1, <2>2, <2>3
<1>4. ASSUME InsertProfile(r) PROVE TypeOK'
  <2>1. /\ local[r].user \in UserIds /\ local[r].first \in BOOLEAN
        /\ Stored(op[r]) \in Providers
        /\ Valid(r) \subseteq Emails
    BY <1>1, <1>4 DEF InsertProfile, OwnerKnown, Stored, Valid, ProfileEmail, Operation,
       Local, Providers
  <2>2. profiles' \subseteq Profile
    BY <1>4, <2>1 DEF InsertProfile, TypeOK, Profile
  <2>3. ControlType'
    BY <1>4, AnswersOwn DEF InsertProfile
  <2> QED
    BY <1>4, <2>2, <2>3, QuietType DEF InsertProfile, TypeOK, RecordType
<1>5. ASSUME Unlink(r) PROVE TypeOK'
  <2>1. ControlType'
    BY <1>5, ControlSteps DEF Unlink, Step, Finished
  <2> QED
    BY <1>5, <2>1, QuietType DEF Unlink, TypeOK, RecordType
<1> QED
  BY <1>2, <1>3, <1>4, <1>5

LEMMA UpdatedType ==
  ASSUME NEW r \in Requests, op[r] \in Operation, NEW w \in User
  PROVE  Updated(r, w) \in User
BY DEF Updated, User, Operation, UserIds

\* A step that changes users.
LEMMA UserTypes ==
  ASSUME TypeOK, NEW r \in Requests
  PROVE  /\ InsertUser(r) => TypeOK'
         /\ StoreToken(r) => TypeOK'
         /\ SendMail(r) => TypeOK'
         /\ SetPassword(r) => TypeOK'
         /\ UpdateUser(r) => TypeOK'
         /\ Delete(r) => TypeOK'
<1>1. /\ op[r] \in Operation /\ local[r] \in Local /\ r \in UserIds
      /\ \A u \in DOMAIN user : u \in UserIds /\ user[u] \in User
  BY DEF TypeOK, UserIds
<1>2. op[r].username \in Usernames /\ op[r].email \in Emails \cup {NoEmail}
  BY <1>1 DEF Operation
<1>3. ASSUME InsertUser(r) PROVE TypeOK'
  <2>1. CASE Ends(r, "failed") /\ UNCHANGED user
    <3>1. ControlType'
      BY <2>1, ControlSteps DEF Step, Finished
    <3> QED
      BY <1>3, <2>1, <3>1, QuietType DEF InsertUser, TypeOK, RecordType
  <2>2. CASE ~(Ends(r, "failed") /\ UNCHANGED user)
    <3> DEFINE new == [email |-> op[r].email, username |-> op[r].username,
                       password |-> r, token |-> NoRequest]
    <3>1. /\ op[r].email # NoEmail
          /\ user' = [u \in DOMAIN user \cup {r} |-> IF u = r THEN new ELSE user[u]]
          /\ \/ /\ Goto(r, "profiles")
                /\ local' = [local EXCEPT ![r] = [@ EXCEPT !.user = r,
                                                           !.username = op[r].username]]
                /\ UNCHANGED answer
             \/ Answers(r, r, op[r].username)
             \/ Ends(r, "done")
      BY <1>3, <2>2 DEF InsertUser
    <3>2. [local[r] EXCEPT !.user = r, !.username = op[r].username] \in Local
      BY <1>1, <1>2, LocalUpdate
    <3>3. ControlType'
      <4>1. CASE /\ Goto(r, "profiles") /\ UNCHANGED answer
                 /\ local' = [local EXCEPT ![r] = [@ EXCEPT !.user = r,
                                                            !.username = op[r].username]]
        BY <3>2, <4>1 DEF ControlType, TypeOK, Goto, Step, Finished
      <4>2. CASE Answers(r, r, op[r].username)
        BY <1>1, <1>2, <4>2, ControlSteps DEF Step, Finished
      <4>3. CASE Ends(r, "done")
        BY <4>3, ControlSteps DEF Step, Finished
      <4> QED
        BY <3>1, <4>1, <4>2, <4>3
    <3>4. new \in User
      BY <1>1, <1>2, <3>1 DEF User
    <3>5. DOMAIN user' \subseteq UserIds /\ user' \in [DOMAIN user' -> User]
      <4> HIDE DEF new
      <4> QED
        BY <1>1, <3>1, <3>4 DEF TypeOK
    <3>6. RecordType'
      BY <1>3, <3>5 DEF InsertUser, TypeOK, RecordType
    <3> QED
      BY <1>3, <3>3, <3>6, QuietType DEF InsertUser
  <2> QED
    BY <2>1, <2>2
<1>4. ASSUME StoreToken(r) PROVE TypeOK'
  <2>1. ControlType'
    BY <1>4, ControlSteps DEF StoreToken, Step, Finished
  <2>2. CASE local[r].user \in DOMAIN user
    <3> DEFINE u == local[r].user
               w == [user[u] EXCEPT !.token = r]
    <3>1. w \in User
      BY <1>1, <2>2 DEF User
    <3>2. user' = [user EXCEPT ![u] = w]
      BY <1>1, <1>4, <2>2 DEF StoreToken, TokenStored
    <3>3. DOMAIN user' \subseteq UserIds /\ user' \in [DOMAIN user' -> User]
      BY <2>2, <3>1, <3>2, UserUpdate
    <3>4. RecordType'
      BY <1>4, <2>2, <3>3 DEF StoreToken, TypeOK, RecordType, Fate
    <3> QED
      BY <1>4, <2>1, <3>4, QuietType DEF StoreToken
  <2>3. CASE local[r].user \notin DOMAIN user
    BY <1>4, <2>1, <2>3, QuietType DEF StoreToken, TypeOK, RecordType
  <2> QED
    BY <2>2, <2>3
<1>5. ASSUME SendMail(r) PROVE TypeOK'
  <2>1. ControlType'
    BY <1>5, ControlSteps DEF SendMail, Step, Finished
  <2> QED
    BY <1>5, <2>1, QuietType DEF SendMail, TypeOK, RecordType
<1>6. ASSUME SetPassword(r) PROVE TypeOK'
  <2>1. ControlType'
    BY <1>6, ControlSteps DEF SetPassword, Step, Finished
  <2>2. CASE local[r].user \in DOMAIN user
    <3> DEFINE u == local[r].user
               v == [user[u] EXCEPT !.password = r]
               w == [user[u] EXCEPT !.password = r, !.token = NoRequest]
    <3>1. w \in User
      <4>1. v \in User
        BY <1>1, <2>2 DEF User
      <4>2. w = [v EXCEPT !.token = NoRequest]
        BY <1>1, <2>2 DEF User
      <4> HIDE DEF v, w
      <4> QED
        BY <4>1, <4>2 DEF User
    <3>2. user' = [user EXCEPT ![u] = w]
      BY <1>1, <1>6, <2>2 DEF SetPassword, TokenAfter
    <3>3. DOMAIN user' \subseteq UserIds /\ user' \in [DOMAIN user' -> User]
      BY <2>2, <3>1, <3>2, UserUpdate
    <3>4. RecordType'
      BY <1>6, <2>2, <3>3 DEF SetPassword, TypeOK, RecordType, Fate
    <3> QED
      BY <1>6, <2>1, <3>4, QuietType DEF SetPassword
  <2>3. CASE local[r].user \notin DOMAIN user
    BY <1>6, <2>1, <2>3, QuietType DEF SetPassword, TypeOK, RecordType
  <2> QED
    BY <2>2, <2>3
<1>7. ASSUME UpdateUser(r) PROVE TypeOK'
  <2>1. ControlType'
    BY <1>7, ControlSteps DEF UpdateUser, Step, Finished
  <2>2. CASE UNCHANGED <<user, fate>>
    BY <1>7, <2>1, <2>2, QuietType DEF UpdateUser, TypeOK, RecordType
  <2>3. CASE ~UNCHANGED <<user, fate>>
    <3> DEFINE u == op[r].target
               w == Updated(r, user[u])
    <3>1. /\ u \in DOMAIN user /\ user' = [user EXCEPT ![u] = w]
          /\ fate' = [f \in Requests |->
               IF f = user[u].token /\ f # w.token THEN "rewritten" ELSE fate[f]]
      BY <1>7, <2>3 DEF UpdateUser
    <3>2. w \in User
      BY <1>1, <1>2, <3>1, UpdatedType
    <3>3. DOMAIN user' \subseteq UserIds /\ user' \in [DOMAIN user' -> User]
      <4> HIDE DEF w
      <4> QED
        BY <3>1, <3>2, UserUpdate
    <3>4. fate' \in [Requests -> Fate]
      <4> HIDE DEF w
      <4> QED
        BY <3>1 DEF TypeOK, Fate
    <3>5. RecordType'
      BY <1>7, <3>3, <3>4 DEF UpdateUser, TypeOK, RecordType
    <3> QED
      BY <1>7, <2>1, <3>5, QuietType DEF UpdateUser
  <2> QED
    BY <2>2, <2>3
<1>8. ASSUME Delete(r) PROVE TypeOK'
  <2>1. ControlType'
    BY <1>8, ControlSteps DEF Delete, Step, Finished
  <2>2. RecordType'
    BY <1>8 DEF Delete, TypeOK, RecordType
  <2> QED
    BY <1>8, <2>1, <2>2, QuietType DEF Delete
<1> QED
  BY <1>3, <1>4, <1>5, <1>6, <1>7, <1>8

\* Starting a request.
LEMMA StartTypes ==
  ASSUME TypeOK, NEW r \in Requests
  PROVE  /\ Begin(r) => TypeOK'
         /\ Authenticate(r) => TypeOK'
         /\ ReadSlot(r) => TypeOK'
<1>1. Meets(r) => overlap' \subseteq SUBSET Requests
  BY DEF TypeOK, Meets
<1>2. op[r] \in Operation /\ op[r].kind \in Kinds /\ op[r].who \in UserIds
  BY DEF TypeOK, Operation
<1>3. FirstStep[op[r].kind] \in Step \/ op[r].kind = "link"
  BY <1>2 DEF Kinds, Guarded, FirstStep, Step, Finished
<1>4. ASSUME Begin(r) PROVE TypeOK'
  <2>1. ControlType'
    BY <1>3, <1>4, ControlSteps DEF Begin
  <2> QED
    BY <1>1, <1>4, <2>1 DEF Begin, SameRecords, ControlType, TypeOK
<1>5. ASSUME Authenticate(r) PROVE TypeOK'
  <2>1. ControlType'
    BY <1>3, <1>5, ControlSteps DEF Authenticate, Guarded
  <2>2. slot' \in [user : UserIds \cup {NoUser}, expires : Nat]
    BY <1>2, <1>5, SignInAssumption DEF Authenticate, Put, TypeOK
  <2>3. seen' \in [UserIds -> SUBSET UserIds]
    BY <1>2, <1>5 DEF Authenticate, TypeOK
  <2> QED
    BY <1>1, <1>5, <2>1, <2>2, <2>3 DEF Authenticate, SameRecords, ControlType, TypeOK
<1>6. ASSUME ReadSlot(r) PROVE TypeOK'
  <2>1. Get \in UserIds \cup {NoUser}
    BY DEF Get, TypeOK
  <2>2. pc' \in [Requests -> Step]
    BY <1>6 DEF ReadSlot, TypeOK, Goto, Step, Finished
  <2>3. local' \in [Requests -> Local] /\ answer' \in [Requests -> Answer]
    <3>1. /\ local' = [local EXCEPT ![r] = [local[r] EXCEPT !.user = Get]]
          /\ answer' = answer
      BY <1>6 DEF ReadSlot
    <3>2. [local[r] EXCEPT !.user = Get] \in Local
      <4>1. local[r] \in Local
        BY DEF TypeOK
      <4> QED
        BY <2>1, <4>1, LocalKept
    <3> QED
      BY <3>1, <3>2 DEF TypeOK
  <2> QED
    BY <1>1, <1>6, <2>2, <2>3 DEF ReadSlot, SameRecords, TypeOK
<1> QED
  BY <1>4, <1>5, <1>6

LEMMA FaultTypes ==
  ASSUME TypeOK
  PROVE  /\ \A r \in Requests : Fails(r) => TypeOK'
         /\ Restart => TypeOK'
         /\ Tick => TypeOK'
<1>1. ASSUME NEW r \in Requests, Fails(r) PROVE TypeOK'
  <2>1. ControlType'
    BY <1>1, AnswersOwn, ControlSteps DEF Fails, Step, Finished
  <2>2. faults' \in 0..MaxFaults
    BY <1>1, SignInAssumption DEF Fails, TypeOK
  <2> QED
    BY <1>1, <2>1, <2>2 DEF Fails, SameRecords, ControlType, TypeOK
<1>2. ASSUME Restart PROVE TypeOK'
  <2>1. pc' \in [Requests -> Step]
    BY <1>2 DEF Restart, TypeOK, Step, Finished
  <2>2. faults' \in 0..MaxFaults
    BY <1>2, SignInAssumption DEF Restart, TypeOK
  <2>3. slot' \in [user : UserIds \cup {NoUser}, expires : Nat]
    BY <1>2 DEF Restart, Empty
  <2> QED
    BY <1>2, <2>1, <2>2, <2>3 DEF Restart, SameRecords, TypeOK
<1>3. ASSUME Tick PROVE TypeOK'
  <2>1. clock' \in 0..MaxClock
    BY <1>3, SignInAssumption DEF Tick, TypeOK
  <2> QED
    BY <1>3, <2>1 DEF Tick, SameRecords, TypeOK
<1> QED
  BY <1>1, <1>2, <1>3

LEMMA NextTypeOK == TypeOK /\ OwnerKnown /\ [Next]_vars => TypeOK'
<1> SUFFICES ASSUME TypeOK, OwnerKnown, [Next]_vars PROVE TypeOK'
  OBVIOUS
<1>1. ASSUME NEW r \in Requests, RequestStep(r) PROVE TypeOK'
  BY <1>1, LookupTypes, ProfileTypes, UserTypes, StartTypes DEF RequestStep
<1>2. CASE UNCHANGED vars
  BY <1>2 DEF vars, handlers, TypeOK
<1> QED
  BY <1>1, <1>2, FaultTypes DEF Next
-----------------------------------------------------------------------------
(* Profiles that are alike.                                                *)

\* What a step is to the other requests when it neither starts a request nor
\* has to do with its profile.
Tame(r) ==
  /\ Running(r)
  /\ \E s \in Step \ {"idle", "insertProfile"} : Goto(r, s)
  /\ \A q \in Requests \ {r} : local'[q] = local[q]
  /\ profiles' \subseteq profiles
  /\ UNCHANGED <<op, overlap>>

LEMMA TameSteps ==
  ASSUME TypeOK, NEW r \in Requests, RequestStep(r) \/ Fails(r)
  PROVE  \/ Begin(r) \/ Authenticate(r) \/ ReadSlot(r)
         \/ LoadProfiles(r) \/ InsertProfile(r) \/ Tame(r)
<1> DEFINE Plain == Step \ {"idle", "insertProfile"}
           Moves == /\ \E s \in Plain : Goto(r, s)
                    /\ \A q \in Requests \ {r} : local'[q] = local[q]
<1>1. \A s \in Plain : Ends(r, s) => Moves
  BY DEF Ends
<1>2. \A u, n : Answers(r, u, n) => Moves
  BY DEF Answers, Step, Finished
<1>3. \A u : \A s \in Plain : Keeps(r, u, s) => Moves
  BY DEF Keeps, TypeOK
<1>4. Moves /\ Running(r) /\ Reads => Tame(r)
  BY DEF Tame, Reads, Quiet, SameRecords
<1>5. Moves /\ Running(r) /\ Quiet /\ profiles' \subseteq profiles => Tame(r)
  BY DEF Tame, Quiet
<1>6. FindOwner(r) => Tame(r)
  <2> SUFFICES ASSUME FindOwner(r) PROVE Tame(r)
    OBVIOUS
  <2>1. Moves
    BY <1>1 DEF FindOwner, Step, TypeOK, Finished
  <2> QED
    BY <1>4, <2>1 DEF FindOwner, Running, Finished
<1>7. Ask(r) => Tame(r)
  BY <1>1, <1>4 DEF Ask, Running, Step, Finished
<1>8. Lookup(r) => Tame(r)
  BY <1>1, <1>2, <1>3, <1>4 DEF Lookup, Running, Step, Finished
<1>9. Taken(r) => Tame(r)
  BY <1>1, <1>2, <1>3, <1>4 DEF Taken, Running, Step, Finished
<1>10. InsertUser(r) => Tame(r)
  <2> SUFFICES ASSUME InsertUser(r) PROVE Tame(r)
    OBVIOUS
  <2>1. Moves
    BY <1>1, <1>2 DEF InsertUser, Step, TypeOK, Finished
  <2> QED
    BY <1>5, <2>1 DEF InsertUser, Running, Finished
<1>11. Password(r) \/ Username(r) => Tame(r)
  BY <1>1, <1>2, <1>4 DEF Password, Username, Running, Step, Finished
<1>12. FindProvider(r) => Tame(r)
  BY <1>1, <1>2, <1>4 DEF FindProvider, Running, Step, Finished
<1>13. Unlink(r) => Tame(r)
  BY <1>1, <1>5 DEF Unlink, Running, Step, Finished
<1>14. StoreToken(r) \/ SendMail(r) => Tame(r)
  BY <1>1, <1>5 DEF StoreToken, SendMail, Running, Step, Finished
<1>15. FindByToken(r) => Tame(r)
  BY <1>1, <1>3, <1>4 DEF FindByToken, Running, Step, Finished
<1>16. SetPassword(r) \/ UpdateUser(r) \/ Delete(r) => Tame(r)
  BY <1>1, <1>5 DEF SetPassword, UpdateUser, Delete, Running, Step, Finished
<1>17. Fails(r) => Tame(r)
  <2> SUFFICES ASSUME Fails(r) PROVE Tame(r)
    OBVIOUS
  <2>1. Moves
    BY <1>1, <1>2 DEF Fails, Step, Finished
  <2> QED
    BY <2>1 DEF Fails, Tame, SameRecords
<1> QED
  BY <1>6, <1>7, <1>8, <1>9, <1>10, <1>11, <1>12, <1>13, <1>14, <1>15, <1>16, <1>17
     DEF RequestStep

LEMMA TameKeeps ==
  ASSUME SignInInv, NEW r \in Requests, Tame(r)
  PROVE  TwinsInv'
<1>1. /\ pc \in [Requests -> Step]
      /\ \A p \in profiles : p.by \in Requests
  BY DEF SignInInv, TypeOK, Profile
<1>2. PICK s \in Step \ {"idle", "insertProfile"} : pc' = [pc EXCEPT ![r] = s]
  BY DEF Tame, Goto
<1>3. /\ \A q \in Requests : Running(q)' => Running(q)
      /\ \A q \in Requests : pc'[q] = "insertProfile" =>
           q # r /\ pc[q] = "insertProfile" /\ local'[q] = local[q]
      /\ \A p \in profiles : pc[p.by] = "done" => pc'[p.by] = "done"
  BY <1>1, <1>2 DEF Tame, Running, Finished
<1>4. /\ profiles' \subseteq profiles /\ op' = op /\ overlap' = overlap
  BY DEF Tame
<1>5. \A q \in Requests, p \in profiles : local'[q] = local[q] => (Alike(p, q)' <=> Alike(p, q))
  BY <1>4 DEF Alike, ProfileEmail, Stored
<1>6. OwnerKnown'
  BY <1>3 DEF SignInInv, TwinsInv, OwnerKnown
<1>7. RunningOverlap' /\ MadeByDone' /\ TwinsOverlap'
  BY <1>3, <1>4 DEF SignInInv, TwinsInv, RunningOverlap, MadeByDone, TwinsOverlap, Overlapped
<1>8. AlikeOverlap'
  BY <1>3, <1>4, <1>5 DEF SignInInv, TwinsInv, AlikeOverlap, Overlapped
<1> QED
  BY <1>6, <1>7, <1>8 DEF TwinsInv

\* A request starts: it overlaps those that run.
LEMMA StartKeeps ==
  ASSUME SignInInv, NEW r \in Requests, Begin(r) \/ Authenticate(r) \/ ReadSlot(r)
  PROVE  TwinsInv'
<1>1. /\ pc \in [Requests -> Step] /\ op \in [Requests -> Operation]
      /\ \A p \in profiles : p.by \in Requests
  BY DEF SignInInv, TypeOK, Profile
<1>2. op[r].kind \in Kinds /\ pc[r] = "idle"
  BY <1>1 DEF Operation, Begin, Authenticate, ReadSlot
<1>3. PICK s \in Step \ {"idle", "insertProfile"} : pc' = [pc EXCEPT ![r] = s]
  <2>1. CASE Begin(r)
    <3>1. FirstStep[op[r].kind] \in Step \ {"idle", "insertProfile"}
      BY <1>2, <2>1 DEF Begin, Kinds, Guarded, FirstStep, Step, Finished
    <3> QED
      BY <2>1, <3>1 DEF Begin, Ends, Goto
  <2>2. CASE Authenticate(r)
    <3>1. FirstStep[op[r].kind] \in Step \ {"idle", "insertProfile"}
      BY <1>2, <2>2 DEF Authenticate, Guarded, FirstStep, Step, Finished
    <3> QED
      BY <2>2, <3>1 DEF Authenticate, Ends, Goto
  <2>3. CASE ReadSlot(r)
    <3>1. pc' = [pc EXCEPT ![r] = "failed"] \/ pc' = [pc EXCEPT ![r] = "owner"]
      BY <2>3 DEF ReadSlot, Goto
    <3> QED
      BY <3>1 DEF Step, Finished
  <2> QED
    BY <2>1, <2>2, <2>3
<1>4. /\ profiles' = profiles /\ op' = op /\ Meets(r)
      /\ \A q \in Requests \ {r} : local'[q] = local[q]
  BY DEF Begin, Authenticate, ReadSlot, Ends, SameRecords, SignInInv, TypeOK
<1>5. /\ \A q \in Requests \ {r} : Running(q)' => Running(q)
      /\ \A q \in Requests : pc'[q] = "insertProfile" =>
           q # r /\ pc[q] = "insertProfile" /\ local'[q] = local[q]
      /\ \A p \in profiles : pc[p.by] = "done" => pc'[p.by] = "done"
  BY <1>1, <1>2, <1>3, <1>4 DEF Running, Finished
<1>6. /\ overlap \subseteq overlap'
      /\ \A q \in Requests : Running(q) => {r, q} \in overlap'
  BY <1>4 DEF Meets
<1>7. \A q \in Requests, p \in profiles : local'[q] = local[q] => (Alike(p, q)' <=> Alike(p, q))
  BY <1>4 DEF Alike, ProfileEmail, Stored
<1>8. OwnerKnown'
  BY <1>5 DEF SignInInv, TwinsInv, OwnerKnown
<1>9. RunningOverlap'
  <2> SUFFICES ASSUME NEW p \in Requests, NEW q \in Requests, Running(p)', Running(q)', p # q
               PROVE  {p, q} \in overlap'
    BY DEF RunningOverlap, Overlapped
  <2>1. CASE p = r
    BY <1>5, <1>6, <2>1
  <2>2. CASE q = r
    <3>1. {p, q} = {q, p}
      OBVIOUS
    <3> QED
      BY <1>5, <1>6, <2>2, <3>1
  <2>3. CASE p # r /\ q # r
    BY <1>5, <1>6, <2>3 DEF SignInInv, TwinsInv, RunningOverlap, Overlapped
  <2> QED
    BY <2>1, <2>2, <2>3
<1>10. MadeByDone' /\ TwinsOverlap'
  BY <1>4, <1>5, <1>6 DEF SignInInv, TwinsInv, MadeByDone, TwinsOverlap, Overlapped
<1>11. AlikeOverlap'
  BY <1>4, <1>5, <1>6, <1>7 DEF SignInInv, TwinsInv, AlikeOverlap, Overlapped
<1> QED
  BY <1>8, <1>9, <1>10, <1>11 DEF TwinsInv

\* A request has looked at the user's profiles and found none alike.
LEMMA LoadKeeps ==
  ASSUME SignInInv, NEW r \in Requests, LoadProfiles(r)
  PROVE  TwinsInv'
<1>1. /\ pc \in [Requests -> Step] /\ local \in [Requests -> Local]
      /\ \A p \in profiles : p.by \in Requests
      /\ DOMAIN user \subseteq UserIds
  BY DEF SignInInv, TypeOK, Profile
<1>2. /\ profiles' = profiles /\ op' = op /\ overlap' = overlap
      /\ \A q \in Requests \ {r} : local'[q] = local[q]
      /\ pc[r] = "profiles"
  BY <1>1 DEF LoadProfiles, Reads, Quiet, SameRecords, Ends, Answers
<1>3. PICK s \in Step \ {"idle"} : pc' = [pc EXCEPT ![r] = s]
  BY DEF LoadProfiles, Ends, Answers, Goto, Step, Finished
<1>4. /\ \A q \in Requests : Running(q)' => Running(q)
      /\ \A q \in Requests \ {r} : pc'[q] = "insertProfile" =>
           pc[q] = "insertProfile" /\ local'[q] = local[q]
      /\ \A p \in profiles : pc[p.by] = "done" => pc'[p.by] = "done"
  BY <1>1, <1>2, <1>3 DEF Running, Finished
<1>5. \A q \in Requests, p \in profiles : local'[q] = local[q] => (Alike(p, q)' <=> Alike(p, q))
  BY <1>2 DEF Alike, ProfileEmail, Stored
<1>6. ASSUME pc'[r] = "insertProfile"
      PROVE  /\ local[r].user \in UserIds /\ ~Twin(r)
             /\ local' = [local EXCEPT ![r].first = ~\E p \in profiles : p.user = local[r].user]
  BY <1>1, <1>6 DEF LoadProfiles, Ends, Answers, Goto
<1>7. ASSUME pc'[r] = "insertProfile"
      PROVE  local'[r].user \in UserIds /\ \A p \in profiles : ~Alike(p, r)'
  <2>1. /\ local'[r].user = local[r].user /\ local'[r].email = local[r].email
        /\ local'[r].first => ~\E p \in profiles : p.user = local[r].user
    BY <1>1, <1>6, <1>7 DEF Local
  <2> QED
    BY <1>2, <1>6, <1>7, <2>1 DEF Alike, Twin, ProfileEmail, Stored
<1>8. OwnerKnown'
  BY <1>4, <1>7 DEF SignInInv, TwinsInv, OwnerKnown
<1>9. RunningOverlap' /\ MadeByDone' /\ TwinsOverlap'
  BY <1>2, <1>4 DEF SignInInv, TwinsInv, RunningOverlap, MadeByDone, TwinsOverlap, Overlapped
<1>10. AlikeOverlap'
  BY <1>2, <1>4, <1>5, <1>7 DEF SignInInv, TwinsInv, AlikeOverlap, Overlapped
<1> QED
  BY <1>8, <1>9, <1>10 DEF TwinsInv

\* A profile is made: those like it come from requests that overlapped, and those
\* that are about to make one like it run now.
LEMMA InsertKeeps ==
  ASSUME SignInInv, NEW r \in Requests, InsertProfile(r)
  PROVE  TwinsInv'
<1>1. /\ pc \in [Requests -> Step]
      /\ \A p \in profiles : p.by \in Requests
      /\ pc[r] = "insertProfile" /\ pc' = [pc EXCEPT ![r] = "done"]
      /\ op' = op /\ overlap' = overlap /\ local' = local
  BY DEF SignInInv, TypeOK, Profile, InsertProfile, Answers, Goto, Quiet
<1>2. \A p \in profiles' : \/ p \in profiles
                           \/ /\ p.by = r /\ p.user = local[r].user
                              /\ p.provider = Stored(op[r]) /\ p.email = ProfileEmail(r)
                              /\ p.primary = local[r].first
  BY DEF InsertProfile, Valid
<1>3. /\ \A q \in Requests : Running(q)' => Running(q) /\ q # r
      /\ \A q \in Requests : pc'[q] = "insertProfile" => pc[q] = "insertProfile" /\ q # r
      /\ \A p \in profiles : pc[p.by] = "done" => pc'[p.by] = "done" /\ p.by # r
  BY <1>1 DEF Running, Finished
<1>4. \A q \in Requests, p \in profiles' : Alike(p, q)' <=> Alike(p, q)
  BY <1>1 DEF Alike, ProfileEmail, Stored
<1>5. OwnerKnown' /\ RunningOverlap'
  BY <1>1, <1>3 DEF SignInInv, TwinsInv, OwnerKnown, RunningOverlap, Overlapped
<1>6. MadeByDone'
  BY <1>1, <1>2, <1>3 DEF SignInInv, TwinsInv, MadeByDone
<1>7. AlikeOverlap'
  <2> SUFFICES ASSUME NEW q \in Requests, pc'[q] = "insertProfile",
                      NEW p \in profiles', Alike(p, q)'
               PROVE  {p.by, q} \in overlap'
    BY DEF AlikeOverlap, Overlapped
  <2>1. CASE p \in profiles
    BY <1>1, <1>3, <1>4, <2>1 DEF SignInInv, TwinsInv, AlikeOverlap, Overlapped
  <2>2. CASE p \notin profiles
    <3>1. p.by = r /\ Running(r) /\ Running(q) /\ r # q
      BY <1>1, <1>2, <1>3, <2>2 DEF Running, Finished
    <3> QED
      BY <1>1, <3>1 DEF SignInInv, TwinsInv, RunningOverlap, Overlapped
  <2> QED
    BY <2>1, <2>2
<1>8. TwinsOverlap'
  <2>1. \A p \in profiles : Alike(p, r) => {p.by, r} \in overlap
    BY <1>1 DEF SignInInv, TwinsInv, AlikeOverlap, Overlapped
  <2> SUFFICES ASSUME NEW p \in profiles', NEW q \in profiles', p.user = q.user, p.by # q.by,
                      (p.provider = q.provider /\ p.email = q.email) \/ (p.primary /\ q.primary)
               PROVE  {p.by, q.by} \in overlap'
    BY DEF TwinsOverlap, Overlapped
  <2>2. CASE p \in profiles /\ q \in profiles
    BY <1>1, <2>2 DEF SignInInv, TwinsInv, TwinsOverlap, Overlapped
  <2>3. CASE p \in profiles /\ q \notin profiles
    BY <1>1, <1>2, <2>1, <2>3 DEF Alike
  <2>4. CASE p \notin profiles /\ q \in profiles
    <3>1. {p.by, q.by} = {q.by, p.by}
      OBVIOUS
    <3>2. Alike(q, r) /\ p.by = r
      BY <1>2, <2>4 DEF Alike
    <3> QED
      BY <1>1, <2>1, <2>4, <3>1, <3>2
  <2>5. CASE p \notin profiles /\ q \notin profiles
    BY <1>2, <2>5
  <2> QED
    BY <2>2, <2>3, <2>4, <2>5
<1> QED
  BY <1>5, <1>6, <1>7, <1>8 DEF TwinsInv

LEMMA NextTwinsInv == SignInInv /\ [Next]_vars => TwinsInv'
<1> SUFFICES ASSUME SignInInv, [Next]_vars PROVE TwinsInv'
  OBVIOUS
<1>1. ASSUME NEW r \in Requests, RequestStep(r) \/ Fails(r) PROVE TwinsInv'
  BY <1>1, TameSteps, TameKeeps, StartKeeps, LoadKeeps, InsertKeeps DEF SignInInv
<1>2. ASSUME Restart PROVE TwinsInv'
  <2>1. /\ UNCHANGED <<op, local, overlap, profiles>>
        /\ \A q \in Requests : pc'[q] = "insertProfile" \/ Running(q)' => FALSE
        /\ \A q \in Requests : pc[q] = "done" => pc'[q] = "done"
    BY <1>2 DEF Restart, SameRecords, Running, Finished
  <2>2. \A p \in profiles : p.by \in Requests
    BY DEF SignInInv, TypeOK, Profile
  <2>3. OwnerKnown' /\ RunningOverlap' /\ AlikeOverlap'
    BY <2>1 DEF OwnerKnown, RunningOverlap, AlikeOverlap
  <2>4. MadeByDone' /\ TwinsOverlap'
    BY <2>1, <2>2 DEF SignInInv, TwinsInv, MadeByDone, TwinsOverlap, Overlapped
  <2> QED
    BY <2>3, <2>4 DEF TwinsInv
<1>3. CASE Tick \/ UNCHANGED vars
  <2>1. UNCHANGED <<op, pc, local, overlap, profiles>>
    BY <1>3 DEF Tick, SameRecords, vars, handlers
  <2> QED
    BY <2>1 DEF SignInInv, TwinsInv, OwnerKnown, RunningOverlap, MadeByDone, AlikeOverlap,
       TwinsOverlap, Overlapped, Running, Alike, ProfileEmail, Finished
<1> QED
  BY <1>1, <1>2, <1>3 DEF Next
-----------------------------------------------------------------------------
LEMMA SignInInvariant == Spec => []SignInInv
<1>1. Init => SignInInv
  <2> SUFFICES ASSUME Init PROVE SignInInv
    OBVIOUS
  <2>1. TypeOK
    BY InitTypeOK
  <2>2. TwinsInv
    BY DEF Init, TwinsInv, OwnerKnown, RunningOverlap, MadeByDone, AlikeOverlap, TwinsOverlap,
       Running, Finished, HandlersInit
  <2> QED
    BY <2>1, <2>2 DEF SignInInv
<1>2. SignInInv /\ [Next]_vars => SignInInv'
  BY NextTypeOK, NextTwinsInv DEF SignInInv, TwinsInv
<1> QED
  BY <1>1, <1>2, PTL DEF Spec

\* Every variable keeps its type, whatever requests overlap: in particular no
\* profile is made for nobody, although the callbacks take their user from the
\* cache (AuthService, Userv1Service, SocialProfileV1Service).
THEOREM SignInTypeCorrect == Spec => []TypeOK
<1>1. SignInInv => TypeOK
  BY DEF SignInInv
<1> QED
  BY <1>1, SignInInvariant, PTL

\* However many requests there are, a user has two like profiles, or two primary
\* ones, only from requests that overlapped (SocialProfileV1Service.create).
THEOREM OnlyOverlapMakesTwins == Spec => []TwinsOverlap
<1>1. SignInInv => TwinsOverlap
  BY DEF SignInInv, TwinsInv
<1> QED
  BY <1>1, SignInInvariant, PTL
-----------------------------------------------------------------------------
(* Accounts: what requests know of users, tokens and addresses.            *)

\* Steps before which a request has made no user, and the ids of all the users
\* there ever were.
Unborn == {"idle", "owner", "ask", "lookup", "taken", "insertUser"}
Known == InitialUsers \cup {u \in Requests : pc[u] \notin Unborn}

\* The steps each kind of request comes to.
KindsInv ==
  \A r \in Requests :
    /\ pc[r] = "owner" => op[r].kind = "link"
    /\ pc[r] = "ask" => op[r].kind \in {"link", "sso", "ssoLogin"}
    /\ pc[r] = "lookup" => op[r].kind \in {"sso", "ssoLogin", "signup", "forgot"}
    /\ pc[r] \in {"taken", "insertUser"} => op[r].kind \in {"sso", "signup", "create"}
    /\ pc[r] \in {"provider", "profiles", "insertProfile"} => op[r].kind \in {"link", "sso"}
    /\ pc[r] = "password" => op[r].kind = "login"
    /\ pc[r] = "username" => op[r].kind = "refresh" /\ op[r].of \in Requests
    /\ pc[r] \in {"storeToken", "mail"} => op[r].kind = "forgot"
    /\ pc[r] \in {"byToken", "setPassword"} => op[r].kind = "reset" /\ op[r].of \in Requests
    /\ pc[r] = "update" => op[r].kind = "update"
    /\ pc[r] \in {"delete", "unlink"} => op[r].kind \in Guarded

\* Users, and the ids requests keep or answer with, are such ids: a user who is
\* deleted never comes back.  A linking callback keeps what the cache gave it.
KnownInv ==
  /\ DOMAIN user \subseteq Known
  /\ \A r \in Requests : op[r].kind # "link" =>
       {local[r].user, answer[r].user} \subseteq Known \cup {NoUser}

\* Who is answered with the user who has his address.
ByAddress == {"sso", "ssoLogin", "signup"}

\* A user found by his address has it still, unless an update wrote it since.
OwnInv ==
  \A r \in Requests :
    /\ pc[r] = "idle" => local[r].user = NoUser
    /\ op[r].kind = "sso" /\ Running(r) /\ local[r].user \in DOMAIN user =>
         user[local[r].user].email = op[r].email \/ Readdressed(local[r].user, r)

\* A sign-up only finds the address taken, once it has looked, by a user whom a
\* request made, or gave the address, that overlapped it.
Newcomer(u, r) == Readdressed(u, r) \/ (u \in Requests /\ Overlapped(r, u))

SignupInv ==
  \A r \in Requests : op[r].kind = "signup" /\ pc[r] = "taken" =>
    \A u \in Holders(op[r]) : Newcomer(u, r)

\* The forgot requests that have stored their token keep the user they are for;
\* users have no other tokens, and none is written back to anybody else.
Sent(f) == op[f].kind = "forgot" /\ pc[f] \in {"mail", "done", "broken"}

TokenInv ==
  \A u \in DOMAIN user : user[u].token \in Requests =>
    Sent(user[u].token) /\ local[user[u].token].user = u

RestoreInv ==
  \A r, f \in Requests : pc[r] = "update" /\ Restores(op[r], f) =>
    Sent(f) /\ local[f].user = op[r].target

\* An update has written the token back.
Restored(f) == \E p \in Requests : pc[p] = "done" /\ Restores(op[p], f)

\* A reset is for the user its link was made for; once it is done, nobody has the
\* link unless it was restored, so those that are done or about to be overlapped it.
ResetInv ==
  \A r \in Requests : op[r].kind = "reset" =>
    /\ pc[r] \in {"setPassword", "done"} => op[r].of \in Requests /\ Sent(op[r].of)
    /\ pc[r] = "setPassword" => local[op[r].of].user = local[r].user
    /\ pc[r] = "done" =>
         Restored(op[r].of) \/ \A u \in DOMAIN user : user[u].token # op[r].of
    /\ \A q \in Requests : /\ q # r /\ op[q].kind = "reset" /\ op[q].of = op[r].of
                           /\ pc[r] \in {"setPassword", "done"} /\ pc[q] = "done"
                           => Overlapped(r, q) \/ Restored(op[r].of)

\* A reset that is about to clear a token it has not looked up overlapped a
\* request that wrote it.
Crossed(t, r) == \E p \in Requests : Writes(p, t) /\ Overlapped(p, r)

OvertakenInv ==
  \A r \in Requests : pc[r] = "setPassword" /\ local[r].user \in DOMAIN user =>
    LET t == user[local[r].user].token
    IN t \in Requests \ {op[r].of} => Crossed(t, r)

\* MailedTokenWorks of one link, from when it is stored.
Works(f) ==
  \/ \E u \in DOMAIN user : user[u].token = f
  \/ fate[f] \in {"used", "replaced", "rewritten"}
  \/ fate[f] = "cleared" /\ \E q \in Requests : op[q].kind = "reset" /\ Crossed(f, q)
  \/ local[f].user \notin DOMAIN user

MailInv == \A f \in Requests : pc[f] = "mail" \/ f \in mailed => Sent(f) /\ Works(f)

\* The unique index on username.
NamesInv == \A u, v \in DOMAIN user : user[u].username = user[v].username => u = v

\* Whoever is in the cache's entry made a request after everybody else's last.
SlotInv == slot.user # NoUser => \A w \in UserIds \ {slot.user} : slot.user \in seen[w]

-----------------------------------------------------------------------------
\* A step changes the variables of one request.
LEMMA OthersStay ==
  ASSUME TypeOK, NEW r \in Requests, RequestStep(r) \/ Fails(r)
  PROVE  /\ op' = op /\ overlap \subseteq overlap'
         /\ \A q \in Requests \ {r} :
              pc'[q] = pc[q] /\ local'[q] = local[q] /\ answer'[q] = answer[q]
         /\ pc[r] \notin Finished
<1> DEFINE Same == \A q \in Requests \ {r} : /\ pc'[q] = pc[q] /\ local'[q] = local[q]
                                             /\ answer'[q] = answer[q]
<1> USE DEF TypeOK, Goto, Finished
<1>1. /\ \A s : Ends(r, s) => Same
      /\ \A u, n : Answers(r, u, n) => Same
      /\ \A u, s : Keeps(r, u, s) => Same
  BY DEF Ends, Answers, Keeps
<1>2. Begin(r) \/ Authenticate(r) \/ ReadSlot(r)
      => Same /\ op' = op /\ overlap \subseteq overlap' /\ pc[r] = "idle"
  BY <1>1 DEF Begin, Authenticate, ReadSlot, Meets
<1>3. FindOwner(r) \/ Ask(r) \/ Lookup(r) \/ Taken(r) \/ Password(r) \/ Username(r)
      => Same /\ pc[r] \notin Finished
  BY <1>1 DEF FindOwner, Ask, Lookup, Taken, Password, Username
<1>4. FindProvider(r) \/ LoadProfiles(r) \/ InsertProfile(r) \/ Unlink(r) \/ FindByToken(r)
      => Same /\ pc[r] \notin Finished
  BY <1>1 DEF FindProvider, LoadProfiles, InsertProfile, Unlink, FindByToken
<1>5. InsertUser(r) \/ StoreToken(r) \/ SendMail(r) \/ SetPassword(r) \/ UpdateUser(r) \/ Delete(r)
      => Same /\ pc[r] \notin Finished
  BY <1>1 DEF InsertUser, StoreToken, SendMail, SetPassword, UpdateUser, Delete
<1>6. Fails(r) => Same /\ pc[r] \notin Finished
  BY <1>1 DEF Fails, Running
<1> QED
  BY <1>1, <1>2, <1>3, <1>4, <1>5, <1>6
     DEF RequestStep, Fails, Reads, Quiet, FindOwner, Ask, Lookup, Taken, Password, Username,
         FindProvider, LoadProfiles, InsertProfile, Unlink, FindByToken, InsertUser, StoreToken,
         SendMail, SetPassword, UpdateUser, Delete

\* The parts of the invariant, one by one.
LEMMA KindsStep ==
  ASSUME TypeOK, KindsInv, [Next]_vars
  PROVE  KindsInv'
<1>1. ASSUME NEW r \in Requests, RequestStep(r) \/ Fails(r) PROVE KindsInv'
  <2> DEFINE Good(s) == /\ s = "owner" => op[r].kind = "link"
                        /\ s = "ask" => op[r].kind \in {"link", "sso", "ssoLogin"}
                        /\ s = "lookup" => op[r].kind \in {"sso", "ssoLogin", "signup", "forgot"}
                        /\ s \in {"taken", "insertUser"}
                             => op[r].kind \in {"sso", "signup", "create"}
                        /\ s \in {"provider", "profiles", "insertProfile"}
                             => op[r].kind \in {"link", "sso"}
                        /\ s = "password" => op[r].kind = "login"
                        /\ s = "username" => op[r].kind = "refresh" /\ op[r].of \in Requests
                        /\ s \in {"storeToken", "mail"} => op[r].kind = "forgot"
                        /\ s \in {"byToken", "setPassword"}
                             => op[r].kind = "reset" /\ op[r].of \in Requests
                        /\ s = "update" => op[r].kind = "update"
                        /\ s \in {"delete", "unlink"} => op[r].kind \in Guarded
  <2>1. op' = op /\ \A q \in Requests \ {r} : pc'[q] = pc[q]
    BY <1>1, OthersStay
  <2>2. Good(pc[r])
    BY DEF KindsInv
  <2>3. /\ \A s : Ends(r, s) => pc'[r] = s
        /\ \A u, n : Answers(r, u, n) => pc'[r] = "done"
        /\ \A u, s : Keeps(r, u, s) => pc'[r] = s
        /\ \A s : Goto(r, s) => pc'[r] = s
    BY DEF Ends, Answers, Keeps, Goto, TypeOK
  <2>4. Begin(r) \/ Authenticate(r) => Good(pc'[r])
    <3>1. op[r].kind \in Kinds /\ mailed \subseteq Requests
      BY DEF TypeOK, Operation
    <3> QED
      BY <2>3, <3>1 DEF Begin, Authenticate, FirstStep, Possible, Kinds, Guarded
  <2>5. ReadSlot(r) \/ FindOwner(r) \/ Ask(r) \/ Lookup(r) \/ Taken(r) => Good(pc'[r])
    BY <2>2, <2>3 DEF ReadSlot, FindOwner, Ask, Lookup, Taken
  <2>6. InsertUser(r) \/ Password(r) \/ Username(r) \/ FindProvider(r) => Good(pc'[r])
    BY <2>2, <2>3 DEF InsertUser, Password, Username, FindProvider
  <2>7. LoadProfiles(r) \/ InsertProfile(r) \/ Unlink(r) \/ Fails(r) => Good(pc'[r])
    BY <2>2, <2>3 DEF LoadProfiles, InsertProfile, Unlink, Fails
  <2>8. StoreToken(r) \/ SendMail(r) \/ FindByToken(r) \/ SetPassword(r) \/ UpdateUser(r)
        \/ Delete(r)
          => Good(pc'[r])
    BY <2>2, <2>3 DEF StoreToken, SendMail, FindByToken, SetPassword, UpdateUser, Delete
  <2>9. Good(pc'[r])
    BY <1>1, <2>4, <2>5, <2>6, <2>7, <2>8 DEF RequestStep
  <2> QED
    BY <2>1, <2>9 DEF KindsInv
<1>2. CASE Restart
  BY <1>2 DEF Restart, KindsInv, Running, TypeOK, Finished
<1>3. CASE Tick \/ UNCHANGED vars
  BY <1>3 DEF Tick, vars, handlers, KindsInv
<1> QED
  BY <1>1, <1>2, <1>3 DEF Next

\* Once known, always known.
LEMMA KnownStays ==
  ASSUME TypeOK, [Next]_vars
  PROVE  Known \subseteq Known'
<1>1. ASSUME NEW r \in Requests, RequestStep(r) \/ Fails(r), pc[r] \notin Unborn
      PROVE  pc'[r] \notin Unborn
  <2>1. /\ \A s : Ends(r, s) => pc'[r] = s
        /\ \A u, n : Answers(r, u, n) => pc'[r] = "done"
        /\ \A u, s : Keeps(r, u, s) => pc'[r] = s
        /\ \A s : Goto(r, s) => pc'[r] = s
    BY DEF Ends, Answers, Keeps, Goto, TypeOK
  <2>2. ~(Begin(r) \/ Authenticate(r) \/ ReadSlot(r) \/ FindOwner(r) \/ Ask(r) \/ Lookup(r)
          \/ Taken(r) \/ InsertUser(r))
    BY <1>1 DEF Begin, Authenticate, ReadSlot, FindOwner, Ask, Lookup, Taken, InsertUser, Unborn
  <2>3. Password(r) \/ Username(r) \/ FindProvider(r) \/ FindByToken(r) => pc'[r] \notin Unborn
    BY <2>1 DEF Password, Username, FindProvider, FindByToken, Unborn
  <2>4. LoadProfiles(r) \/ InsertProfile(r) \/ Unlink(r) \/ Fails(r) => pc'[r] \notin Unborn
    BY <2>1 DEF LoadProfiles, InsertProfile, Unlink, Fails, Unborn
  <2>5. StoreToken(r) \/ SendMail(r) \/ SetPassword(r) \/ UpdateUser(r) \/ Delete(r)
          => pc'[r] \notin Unborn
    BY <2>1 DEF StoreToken, SendMail, SetPassword, UpdateUser, Delete, Unborn
  <2> QED
    BY <1>1, <2>2, <2>3, <2>4, <2>5 DEF RequestStep
<1>2. CASE \E r \in Requests : RequestStep(r) \/ Fails(r)
  BY <1>1, <1>2, OthersStay DEF Known
<1>3. CASE Restart
  BY <1>3 DEF Restart, Known, Running, TypeOK, Finished, Unborn
<1>4. CASE Tick \/ UNCHANGED vars
  BY <1>4 DEF Tick, vars, handlers, Known
<1> QED
  BY <1>2, <1>3, <1>4 DEF Next

\* Request r writes the address of user u.
Addresses(r, u) == UpdateUser(r) /\ u = op[r].target /\ "email" \in op[r].fields

\* What a request can do to the collection of users.
LEMMA UsersAfter ==
  ASSUME TypeOK, DOMAIN user \subseteq Known, NEW r \in Requests, RequestStep(r) \/ Fails(r)
  PROVE  \A u \in DOMAIN user' :
           /\ \/ u \in DOMAIN user /\ (user'[u].email = user[u].email \/ Addresses(r, u))
              \/ /\ InsertUser(r) /\ u = r /\ u \notin DOMAIN user /\ user'[u].token = NoRequest
                 /\ user'[u].email = op[r].email
                 /\ \A v \in DOMAIN user : user[v].email # op[r].email
                 /\ user'[u].username = op[r].username
                 /\ \A v \in DOMAIN user : user[v].username # op[r].username
           /\ \/ user'[u].token = NoRequest
              \/ u \in DOMAIN user /\ user'[u].token = user[u].token
              \/ StoreToken(r) /\ u = local[r].user /\ u \in DOMAIN user /\ user'[u].token = r
              \/ /\ UpdateUser(r) /\ u = op[r].target /\ pc'[r] = "done"
                 /\ "token" \in op[r].fields /\ op[r].of = user'[u].token
           /\ \/ u \in DOMAIN user /\ user'[u].username = user[u].username
              \/ u \notin DOMAIN user
              \/ /\ UpdateUser(r) /\ u = op[r].target
                 /\ \A v \in DOMAIN user \ {u} : user[v].username # user'[u].username
<1>1. /\ user \in [DOMAIN user -> User]
      /\ \A u \in DOMAIN user : user[u] \in User
  BY DEF TypeOK
<1>2. CASE user' = user
  BY <1>2
<1>3. CASE InsertUser(r)
  <2>1. r \notin DOMAIN user
    BY <1>3, SignInAssumption DEF InsertUser, Known, Unborn
  <2> QED
    BY <1>1, <1>2, <1>3, <2>1 DEF InsertUser, Clash
<1>4. CASE StoreToken(r)
  BY <1>1, <1>4 DEF StoreToken, TokenStored, User
<1>5. CASE SetPassword(r)
  <2>1. CASE local[r].user \in DOMAIN user
    <3> DEFINE w == [user[local[r].user] EXCEPT !.password = r, !.token = NoRequest]
    <3>1. /\ w.token = NoRequest /\ w.email = user[local[r].user].email
          /\ w.username = user[local[r].user].username
      BY <1>1, <2>1 DEF User
    <3>2. user' = [user EXCEPT ![local[r].user] = w]
      BY <1>5, <2>1 DEF SetPassword, TokenAfter
    <3> QED
      BY <1>1, <2>1, <3>1, <3>2
  <2> QED
    BY <1>2, <1>5, <2>1 DEF SetPassword
<1>6. CASE UpdateUser(r)
  <2> DEFINE t == op[r].target
             w == Updated(r, user[t])
  <2>1. CASE t \in DOMAIN user /\ user' = [user EXCEPT ![t] = w] /\ Ends(r, "done")
                /\ \A v \in DOMAIN user \ {t} : user[v].username # w.username
    <3>1. /\ w.email = user[t].email \/ "email" \in op[r].fields
          /\ \/ w.token = NoRequest \/ w.token = user[t].token
             \/ "token" \in op[r].fields /\ op[r].of = w.token
      BY DEF Updated
    <3>2. pc'[r] = "done"
      BY <2>1 DEF Ends, Goto, TypeOK
    <3>3. /\ user'[t] = w /\ DOMAIN user' = DOMAIN user
          /\ \A u \in DOMAIN user \ {t} : user'[u] = user[u]
      <4> HIDE DEF w
      <4> QED
        BY <1>1, <2>1
    <3> HIDE DEF w
    <3> QED
      BY <1>6, <2>1, <3>1, <3>2, <3>3 DEF Addresses
  <2> QED
    BY <1>2, <1>6, <2>1 DEF UpdateUser
<1>7. CASE Delete(r)
  BY <1>1, <1>7 DEF Delete
<1>8. ~(InsertUser(r) \/ StoreToken(r) \/ SetPassword(r) \/ UpdateUser(r) \/ Delete(r))
        => user' = user
  BY DEF RequestStep, Begin, Authenticate, ReadSlot, FindOwner, Ask, Lookup, Taken, Password,
     Username, FindProvider, LoadProfiles, InsertProfile, Unlink, SendMail, FindByToken, Fails,
     Reads, SameRecords
<1> QED
  BY <1>2, <1>3, <1>4, <1>5, <1>6, <1>7, <1>8

\* A request that has stored its token keeps the user it is for.
LEMMA SentStays ==
  ASSUME TypeOK, [Next]_vars, NEW f \in Requests, Sent(f)
  PROVE  Sent(f)' /\ local'[f].user = local[f].user
<1>1. ASSUME RequestStep(f) \/ Fails(f)
      PROVE  Sent(f)' /\ local'[f] = local[f]
  <2>1. pc[f] = "mail" /\ op' = op
    BY <1>1, OthersStay DEF Sent, Finished
  <2>2. SendMail(f) \/ Fails(f)
    BY <1>1, <2>1 DEF RequestStep, Begin, Authenticate, ReadSlot, FindOwner, Ask, Lookup,
       Taken, Password, Username, FindProvider, LoadProfiles, InsertProfile, Unlink,
       FindByToken, InsertUser, StoreToken, SetPassword, UpdateUser, Delete
  <2> QED
    BY <2>1, <2>2 DEF SendMail, Fails, Ends, Goto, Sent, TypeOK
<1>2. ASSUME NEW r \in Requests \ {f}, RequestStep(r) \/ Fails(r)
      PROVE  Sent(f)' /\ local'[f] = local[f]
  BY <1>2, OthersStay DEF Sent
<1>3. CASE Restart
  BY <1>3 DEF Restart, Sent, Running, TypeOK, Finished
<1>4. CASE Tick \/ UNCHANGED vars
  BY <1>4 DEF Tick, vars, handlers, Sent
<1> QED
  BY <1>1, <1>2, <1>3, <1>4 DEF Next

\* Keeps writes the user.
LEMMA KeptUser ==
  ASSUME NEW w \in Local, NEW u, NEW n
  PROVE  [w EXCEPT !.user = u, !.username = n].user = u
BY DEF Local

\* Whom a request keeps or answers with, and who it inserts, exists.
LEMMA Learned ==
  ASSUME TypeOK, KindsInv, KnownInv, NEW r \in Requests, RequestStep(r) \/ Fails(r)
  PROVE  LET kept == {local[r].user, answer[r].user}
         IN /\ op[r].kind # "link" =>
                 {local'[r].user, answer'[r].user} \subseteq kept \cup DOMAIN user'
            /\ op[r].kind \in ByAddress /\ local'[r].user # local[r].user =>
                 user'[local'[r].user].email = op[r].email
<1> DEFINE kept == {local[r].user, answer[r].user}
           Learns == /\ {local'[r].user, answer'[r].user} \subseteq kept
                     /\ local'[r].user = local[r].user
           Finds == /\ user' = user
                    /\ {local'[r].user, answer'[r].user} \subseteq kept \cup Holders(op[r])
                    /\ local'[r].user \in {local[r].user} \cup Holders(op[r])
<1>1. /\ \A s : Ends(r, s) => Learns
      /\ \A u, n : Answers(r, u, n) => local' = local /\ answer'[r].user = u
      /\ \A u, s : Keeps(r, u, s) => local'[r].user = u /\ answer' = answer
  <2>1. /\ local \in [Requests -> Local] /\ answer \in [Requests -> Answer]
        /\ local[r] \in Local
    BY DEF TypeOK
  <2>2. \A s : Ends(r, s) => Learns
    BY DEF Ends
  <2>3. \A u, n : Answers(r, u, n) => local' = local /\ answer'[r].user = u
    BY <2>1 DEF Answers
  <2>4. ASSUME NEW u, NEW s, Keeps(r, u, s)
        PROVE  local'[r].user = u /\ answer' = answer
    <3>1. local'[r] = [local[r] EXCEPT !.user = u, !.username = user[u].username]
      BY <2>1, <2>4 DEF Keeps
    <3> QED
      BY <2>1, <2>4, <3>1, KeptUser DEF Keeps
  <2> QED
    BY <2>2, <2>3, <2>4
<1>2. Lookup(r) \/ Taken(r) => Finds
  BY <1>1 DEF Lookup, Taken, Reads, SameRecords
<1>3. FindProvider(r) \/ InsertProfile(r) \/ Fails(r) => Learns
  BY <1>1 DEF FindProvider, InsertProfile, Fails
<1>4. LoadProfiles(r) => Learns
  BY <1>1 DEF LoadProfiles, TypeOK, Local
<1>5. Begin(r) \/ Authenticate(r) \/ Ask(r) \/ Unlink(r) => Learns
  BY <1>1 DEF Begin, Authenticate, Ask, Unlink
<1>6. StoreToken(r) \/ SendMail(r) \/ SetPassword(r) \/ UpdateUser(r) \/ Delete(r) => Learns
  BY <1>1 DEF StoreToken, SendMail, SetPassword, UpdateUser, Delete
<1>7. ReadSlot(r) \/ FindOwner(r) => op[r].kind = "link"
  BY DEF ReadSlot, FindOwner, KindsInv
<1>8. Password(r) \/ Username(r) \/ FindByToken(r)
        => /\ op[r].kind \notin ByAddress /\ user' = user
           /\ {local'[r].user, answer'[r].user} \subseteq kept \cup DOMAIN user
  BY <1>1 DEF Password, Identified, Username, FindByToken, KindsInv, ByAddress, Reads,
     SameRecords
<1>9. ASSUME InsertUser(r)
      PROVE  \/ Learns
             \/ /\ {local'[r].user, answer'[r].user} \subseteq kept \cup {r}
                /\ local'[r].user \in {local[r].user, r}
                /\ r \in DOMAIN user' /\ user'[r].email = op[r].email
  <2>1. CASE user' = user /\ Ends(r, "failed")
    BY <1>1, <2>1
  <2>2. CASE ~(user' = user /\ Ends(r, "failed"))
    <3>1. r \in DOMAIN user' /\ user'[r].email = op[r].email
      BY <1>9, <2>2 DEF InsertUser
    <3>2. CASE /\ local' = [local EXCEPT ![r] = [@ EXCEPT !.user = r, !.username = op[r].username]]
               /\ UNCHANGED answer
      <4>1. /\ local[r] \in Local
            /\ local'[r] = [local[r] EXCEPT !.user = r, !.username = op[r].username]
        BY <3>2 DEF TypeOK
      <4>2. local'[r].user = r
        BY <4>1, KeptUser
      <4> QED
        BY <3>1, <3>2, <4>2
    <3>3. CASE Answers(r, r, op[r].username) \/ Ends(r, "done")
      BY <1>1, <3>1, <3>3
    <3> QED
      BY <1>9, <2>2, <3>2, <3>3 DEF InsertUser
  <2> QED
    BY <2>1, <2>2
<1>10. Finds => /\ {local'[r].user, answer'[r].user} \subseteq kept \cup DOMAIN user'
                /\ local'[r].user # local[r].user =>
                     user'[local'[r].user].email = op[r].email
  BY DEF Holders
<1> QED
  BY <1>2, <1>3, <1>4, <1>5, <1>6, <1>7, <1>8, <1>9, <1>10 DEF RequestStep, ByAddress

\* A request that made a user is past its insert.
LEMMA Inserted ==
  ASSUME TypeOK, NEW r \in Requests, InsertUser(r), user' # user
  PROVE  pc'[r] \notin Unborn
<1>1. /\ \A s : Ends(r, s) => pc'[r] = s
      /\ \A u, n : Answers(r, u, n) => pc'[r] = "done"
      /\ \A s : Goto(r, s) => pc'[r] = s
  BY DEF Ends, Answers, Goto, TypeOK
<1> QED
  BY <1>1 DEF InsertUser, Unborn

\* Who was there, and is now, was not away.
LEMMA NobodyReturns ==
  ASSUME TypeOK, DOMAIN user \subseteq Known, NEW r \in Requests, RequestStep(r) \/ Fails(r),
         NEW u \in Known \cap DOMAIN user'
  PROVE  u \in DOMAIN user /\ (user'[u].email = user[u].email \/ Addresses(r, u))
<1>1. ~(InsertUser(r) /\ u = r)
  BY SignInAssumption DEF InsertUser, Known, Unborn
<1> QED
  BY <1>1, UsersAfter

\* Without a request, nothing is learned and nobody made.
LEMMA RestStays ==
  ASSUME TypeOK, Restart \/ Tick \/ UNCHANGED vars
  PROVE  /\ UNCHANGED <<op, user, profiles, mailed, fate, local, answer, seen, overlap>>
         /\ \A q \in Requests : pc'[q] = pc[q] \/ (Running(q) /\ pc'[q] = "broken")
BY DEF Restart, Tick, vars, handlers, SameRecords, TypeOK

\* Users and what requests know of them.
LEMMA KnownStep ==
  ASSUME TypeOK, KindsInv, KnownInv, [Next]_vars
  PROVE  KnownInv'
<1>1. Known \subseteq Known'
  BY KnownStays
<1>2. ASSUME NEW r \in Requests, RequestStep(r) \/ Fails(r) PROVE KnownInv'
  <2>1. DOMAIN user' \subseteq Known'
    <3>1. ASSUME NEW u \in DOMAIN user', u \notin DOMAIN user PROVE u \in Known'
      BY <1>2, <3>1, UsersAfter, Inserted DEF KnownInv, Known
    <3> QED
      BY <1>1, <3>1 DEF KnownInv
  <2>2. \A q \in Requests : op[q].kind # "link" =>
          {local'[q].user, answer'[q].user}
            \subseteq {local[q].user, answer[q].user} \cup DOMAIN user'
    BY <1>2, OthersStay, Learned
  <2>3. op' = op
    BY <1>2, OthersStay
  <2> QED
    BY <1>1, <2>1, <2>2, <2>3 DEF KnownInv
<1>3. CASE Restart \/ Tick \/ UNCHANGED vars
  BY <1>1, <1>3, RestStays DEF KnownInv
<1> QED
  BY <1>2, <1>3 DEF Next

\* A request starts once.
LEMMA NeverIdle ==
  ASSUME TypeOK, NEW r \in Requests, RequestStep(r) \/ Fails(r)
  PROVE  pc'[r] # "idle"
<1>1. /\ \A s : Ends(r, s) => pc'[r] = s
      /\ \A u, n : Answers(r, u, n) => pc'[r] = "done"
      /\ \A u, s : Keeps(r, u, s) => pc'[r] = s
      /\ \A s : Goto(r, s) => pc'[r] = s
  BY DEF Ends, Answers, Keeps, Goto, TypeOK
<1>2. Begin(r) \/ Authenticate(r) => pc'[r] # "idle"
  <2>1. op[r].kind \in Kinds
    BY DEF TypeOK, Operation
  <2> QED
    BY <1>1, <2>1 DEF Begin, Authenticate, FirstStep, Kinds, Guarded
<1>3. ReadSlot(r) \/ FindOwner(r) \/ Ask(r) \/ Lookup(r) \/ Taken(r) => pc'[r] # "idle"
  BY <1>1 DEF ReadSlot, FindOwner, Ask, Lookup, Taken
<1>4. InsertUser(r) \/ Password(r) \/ Username(r) \/ FindProvider(r) => pc'[r] # "idle"
  BY <1>1 DEF InsertUser, Password, Username, FindProvider
<1>5. LoadProfiles(r) \/ InsertProfile(r) \/ Unlink(r) \/ Fails(r) => pc'[r] # "idle"
  BY <1>1 DEF LoadProfiles, InsertProfile, Unlink, Fails
<1>6. StoreToken(r) \/ SendMail(r) \/ FindByToken(r) \/ SetPassword(r) \/ UpdateUser(r)
      \/ Delete(r) => pc'[r] # "idle"
  BY <1>1 DEF StoreToken, SendMail, FindByToken, SetPassword, UpdateUser, Delete
<1> QED
  BY <1>2, <1>3, <1>4, <1>5, <1>6 DEF RequestStep

\* Whoever writes an address while another request runs overlaps it.
LEMMA AddressesOverlap ==
  ASSUME RunningOverlap, KindsInv, NEW r \in Requests, NEW q \in Requests \ {r}, NEW u,
         Addresses(r, u), Running(q)
  PROVE  Readdressed(u, q)
<1>1. pc[r] = "update" /\ op[r].kind = "update"
  BY DEF Addresses, UpdateUser, KindsInv
<1>2. Overlapped(q, r)
  BY <1>1 DEF RunningOverlap, Running, Finished
<1> QED
  BY <1>1, <1>2 DEF Readdressed, Addresses

\* Once written while the request ran, always.
LEMMA ReaddressedStays ==
  ASSUME op' = op, overlap \subseteq overlap', NEW r, NEW u, Readdressed(u, r)
  PROVE  Readdressed(u, r)'
BY DEF Readdressed, Overlapped

\* Looking an address up finds its user, and only an update changes an address.
LEMMA OwnStep ==
  ASSUME TypeOK, RunningOverlap, KindsInv, KnownInv, OwnInv, [Next]_vars
  PROVE  OwnInv'
<1>1. ASSUME NEW r \in Requests, RequestStep(r) \/ Fails(r), NEW q \in Requests,
             op[q].kind = "sso", Running(q)', NEW u \in DOMAIN user', u = local'[q].user
      PROVE  user'[u].email = op[q].email \/ Readdressed(u, q)'
  <2>1. op' = op /\ overlap \subseteq overlap'
    BY <1>1, OthersStay
  <2>2. CASE u # local[q].user
    BY <1>1, <2>2, OthersStay, Learned DEF ByAddress
  <2>3. CASE u = local[q].user
    <3>1. u \in Known /\ NoUser \notin DOMAIN user'
      BY <1>1, <2>3, UsersAfter, SignInAssumption DEF KnownInv, TypeOK, UserIds
    <3>2. u \in DOMAIN user /\ (user'[u].email = user[u].email \/ Addresses(r, u))
      BY <1>1, <3>1, NobodyReturns DEF KnownInv
    <3>3. CASE q = r
      <4>1. ~Addresses(r, u)
        BY <1>1, <3>3 DEF Addresses, UpdateUser, KindsInv
      <4>2. Running(q) \/ pc[q] = "idle"
        BY <1>1, <3>3, OthersStay DEF Running, Finished
      <4>3. CASE pc[q] = "idle"
        <5>1. local[q].user = NoUser
          BY <1>1, <4>3 DEF OwnInv
        <5> QED
          BY <2>3, <3>1, <5>1
      <4> QED
        BY <1>1, <2>1, <2>3, <3>2, <4>1, <4>2, <4>3, ReaddressedStays DEF OwnInv
    <3>4. CASE q # r
      <4>1. Running(q)
        BY <1>1, <3>4, OthersStay DEF Running
      <4>2. Addresses(r, u) => Readdressed(u, q)
        BY <1>1, <3>4, <4>1, AddressesOverlap
      <4> QED
        BY <1>1, <2>1, <2>3, <3>2, <4>1, <4>2, ReaddressedStays DEF OwnInv
    <3> QED
      BY <3>3, <3>4
  <2> QED
    BY <2>2, <2>3
<1>2. CASE \E r \in Requests : RequestStep(r) \/ Fails(r)
  BY <1>1, <1>2, OthersStay, NeverIdle DEF OwnInv
<1>3. CASE Restart \/ Tick \/ UNCHANGED vars
  BY <1>3, RestStays DEF OwnInv, Running, Finished, Readdressed, Overlapped
<1> QED
  BY <1>2, <1>3 DEF Next

\* A sign-up has found nobody before it looks again: whoever holds the address
\* then was made, or given it, while it ran.
LEMMA SignupStep ==
  ASSUME TypeOK, RunningOverlap, KindsInv, KnownInv, SignupInv, [Next]_vars
  PROVE  SignupInv'
<1>1. ASSUME NEW r \in Requests, RequestStep(r) \/ Fails(r), op[r].kind = "signup",
             pc'[r] = "taken"
      PROVE  user' = user /\ Holders(op[r]) = {}
  <2>1. /\ \A s : Ends(r, s) => pc'[r] = s
        /\ \A u, n : Answers(r, u, n) => pc'[r] = "done"
    BY DEF Ends, Answers, Goto, TypeOK
  <2>2. pc[r] \in {"idle", "lookup", "taken", "insertUser"}
    BY <1>1, OthersStay DEF KindsInv, TypeOK, Step, Finished, Guarded
  <2>3. Begin(r) \/ Lookup(r) \/ Taken(r) \/ InsertUser(r) \/ Fails(r)
    BY <1>1, <2>2 DEF RequestStep, Authenticate, ReadSlot, Guarded, FindOwner, Ask, Password,
       Username, FindProvider, LoadProfiles, InsertProfile, Unlink, FindByToken, StoreToken,
       SendMail, SetPassword, UpdateUser, Delete
  <2>4. CASE Begin(r)
    BY <1>1, <2>1, <2>4 DEF Begin, FirstStep
  <2>5. CASE Lookup(r)
    BY <1>1, <2>1, <2>5 DEF Lookup, Reads, SameRecords
  <2>6. CASE Taken(r)
    BY <1>1, <2>1, <2>6 DEF Taken
  <2>7. CASE InsertUser(r)
    BY <1>1, <2>1, <2>7 DEF InsertUser
  <2>8. CASE Fails(r)
    BY <1>1, <2>1, <2>2, <2>8 DEF Fails
  <2> QED
    BY <2>3, <2>4, <2>5, <2>6, <2>7, <2>8
<1>2. ASSUME NEW r \in Requests, RequestStep(r) \/ Fails(r), NEW q \in Requests,
             op[q].kind = "signup", pc'[q] = "taken", NEW u \in Holders(op[q])'
      PROVE  Newcomer(u, q)'
  <2>1. op' = op /\ overlap \subseteq overlap' /\ u \in DOMAIN user' /\ user'[u].email = op[q].email
    BY <1>2, OthersStay DEF Holders
  <2>2. CASE q = r
    BY <1>1, <1>2, <2>1, <2>2 DEF Holders
  <2>3. CASE q # r
    <3>1. pc[q] = "taken" /\ Running(q)
      BY <1>2, <2>3, OthersStay DEF Running, Finished
    <3>2. \/ u \in DOMAIN user /\ (user'[u].email = user[u].email \/ Addresses(r, u))
          \/ InsertUser(r) /\ u = r
      BY <1>2, <2>1, UsersAfter DEF KnownInv
    <3>3. InsertUser(r) => Overlapped(q, r)
      BY <1>2, <2>3, <3>1 DEF RunningOverlap, Running, InsertUser, Finished
    <3>4. Addresses(r, u) => Readdressed(u, q)
      BY <1>2, <2>3, <3>1, AddressesOverlap
    <3>5. u \in DOMAIN user /\ user'[u].email = user[u].email => Newcomer(u, q)
      BY <1>2, <2>1, <3>1 DEF SignupInv, Holders
    <3>6. Newcomer(u, q)
      BY <1>2, <3>2, <3>3, <3>4, <3>5 DEF Newcomer
    <3> QED
      BY <2>1, <3>6, ReaddressedStays DEF Newcomer, Overlapped
  <2> QED
    BY <2>2, <2>3
<1>3. CASE \E r \in Requests : RequestStep(r) \/ Fails(r)
  <2>1. op' = op
    BY <1>3, OthersStay
  <2> QED
    BY <1>2, <1>3, <2>1 DEF SignupInv
<1>4. CASE Restart \/ Tick \/ UNCHANGED vars
  <2>1. /\ op' = op /\ user' = user /\ overlap' = overlap
        /\ \A q \in Requests : pc'[q] = "taken" => pc[q] = "taken"
    BY <1>4, RestStays
  <2> QED
    BY <2>1 DEF SignupInv, Overlapped, Holders, Newcomer, Readdressed
<1> QED
  BY <1>3, <1>4 DEF Next

\* A token is stored for the user the request keeps, and written back to him only.
LEMMA TokenStep ==
  ASSUME TypeOK, KindsInv, KnownInv, TokenInv, RestoreInv, [Next]_vars
  PROVE  TokenInv'
<1>1. \A f \in Requests : Sent(f) => Sent(f)' /\ local'[f].user = local[f].user
  BY SentStays
<1>2. ASSUME NEW r \in Requests, RequestStep(r) \/ Fails(r),
             NEW u \in DOMAIN user', NEW f \in Requests, user'[u].token = f
      PROVE  Sent(f)' /\ local'[f].user = u
  <2>1. CASE u \in DOMAIN user /\ user[u].token = f
    BY <1>1, <1>2, <2>1 DEF TokenInv
  <2>2. CASE StoreToken(r) /\ u = local[r].user /\ u \in DOMAIN user /\ f = r
    <3>1. op[r].kind = "forgot" /\ op' = op /\ local' = local /\ pc'[r] = "mail"
      BY <2>2 DEF StoreToken, Ends, Goto, Quiet, KindsInv, TypeOK
    <3> QED
      BY <2>2, <3>1 DEF Sent
  <2>3. CASE /\ UpdateUser(r) /\ u = op[r].target
             /\ "token" \in op[r].fields /\ op[r].of = f
    <3>1. pc[r] = "update" /\ Restores(op[r], f)
      BY <2>3 DEF UpdateUser, KindsInv, Restores
    <3>2. Sent(f) /\ local[f].user = u
      BY <2>3, <3>1 DEF RestoreInv
    <3> QED
      BY <1>1, <3>2
  <2> QED
    <3>1. f # NoRequest
      BY SignInAssumption
    <3>2. \/ user'[u].token = NoRequest
          \/ u \in DOMAIN user /\ user'[u].token = user[u].token
          \/ StoreToken(r) /\ u = local[r].user /\ u \in DOMAIN user /\ user'[u].token = r
          \/ /\ UpdateUser(r) /\ u = op[r].target
             /\ "token" \in op[r].fields /\ op[r].of = user'[u].token
      BY <1>2, UsersAfter DEF KnownInv
    <3> QED
      BY <1>2, <2>1, <2>2, <2>3, <3>1, <3>2
<1>3. CASE \E r \in Requests : RequestStep(r) \/ Fails(r)
  <2>1. \A u \in DOMAIN user', f \in Requests : user'[u].token = f => Sent(f)' /\ local'[f].user = u
    BY <1>2, <1>3
  <2> QED
    BY <2>1 DEF TokenInv, Sent
<1>4. CASE Restart \/ Tick \/ UNCHANGED vars
  <2>1. user' = user
    BY <1>4, RestStays
  <2>2. \A u \in DOMAIN user', f \in Requests : user'[u].token = f => Sent(f)' /\ local'[f].user = u
    BY <1>1, <2>1 DEF TokenInv
  <2> QED
    BY <2>2 DEF TokenInv, Sent
<1> QED
  BY <1>3, <1>4 DEF Next

\* An update begins with a token that its user was sent.
LEMMA RestoreStep ==
  ASSUME TypeOK, KindsInv, RestoreInv, [Next]_vars
  PROVE  RestoreInv'
<1>1. \A f \in Requests : Sent(f) => Sent(f)' /\ local'[f].user = local[f].user
  BY SentStays
<1>2. op' = op
  BY OthersStay, RestStays DEF Next
<1>3. ASSUME NEW r \in Requests, NEW f \in Requests, pc'[r] = "update", Restores(op[r], f)
      PROVE  Sent(f) /\ local[f].user = op[r].target
  <2>1. CASE pc[r] = "update"
    BY <1>3, <2>1 DEF RestoreInv
  <2>2. CASE pc[r] # "update"
    <3>1. RequestStep(r) \/ Fails(r)
      BY <1>3, <2>2, OthersStay, RestStays DEF Next
    <3>2. /\ \A s : Ends(r, s) => pc'[r] = s
          /\ \A u, n : Answers(r, u, n) => pc'[r] = "done"
          /\ \A u, s : Keeps(r, u, s) => pc'[r] = s
          /\ \A s : Goto(r, s) => pc'[r] = s
      BY DEF Ends, Answers, Keeps, Goto, TypeOK
    <3>3. ~(ReadSlot(r) \/ FindOwner(r) \/ Ask(r) \/ Lookup(r) \/ Taken(r) \/ InsertUser(r))
      BY <1>3, <3>2 DEF ReadSlot, FindOwner, Ask, Lookup, Taken, InsertUser
    <3>4. ~(Password(r) \/ Username(r) \/ FindProvider(r) \/ LoadProfiles(r) \/ InsertProfile(r))
      BY <1>3, <3>2 DEF Password, Username, FindProvider, LoadProfiles, InsertProfile
    <3>5. ~(Unlink(r) \/ StoreToken(r) \/ SendMail(r) \/ FindByToken(r) \/ SetPassword(r)
            \/ UpdateUser(r) \/ Delete(r) \/ Fails(r))
      BY <1>3, <3>2 DEF Unlink, StoreToken, SendMail, FindByToken, SetPassword, UpdateUser,
         Delete, Fails
    <3>6. Begin(r) \/ Authenticate(r)
      BY <3>1, <3>3, <3>4, <3>5 DEF RequestStep
    <3> QED
      BY <1>3, <3>6 DEF Begin, Authenticate, Possible, Sent
  <2> QED
    BY <2>1, <2>2
<1> QED
  BY <1>1, <1>2, <1>3 DEF RestoreInv, Sent

\* What a reset does before its answer.
LEMMA ResetMoves ==
  ASSUME TypeOK, KindsInv, NEW r \in Requests, RequestStep(r) \/ Fails(r), op[r].kind = "reset"
  PROVE  /\ pc'[r] = "setPassword" =>
              /\ user' = user /\ op[r].of \in Requests
              /\ local'[r].user \in DOMAIN user /\ user[local'[r].user].token = op[r].of
         /\ pc'[r] = "done" => SetPassword(r) /\ local[r].user \in DOMAIN user
<1>1. /\ \A s : Ends(r, s) => pc'[r] = s
      /\ \A u, s : Keeps(r, u, s) => pc'[r] = s
  BY DEF Ends, Keeps, Goto, TypeOK
<1>2. pc[r] \in {"idle", "byToken", "setPassword"}
  BY OthersStay DEF KindsInv, TypeOK, Step, Finished, Guarded
<1>3. Begin(r) \/ FindByToken(r) \/ SetPassword(r) \/ Fails(r)
  BY <1>2 DEF RequestStep, Authenticate, ReadSlot, Guarded, FindOwner, Ask, Lookup, Taken,
     InsertUser, Password, Username, FindProvider, LoadProfiles, InsertProfile, Unlink,
     StoreToken, SendMail, UpdateUser, Delete
<1>4. CASE Begin(r)
  BY <1>1, <1>4 DEF Begin, FirstStep
<1>5. CASE FindByToken(r)
  <2>1. CASE Ends(r, "failed")
    BY <1>1, <2>1
  <2>2. CASE ~Ends(r, "failed")
    <3>1. PICK u \in DOMAIN user : user[u].token = op[r].of /\ Keeps(r, u, "setPassword")
      BY <1>5, <2>2 DEF FindByToken
    <3>2. local[r] \in Local /\ local \in [Requests -> Local]
      BY DEF TypeOK
    <3>3. local'[r].user = u
      BY <3>1, <3>2, KeptUser DEF Keeps
    <3> QED
      BY <1>1, <1>5, <3>1, <3>3 DEF FindByToken, KindsInv, Reads, SameRecords
  <2> QED
    BY <2>1, <2>2
<1>6. CASE SetPassword(r)
  BY <1>1, <1>6 DEF SetPassword
<1>7. CASE Fails(r)
  BY <1>1, <1>2, <1>7 DEF Fails
<1> QED
  BY <1>3, <1>4, <1>5, <1>6, <1>7

\* Two resets with one link both found it before either cleared it.
LEMMA ResetStep ==
  ASSUME TypeOK, RunningOverlap, KindsInv, KnownInv, TokenInv, ResetInv, [Next]_vars
  PROVE  ResetInv'
<1>1. \A f \in Requests : Sent(f) => Sent(f)' /\ local'[f].user = local[f].user
  BY SentStays
<1> DEFINE Reset(q) == op[q].kind = "reset"
           Past == {"setPassword", "done"}
           Back(f) == \E p \in Requests : pc'[p] = "done" /\ Restores(op[p], f)
           TwiceOverlap(r, q) == /\ q # r /\ Reset(q) /\ op[q].of = op[r].of
                                 /\ pc'[r] \in Past /\ pc'[q] = "done"
                                 => {r, q} \in overlap' \/ Back(op[r].of)
           Fine(r) == /\ pc'[r] \in Past => op[r].of \in Requests /\ Sent(op[r].of)
                      /\ pc'[r] = "setPassword" => local[op[r].of].user = local'[r].user
                      /\ pc'[r] = "done" =>
                           Back(op[r].of) \/ \A u \in DOMAIN user' : user'[u].token # op[r].of
<1>7. \A f : Restored(f) => Back(f)
  BY OthersStay, RestStays DEF Restored, Next, Running, Finished
<1>2. ASSUME NEW a \in Requests, RequestStep(a) \/ Fails(a), NEW r \in Requests, Reset(r)
      PROVE  Fine(r)
  <2>1. CASE r = a
    <3>1. CASE pc'[r] = "setPassword"
      <4>1. /\ op[r].of \in Requests /\ local'[r].user \in DOMAIN user
            /\ user[local'[r].user].token = op[r].of
        BY <1>2, <2>1, <3>1, ResetMoves
      <4> QED
        BY <3>1, <4>1 DEF TokenInv
    <3>2. CASE pc'[r] = "done"
      <4>1. SetPassword(r) /\ local[r].user \in DOMAIN user /\ pc[r] = "setPassword"
        BY <1>2, <2>1, <3>2, ResetMoves DEF SetPassword
      <4>2. op[r].of \in Requests /\ Sent(op[r].of) /\ local[op[r].of].user = local[r].user
        BY <1>2, <4>1 DEF ResetInv
      <4>3. ASSUME NEW u \in DOMAIN user' PROVE user'[u].token # op[r].of
        <5>1. /\ user' = [user EXCEPT ![local[r].user] =
                             [@ EXCEPT !.password = r, !.token = NoRequest]]
              /\ user \in [DOMAIN user -> User]
          BY <4>1 DEF SetPassword, TokenAfter, TypeOK
        <5>2. CASE u = local[r].user
          <6>1. user[u] \in User
            BY <4>1, <5>1, <5>2
          <6>2. [user[u] EXCEPT !.password = r, !.token = NoRequest].token = NoRequest
            BY <6>1 DEF User
          <6> QED
            BY <4>1, <4>2, <5>1, <5>2, <6>2, SignInAssumption
        <5>3. CASE u # local[r].user
          BY <4>2, <4>3, <5>1, <5>3 DEF TokenInv
        <5> QED
          BY <5>2, <5>3
      <4> QED
        BY <3>2, <4>2, <4>3
    <3> QED
      BY <3>1, <3>2
  <2>2. CASE r # a
    <3>1. pc'[r] = pc[r] /\ local'[r] = local[r]
      BY <1>2, <2>2, OthersStay
    <3>2. ASSUME pc[r] = "done", ~Back(op[r].of), NEW u \in DOMAIN user'
          PROVE  user'[u].token # op[r].of
      <4>1. /\ op[r].of \in Requests /\ Sent(op[r].of)
            /\ \A v \in DOMAIN user : user[v].token # op[r].of
        BY <1>2, <1>7, <3>2 DEF ResetInv
      <4>2. StoreToken(a) => a # op[r].of
        BY <4>1 DEF StoreToken, Sent
      <4>3. \/ user'[u].token = NoRequest
            \/ u \in DOMAIN user /\ user'[u].token = user[u].token
            \/ StoreToken(a) /\ user'[u].token = a
            \/ /\ UpdateUser(a) /\ pc'[a] = "done"
               /\ "token" \in op[a].fields /\ op[a].of = user'[u].token
        BY <1>2, <3>2, UsersAfter DEF KnownInv
      <4>4. UpdateUser(a) /\ pc'[a] = "done" /\ "token" \in op[a].fields
              => op[a].of # op[r].of
        BY <1>2, <3>2 DEF UpdateUser, KindsInv, Restores
      <4> QED
        BY <4>1, <4>2, <4>3, <4>4, SignInAssumption
    <3> QED
      BY <1>2, <3>1, <3>2 DEF ResetInv
  <2> QED
    BY <2>1, <2>2
<1>3. ASSUME NEW a \in Requests, RequestStep(a) \/ Fails(a), NEW r \in Requests, Reset(r),
             NEW q \in Requests, q # r, Reset(q), op[q].of = op[r].of,
             pc'[r] \in Past, pc'[q] = "done"
      PROVE  {r, q} \in overlap' \/ Back(op[r].of)
  <2>1. overlap \subseteq overlap' /\ \A p \in Requests \ {a} : pc'[p] = pc[p]
    BY <1>3, OthersStay
  <2>2. CASE a = q
    <3>1. pc[q] = "setPassword" /\ pc'[r] = pc[r]
      BY <1>3, <2>1, <2>2, ResetMoves DEF SetPassword
    <3>2. CASE pc[r] = "setPassword"
      BY <1>3, <2>1, <3>1, <3>2 DEF RunningOverlap, Overlapped, Running, Finished
    <3>3. CASE pc[r] = "done"
      <4>1. {q, r} \in overlap \/ Restored(op[r].of)
        BY <1>3, <3>1, <3>3 DEF ResetInv, Overlapped
      <4>2. {q, r} = {r, q}
        OBVIOUS
      <4> QED
        BY <1>7, <2>1, <4>1, <4>2
    <3> QED
      BY <1>3, <3>1, <3>2, <3>3
  <2>3. CASE a # q
    <3>1. pc[q] = "done"
      BY <1>3, <2>1, <2>3
    <3>2. pc[r] \in Past \/ Restored(op[r].of)
      <4>1. CASE a = r /\ pc'[r] = "setPassword"
        <5>1. local'[r].user \in DOMAIN user /\ user[local'[r].user].token = op[r].of
          BY <1>3, <4>1, ResetMoves
        <5> QED
          BY <1>3, <3>1, <5>1 DEF ResetInv
      <4>2. CASE a = r /\ pc'[r] = "done"
        BY <1>3, <4>2, ResetMoves DEF SetPassword
      <4>3. CASE a # r
        BY <1>3, <2>1, <4>3
      <4> QED
        BY <1>3, <4>1, <4>2, <4>3
    <3> QED
      BY <1>3, <1>7, <2>1, <3>1, <3>2 DEF ResetInv, Overlapped
  <2> QED
    BY <2>2, <2>3
<1>4. ASSUME op' = op,
             \A r \in Requests : Reset(r) => Fine(r) /\ \A q \in Requests : TwiceOverlap(r, q)
      PROVE  ResetInv'
  <2>1. ASSUME NEW r \in Requests, op'[r].kind = "reset"
        PROVE  /\ pc'[r] \in Past => op'[r].of \in Requests /\ Sent(op[r].of)'
               /\ pc'[r] = "setPassword" => local'[op'[r].of].user = local'[r].user
               /\ pc'[r] = "done" =>
                    Restored(op[r].of)' \/ \A u \in DOMAIN user' : user'[u].token # op'[r].of
               /\ \A q \in Requests : /\ q # r /\ op'[q].kind = "reset" /\ op'[q].of = op'[r].of
                                      /\ pc'[r] \in Past /\ pc'[q] = "done"
                                      => {r, q} \in overlap' \/ Restored(op[r].of)'
    <3>0. Back(op[r].of) => Restored(op[r].of)'
      BY <1>4 DEF Restored
    <3>1. Reset(r) /\ Fine(r) /\ \A q \in Requests : TwiceOverlap(r, q)
      BY <1>4, <2>1
    <3>2. pc'[r] \in Past => op[r].of \in Requests /\ Sent(op[r].of)
      BY <3>1
    <3>3. ASSUME pc'[r] \in Past, NEW f, f = op[r].of
          PROVE  f \in Requests /\ Sent(f)' /\ local'[f].user = local[f].user
      BY <1>1, <3>2, <3>3
    <3>4. pc'[r] \in Past => op'[r].of \in Requests /\ Sent(op[r].of)'
      BY <1>4, <3>3 DEF Sent
    <3>5. pc'[r] = "setPassword" => local'[op'[r].of].user = local'[r].user
      BY <1>4, <3>1, <3>3
    <3> QED
      BY <1>4, <3>0, <3>1, <3>4, <3>5
  <2> QED
    BY <2>1 DEF ResetInv, Overlapped
<1>5. CASE \E r \in Requests : RequestStep(r) \/ Fails(r)
  BY <1>2, <1>3, <1>4, <1>5, OthersStay
<1>6. CASE Restart \/ Tick \/ UNCHANGED vars
  <2>1. /\ UNCHANGED <<op, user, local, overlap>>
        /\ \A q \in Requests : pc'[q] = pc[q] \/ pc'[q] = "broken"
    BY <1>6, RestStays
  <2>2. \A r \in Requests : Reset(r) => Fine(r) /\ \A q \in Requests : TwiceOverlap(r, q)
    BY <1>7, <2>1 DEF ResetInv, Overlapped
  <2> QED
    BY <1>4, <2>1, <2>2
<1> QED
  BY <1>5, <1>6 DEF Next

\* Whoever writes a token for a user that a reset is about to change runs with it.
LEMMA OvertakenStep ==
  ASSUME TypeOK, RunningOverlap, KindsInv, KnownInv, OvertakenInv, [Next]_vars
  PROVE  OvertakenInv'
<1> DEFINE Fine(r, t) == t \in Requests /\ t # op[r].of =>
             \E p \in Requests : Writes(p, t) /\ {p, r} \in overlap'
<1>1. ASSUME NEW a \in Requests, RequestStep(a) \/ Fails(a),
             NEW r \in Requests, pc'[r] = "setPassword", NEW u \in DOMAIN user', u = local'[r].user
      PROVE  Fine(r, user'[u].token)
  <2>1. op' = op /\ overlap \subseteq overlap'
    BY <1>1, OthersStay
  <2>2. CASE r = a
    <3>1. op[r].kind = "reset"
      <4>1. KindsInv' /\ op' = op
        BY <1>1, KindsStep, OthersStay
      <4> QED
        BY <1>1, <4>1 DEF KindsInv
    <3> QED
      BY <1>1, <2>2, <3>1, ResetMoves
  <2>3. CASE r # a
    <3>1. pc[r] = "setPassword" /\ u = local[r].user
      BY <1>1, <2>3, OthersStay
    <3>2. \/ user'[u].token = NoRequest
          \/ u \in DOMAIN user /\ user'[u].token = user[u].token
          \/ (StoreToken(a) \/ UpdateUser(a)) /\ Writes(a, user'[u].token)
      <4>1. UpdateUser(a) => op[a].kind = "update"
        BY DEF UpdateUser, KindsInv
      <4> QED
        BY <1>1, <4>1, UsersAfter DEF KnownInv, Writes, Restores
    <3>3. StoreToken(a) \/ UpdateUser(a) => Overlapped(a, r)
      BY <1>1, <2>3, <3>1 DEF RunningOverlap, StoreToken, UpdateUser, Running, Finished
    <3>4. u \in DOMAIN user /\ user[u].token \in Requests \ {op[r].of}
            => Crossed(user[u].token, r)
      BY <1>1, <3>1 DEF OvertakenInv
    <3>5. user'[u].token \in Requests \ {op[r].of} => Crossed(user'[u].token, r)
      BY <3>2, <3>3, <3>4, SignInAssumption DEF Crossed
    <3> QED
      BY <2>1, <3>5 DEF Crossed, Overlapped, Writes
  <2> QED
    BY <2>2, <2>3
<1>2. CASE \E r \in Requests : RequestStep(r) \/ Fails(r)
  <2>1. op' = op
    BY <1>2, OthersStay
  <2> QED
    BY <1>1, <1>2, <2>1 DEF OvertakenInv, Crossed, Overlapped, Writes
<1>3. CASE Restart \/ Tick \/ UNCHANGED vars
  <2>1. /\ UNCHANGED <<op, user, local, overlap>>
        /\ \A q \in Requests : pc'[q] = pc[q] \/ pc'[q] = "broken"
    BY <1>3, RestStays
  <2> QED
    BY <2>1 DEF OvertakenInv, Crossed, Overlapped, Writes
<1> QED
  BY <1>2, <1>3 DEF Next

\* A link goes from the user only to a newer one, to an update, to the reset that
\* uses it, or to one that overlapped; and its fate is one of these.
LEMMA LinkGoes ==
  ASSUME TypeOK, KindsInv, KnownInv, TokenInv, OvertakenInv,
         NEW r \in Requests, RequestStep(r) \/ Fails(r), NEW f \in Requests
  PROVE  /\ \/ fate'[f] \in {fate[f], "used", "replaced", "rewritten"}
            \/ fate'[f] = "cleared" /\ op[r].kind = "reset" /\ Crossed(f, r)
         /\ \A u \in DOMAIN user \cap DOMAIN user' : user[u].token = f =>
              \/ user'[u].token = f
              \/ fate'[f] \in {"used", "replaced", "rewritten"}
              \/ fate'[f] = "cleared" /\ op[r].kind = "reset" /\ Crossed(f, r)
<1> DEFINE Gone == \/ fate'[f] \in {"used", "replaced", "rewritten"}
                   \/ fate'[f] = "cleared" /\ op[r].kind = "reset" /\ Crossed(f, r)
<1>1. CASE StoreToken(r)
  <2>1. CASE local[r].user \in DOMAIN user
    <3> DEFINE w == local[r].user
    <3>1. /\ \A u \in DOMAIN user : u # w => user'[u] = user[u]
          /\ fate'[f] = IF f = user[w].token /\ f # user'[w].token THEN "replaced" ELSE fate[f]
      BY <1>1, <2>1 DEF StoreToken, TypeOK
    <3> QED
      BY <3>1
  <2>2. CASE local[r].user \notin DOMAIN user
    BY <1>1, <2>2 DEF StoreToken
  <2> QED
    BY <2>1, <2>2
<1>2. CASE SetPassword(r)
  <2>1. CASE local[r].user \in DOMAIN user
    <3> DEFINE w == local[r].user
    <3>1. /\ \A u \in DOMAIN user : u # w => user'[u] = user[u]
          /\ fate'[f] = IF f = op[r].of THEN "used"
                        ELSE IF f = user[w].token THEN "cleared" ELSE fate[f]
      BY <1>2, <2>1 DEF SetPassword, TypeOK
    <3>2. pc[r] = "setPassword" /\ op[r].kind = "reset"
      BY <1>2 DEF SetPassword, KindsInv
    <3>3. f = user[w].token => Gone
      BY <2>1, <3>1, <3>2 DEF OvertakenInv
    <3> QED
      BY <3>1, <3>3
  <2>2. CASE local[r].user \notin DOMAIN user
    BY <1>2, <2>2 DEF SetPassword
  <2> QED
    BY <2>1, <2>2
<1>4. CASE UpdateUser(r)
  <2> DEFINE t == op[r].target
             w == Updated(r, user[t])
  <2>1. CASE /\ t \in DOMAIN user /\ user' = [user EXCEPT ![t] = w]
             /\ fate' = [g \in Requests |->
                  IF g = user[t].token /\ g # w.token THEN "rewritten" ELSE fate[g]]
    <3> HIDE DEF w
    <3>1. /\ \A u \in DOMAIN user : u # t => user'[u] = user[u]
          /\ user'[t] = w
          /\ fate'[f] = IF f = user[t].token /\ f # w.token THEN "rewritten" ELSE fate[f]
      BY <2>1 DEF TypeOK
    <3> QED
      BY <3>1
  <2> QED
    BY <1>4, <2>1 DEF UpdateUser
<1>3. CASE ~(StoreToken(r) \/ SetPassword(r) \/ UpdateUser(r))
  <2>1. fate' = fate
    BY <1>3 DEF RequestStep, Begin, Authenticate, ReadSlot, FindOwner, Ask, Lookup, Taken,
       InsertUser, Password, Username, FindProvider, LoadProfiles, InsertProfile, Unlink,
       SendMail, FindByToken, Delete, Fails, Reads, SameRecords
  <2>2. InsertUser(r) \/ Delete(r) =>
          \A u \in DOMAIN user \cap DOMAIN user' : user'[u].token = user[u].token
    <3>1. \A u \in DOMAIN user : user[u] \in User
      BY DEF TypeOK
    <3>2. InsertUser(r) => \A u \in DOMAIN user : user'[u] = user[u]
      <4>1. InsertUser(r) => r \notin DOMAIN user
        BY SignInAssumption DEF InsertUser, KnownInv, Known, Unborn
      <4> QED
        BY <4>1 DEF InsertUser, TypeOK
    <3>4. Delete(r) => \A u \in DOMAIN user' : user'[u] = user[u]
      BY DEF Delete
    <3> QED
      BY <3>2, <3>4
  <2>3. ~(InsertUser(r) \/ Delete(r)) => user' = user
    BY <1>3 DEF RequestStep, Begin, Authenticate, ReadSlot, FindOwner, Ask, Lookup, Taken,
       Password, Username, FindProvider, LoadProfiles, InsertProfile, Unlink, SendMail,
       FindByToken, Fails, Reads, SameRecords
  <2> QED
    BY <2>1, <2>2, <2>3
<1> QED
  BY <1>1, <1>2, <1>3, <1>4

\* A mail is sent for a token that was stored.
LEMMA OnlyStoreMails ==
  ASSUME TypeOK, NEW r \in Requests, RequestStep(r) \/ Fails(r), pc[r] # "mail", pc'[r] = "mail"
  PROVE  StoreToken(r)
<1>1. /\ \A s : Ends(r, s) => pc'[r] = s
      /\ \A u, n : Answers(r, u, n) => pc'[r] = "done"
      /\ \A u, s : Keeps(r, u, s) => pc'[r] = s
      /\ \A s : Goto(r, s) => pc'[r] = s
  BY DEF Ends, Answers, Keeps, Goto, TypeOK
<1>2. ~(Begin(r) \/ Authenticate(r))
  <2>1. op[r].kind \in Kinds
    BY DEF TypeOK, Operation
  <2> QED
    BY <1>1, <2>1 DEF Begin, Authenticate, FirstStep, Kinds, Guarded
<1>3. ~(ReadSlot(r) \/ FindOwner(r) \/ Ask(r) \/ Lookup(r) \/ Taken(r) \/ InsertUser(r))
  BY <1>1 DEF ReadSlot, FindOwner, Ask, Lookup, Taken, InsertUser
<1>4. ~(Password(r) \/ Username(r) \/ FindProvider(r) \/ LoadProfiles(r) \/ InsertProfile(r))
  BY <1>1 DEF Password, Username, FindProvider, LoadProfiles, InsertProfile
<1>5. ~(Unlink(r) \/ SendMail(r) \/ FindByToken(r) \/ SetPassword(r) \/ UpdateUser(r) \/ Delete(r)
        \/ Fails(r))
  BY <1>1 DEF Unlink, SendMail, FindByToken, SetPassword, UpdateUser, Delete, Fails
<1> QED
  BY <1>2, <1>3, <1>4, <1>5 DEF RequestStep

\* Each way a link can cease to work is one that MailedTokenWorks allows.
LEMMA MailStep ==
  ASSUME TypeOK, KindsInv, KnownInv, TokenInv, OvertakenInv, MailInv, [Next]_vars
  PROVE  MailInv'
<1>1. \A f \in Requests : Sent(f) => Sent(f)' /\ local'[f].user = local[f].user
  BY SentStays
<1>2. ASSUME NEW r \in Requests, RequestStep(r) \/ Fails(r),
             NEW f \in Requests, pc'[f] = "mail" \/ f \in mailed'
      PROVE  Sent(f)' /\ Works(f)'
  <2>1. op' = op /\ overlap \subseteq overlap'
    BY <1>2, OthersStay
  <2>2. CASE pc[f] = "mail" \/ f \in mailed
    <3>1. Sent(f) /\ Works(f) /\ local'[f].user = local[f].user
      BY <1>1, <2>2 DEF MailInv
    <3>2. local[f].user \in Known \cup {NoUser}
      BY <3>1 DEF KnownInv, Sent
    <3>3. local[f].user \notin DOMAIN user => local[f].user \notin DOMAIN user'
      BY <1>2, <3>2, NobodyReturns, UsersAfter, SignInAssumption DEF KnownInv, TypeOK, UserIds
    <3>4. /\ \/ fate'[f] \in {fate[f], "used", "replaced", "rewritten"}
             \/ fate'[f] = "cleared" /\ op[r].kind = "reset" /\ Crossed(f, r)
          /\ \A u \in DOMAIN user \cap DOMAIN user' : user[u].token = f =>
               \/ user'[u].token = f
               \/ fate'[f] \in {"used", "replaced", "rewritten"}
               \/ fate'[f] = "cleared" /\ op[r].kind = "reset" /\ Crossed(f, r)
      BY <1>2, LinkGoes
    <3>5. CASE \E u \in DOMAIN user : user[u].token = f
      <4>1. PICK u \in DOMAIN user : user[u].token = f
        BY <3>5
      <4>2. local[f].user = u
        BY <4>1 DEF TokenInv
      <4> QED
        BY <1>1, <1>2, <2>1, <3>1, <3>4, <4>1, <4>2 DEF Works, Crossed, Writes, Overlapped
    <3>6. CASE ~\E u \in DOMAIN user : user[u].token = f
      <4>1. \/ fate'[f] \in {"used", "replaced", "rewritten"}
            \/ fate'[f] = "cleared" /\ \E q \in Requests : op[q].kind = "reset" /\ Crossed(f, q)
            \/ local[f].user \notin DOMAIN user
        BY <3>1, <3>4, <3>6 DEF Works
      <4> QED
        BY <1>1, <2>1, <3>1, <3>3, <4>1 DEF Works, Crossed, Writes, Overlapped
    <3> QED
      BY <3>5, <3>6
  <2>3. CASE ~(pc[f] = "mail" \/ f \in mailed)
    <3>1. f = r /\ StoreToken(r)
      <4>1. \A q \in Requests \ {r} : pc'[q] = pc[q]
        BY <1>2, OthersStay
      <4>2. SendMail(r) => mailed' = mailed \cup {r} /\ pc[r] = "mail"
        BY DEF SendMail
      <4>3. ~SendMail(r) => mailed' = mailed
        BY <1>2 DEF RequestStep, Begin, Authenticate, ReadSlot, FindOwner, Ask, Lookup, Taken,
           InsertUser, Password, Username, FindProvider, LoadProfiles, InsertProfile, Unlink,
           FindByToken, StoreToken, SetPassword, UpdateUser, Delete, Fails, Reads, SameRecords
      <4>4. f = r /\ pc'[r] = "mail"
        BY <1>2, <2>3, <4>1, <4>2, <4>3
      <4> QED
        BY <1>2, <2>3, <4>4, OnlyStoreMails
    <3>2. /\ op[r].kind = "forgot" /\ pc'[r] = "mail"
          /\ local[r].user \in DOMAIN user' /\ user'[local[r].user].token = r
      BY <1>2, <2>3, <3>1 DEF StoreToken, TokenStored, Ends, Goto, KindsInv, TypeOK, User
    <3> QED
      BY <2>1, <3>1, <3>2 DEF Sent, Works
  <2> QED
    BY <2>2, <2>3
<1>3. CASE \E r \in Requests : RequestStep(r) \/ Fails(r)
  BY <1>2, <1>3 DEF MailInv
<1>4. CASE Restart \/ Tick \/ UNCHANGED vars
  <2>1. /\ UNCHANGED <<op, user, local, overlap, mailed, fate>>
        /\ \A q \in Requests : pc'[q] = pc[q] \/ pc'[q] = "broken"
    BY <1>4, RestStays
  <2>2. \A f \in Requests : Works(f) => Works(f)'
    BY <2>1 DEF Works, Crossed, Writes, Overlapped
  <2> QED
    BY <1>1, <2>1, <2>2 DEF MailInv
<1> QED
  BY <1>3, <1>4 DEF Next

\* InsertUser and UpdateUser look for the name in the step that takes it.
LEMMA NamesStep ==
  ASSUME TypeOK, KnownInv, NamesInv, [Next]_vars
  PROVE  NamesInv'
<1>1. ASSUME NEW r \in Requests, RequestStep(r) \/ Fails(r),
             NEW u \in DOMAIN user', NEW v \in DOMAIN user', user'[u].username = user'[v].username
      PROVE  u = v
  <2> DEFINE Kept(x) == x \in DOMAIN user /\ user'[x].username = user[x].username
             New(x) == /\ InsertUser(r) /\ x = r /\ user'[x].username = op[r].username
                       /\ \A y \in DOMAIN user : user[y].username # op[r].username
             Renamed(x) == /\ UpdateUser(r) /\ x = op[r].target
                           /\ \A y \in DOMAIN user \ {x} : user[y].username # user'[x].username
  <2>1. \A x \in DOMAIN user' : Kept(x) \/ New(x) \/ Renamed(x)
    BY <1>1, UsersAfter DEF KnownInv
  <2>2. ~(InsertUser(r) /\ UpdateUser(r))
    BY DEF InsertUser, UpdateUser
  <2>3. CASE Kept(u) /\ Kept(v)
    BY <1>1, <2>3 DEF NamesInv
  <2> QED
    BY <1>1, <2>1, <2>2, <2>3
<1>2. CASE \E r \in Requests : RequestStep(r) \/ Fails(r)
  BY <1>1, <1>2 DEF NamesInv
<1>3. CASE Restart \/ Tick \/ UNCHANGED vars
  BY <1>3, RestStays DEF NamesInv
<1> QED
  BY <1>2, <1>3 DEF Next

\* Only validate fills the entry, and everybody else has then seen its user.
LEMMA SlotStep ==
  ASSUME TypeOK, SlotInv, [Next]_vars
  PROVE  SlotInv'
<1>1. ASSUME NEW r \in Requests, RequestStep(r) \/ Fails(r) PROVE SlotInv'
  <2>1. CASE Authenticate(r)
    BY <2>1 DEF Authenticate, Put, SlotInv
  <2>2. CASE ~Authenticate(r)
    <3>1. slot' = slot /\ seen' = seen
      BY <1>1, <2>2 DEF RequestStep, Begin, ReadSlot, FindOwner, Ask, Lookup, Taken,
         InsertUser, Password, Username, FindProvider, LoadProfiles, InsertProfile, Unlink,
         StoreToken, SendMail, FindByToken, SetPassword, UpdateUser, Delete, Fails, Reads, Quiet
    <3> QED
      BY <3>1 DEF SlotInv
  <2> QED
    BY <2>1, <2>2
<1>2. CASE Restart
  BY <1>2 DEF Restart, Empty, SlotInv
<1>3. CASE Tick \/ UNCHANGED vars
  BY <1>3 DEF Tick, vars, SlotInv
<1> QED
  BY <1>1, <1>2, <1>3 DEF Next

AccountInv ==
  /\ KindsInv /\ KnownInv /\ OwnInv /\ SignupInv
  /\ TokenInv /\ RestoreInv /\ ResetInv /\ OvertakenInv /\ MailInv
  /\ NamesInv /\ SlotInv

LEMMA InitAccountInv == Init => AccountInv
<1> SUFFICES ASSUME Init PROVE AccountInv
  OBVIOUS
<1>1. /\ TypeOK
      /\ pc = [r \in Requests |-> "idle"]
      /\ user = Account /\ mailed = {} /\ slot.user = NoUser
      /\ \A r \in Requests : local[r].user = NoUser /\ answer[r].user = NoUser
  BY InitTypeOK DEF Init, HandlersInit, Nobody, Empty
<1>2. DOMAIN user = InitialUsers /\ NoUser \notin InitialUsers
  BY <1>1, SignInAssumption DEF UserIds
<1>3. KindsInv /\ KnownInv /\ OwnInv
  BY <1>1, <1>2 DEF KindsInv, KnownInv, Known, OwnInv
<1>4. SignupInv /\ ResetInv /\ OvertakenInv /\ MailInv
  BY <1>1 DEF SignupInv, ResetInv, OvertakenInv, MailInv
<1>5. TokenInv /\ RestoreInv /\ NamesInv
  BY <1>1, <1>2, SignInAssumption DEF TokenInv, RestoreInv, NamesInv
<1>6. SlotInv
  BY <1>1 DEF SlotInv
<1> QED
  BY <1>3, <1>4, <1>5, <1>6 DEF AccountInv

LEMMA AccountInvariant == Spec => [](SignInInv /\ AccountInv)
<1>1. SignInInv /\ AccountInv /\ [Next]_vars => AccountInv'
  BY KindsStep, KnownStep, OwnStep, SignupStep, TokenStep, RestoreStep, ResetStep,
     OvertakenStep, MailStep, NamesStep, SlotStep DEF SignInInv, TwinsInv, AccountInv
<1> QED
  BY <1>1, InitAccountInv, SignInInvariant, PTL DEF Spec

\* Where tokens come from, for each kind of request but a refresh.
LEMMA AnswerSteps ==
  ASSUME TypeOK, KindsInv, NEW r \in Requests, RequestStep(r) \/ Fails(r), answer'[r] # answer[r]
  PROVE  \/ /\ op[r].kind = "signup" /\ InsertUser(r) /\ user' # user
            /\ answer'[r].user = r /\ user'[r].email = op[r].email
         \/ /\ user' = user
            /\ \/ op[r].kind = "ssoLogin" /\ answer'[r].user \in Holders(op[r])
               \/ /\ op[r].kind = "signup" /\ pc[r] = "taken"
                  /\ answer'[r].user \in Holders(op[r])
               \/ op[r].kind \in {"link", "sso"} /\ Running(r) /\ answer'[r].user = local[r].user
               \/ /\ op[r].kind = "login" /\ answer'[r].user \in Identified(op[r])
                  /\ user[answer'[r].user].password = op[r].of
               \/ op[r].kind = "refresh"
<1>1. /\ \A s : Ends(r, s) => answer' = answer
      /\ \A u, n : Answers(r, u, n) => answer'[r].user = u
      /\ \A u, s : Keeps(r, u, s) => answer' = answer
  <2>1. answer \in [Requests -> Answer]
    BY DEF TypeOK
  <2>2. \A s : Ends(r, s) => answer' = answer
    BY DEF Ends
  <2>3. \A u, n : Answers(r, u, n) => answer'[r].user = u
    BY <2>1 DEF Answers
  <2>4. \A u, s : Keeps(r, u, s) => answer' = answer
    BY DEF Keeps
  <2> QED
    BY <2>2, <2>3, <2>4
<1>2. ~(Begin(r) \/ Authenticate(r) \/ ReadSlot(r) \/ FindOwner(r) \/ Ask(r) \/ Unlink(r))
  BY <1>1 DEF Begin, Authenticate, ReadSlot, FindOwner, Ask, Unlink
<1>3. ~(StoreToken(r) \/ SendMail(r) \/ FindByToken(r) \/ SetPassword(r) \/ UpdateUser(r)
        \/ Delete(r))
  <2>1. ~(StoreToken(r) \/ SendMail(r) \/ FindByToken(r) \/ Delete(r))
    BY <1>1 DEF StoreToken, SendMail, FindByToken, Delete
  <2>2. ~SetPassword(r)
    BY <1>1 DEF SetPassword
  <2>3. ~UpdateUser(r)
    BY <1>1 DEF UpdateUser
  <2> QED
    BY <2>1, <2>2, <2>3
<1>4. CASE Lookup(r)
  BY <1>1, <1>4 DEF Lookup, Reads, SameRecords
<1>5. CASE Taken(r)
  BY <1>1, <1>5 DEF Taken, Reads, SameRecords
<1>6. CASE InsertUser(r)
  <2>1. /\ Answers(r, r, op[r].username) /\ op[r].kind = "signup"
        /\ user' = [u \in DOMAIN user \cup {r} |->
             IF u = r THEN [email |-> op[r].email, username |-> op[r].username,
                            password |-> r, token |-> NoRequest]
             ELSE user[u]]
    BY <1>1, <1>6 DEF InsertUser
  <2>2. user'[r].email = op[r].email /\ ~Clash(op[r])
    BY <1>1, <1>6, <2>1 DEF InsertUser
  <2>3. user' # user
    BY <2>1, <2>2 DEF Clash
  <2> QED
    BY <1>1, <1>6, <2>1, <2>2, <2>3
<1>7. CASE Password(r)
  BY <1>1, <1>7 DEF Password, KindsInv, Reads, SameRecords
<1>8. CASE Username(r)
  BY <1>8 DEF Username, KindsInv, Reads, SameRecords
<1>9. CASE FindProvider(r) \/ LoadProfiles(r) \/ InsertProfile(r) \/ Fails(r)
  <2>1. pc[r] \in {"provider", "profiles", "insertProfile"} /\ user' = user
    BY <1>1, <1>9 DEF FindProvider, LoadProfiles, InsertProfile, Fails, Reads, SameRecords
  <2>2. answer'[r].user = local[r].user
    BY <1>1, <1>9 DEF FindProvider, LoadProfiles, InsertProfile, Fails
  <2> QED
    BY <2>1, <2>2 DEF KindsInv, Running, Finished
<1> QED
  BY <1>2, <1>3, <1>4, <1>5, <1>6, <1>7, <1>8, <1>9 DEF RequestStep

\* Whatever users are made, deleted, or given other addresses, names and passwords
\* meanwhile: tokens given for an address are those of the user who has it, or had
\* it when he was found and an update that overlapped the request changed it; a
\* sign-up gives those of an earlier user only if a request that overlapped it made
\* him or gave him the address; and a password gives those of a user who has it and
\* was named (AuthService.signup, ssoLogin, feedSsoUser, validateUser,
\* Userv1Service.createUser, updateUser).
THEOREM TokensBelongToAddress == Spec => TokensAreOwn
<1> DEFINE Own == \A r \in Requests :
              LET u == answer'[r].user
                  kind == op[r].kind
              IN answer'[r] # answer[r] =>
                   /\ kind \in {"sso", "ssoLogin", "signup"} /\ u \in DOMAIN user' =>
                        user'[u].email = op[r].email \/ Readdressed(u, r)
                   /\ kind = "signup" /\ u # r =>
                        Readdressed(u, r) \/ (u \in Requests /\ Overlapped(r, u))
                   /\ kind = "login" =>
                        /\ user[u].password = op[r].of
                        /\ op[r].identifier \in {user[u].email, user[u].username}
<1>1. TypeOK /\ KindsInv /\ OwnInv /\ SignupInv /\ [Next]_vars => [Own]_vars
  <2> SUFFICES ASSUME TypeOK, KindsInv, OwnInv, SignupInv, Next,
                      NEW r \in Requests, answer'[r] # answer[r]
               PROVE  LET u == answer'[r].user
                          kind == op[r].kind
                      IN /\ kind \in {"sso", "ssoLogin", "signup"} /\ u \in DOMAIN user' =>
                              user'[u].email = op[r].email \/ Readdressed(u, r)
                         /\ kind = "signup" /\ u # r =>
                              Readdressed(u, r) \/ (u \in Requests /\ Overlapped(r, u))
                         /\ kind = "login" =>
                              /\ user[u].password = op[r].of
                              /\ op[r].identifier \in {user[u].email, user[u].username}
    OBVIOUS
  <2>1. RequestStep(r) \/ Fails(r)
    BY OthersStay, RestStays DEF Next
  <2> QED
    BY <2>1, AnswerSteps DEF Holders, Identified, OwnInv, SignupInv, Newcomer
<1> QED
  BY <1>1, AccountInvariant, PTL DEF Spec, TokensAreOwn, SignInInv, AccountInv

\* One link changes the password twice only for two requests that overlap, although
\* resetPassword looks the token up and clears it in two steps, or after an update
\* wrote its token back.
THEOREM LinkChangesPasswordOnce == Spec => []ResetTokenOnce
<1>1. ResetInv => ResetTokenOnce
  BY DEF ResetInv, Restored, ResetTokenOnce
<1> QED
  BY <1>1, AccountInvariant, PTL DEF AccountInv

\* A mailed link works until it is used, replaced, rewritten by an update, or its user
\* deleted; only a reset that overlapped whoever wrote it takes it away otherwise
\* (forgotPassword, resetPassword and updateUser).
THEOREM LinkWorksUntilUsed == Spec => []MailedTokenWorks
<1>1. MailInv /\ TypeOK => MailedTokenWorks
  BY DEF MailInv, Works, Crossed, MailedTokenWorks, TypeOK
<1> QED
  BY <1>1, AccountInvariant, PTL DEF SignInInv, AccountInv

\* Refreshing keeps the user while he has the name in his tokens: refreshToken looks
\* for a name, and no two users have the same one.
THEOREM RefreshFindsSameUser == Spec => RefreshKeepsUser
<1> DEFINE Kept == \A r \in Requests :
              LET old == answer[op[r].of]
              IN op[r].kind = "refresh" /\ answer'[r] # answer[r] /\ answer'[r].user # old.user
                   => old.user \notin DOMAIN user \/ user[old.user].username # old.username
<1>1. TypeOK /\ KindsInv /\ NamesInv /\ [Next]_vars => [Kept]_vars
  <2> SUFFICES ASSUME TypeOK, KindsInv, NamesInv, Next,
                      NEW r \in Requests, op[r].kind = "refresh", answer'[r] # answer[r]
               PROVE  LET old == answer[op[r].of]
                      IN old.user \in DOMAIN user /\ user[old.user].username = old.username
                           => answer'[r].user = old.user
    OBVIOUS
  <2>1. RequestStep(r) \/ Fails(r)
    BY OthersStay, RestStays DEF Next
  <2>2. pc[r] \in {"idle", "username"}
    BY <2>1, OthersStay DEF KindsInv, TypeOK, Step, Finished, Guarded
  <2>3. Username(r)
    BY <2>1, <2>2 DEF RequestStep, Begin, Authenticate, ReadSlot, FindOwner, Ask, Lookup,
       Taken, InsertUser, Password, FindProvider, LoadProfiles, InsertProfile, Unlink,
       StoreToken, SendMail, FindByToken, SetPassword, UpdateUser, Delete, Fails, Ends
  <2>4. PICK u \in DOMAIN user : /\ user[u].username = answer[op[r].of].username
                                 /\ Answers(r, u, user[u].username)
    BY <2>3 DEF Username, Ends
  <2>5. answer'[r].user = u
    BY <2>4 DEF Answers, TypeOK
  <2> QED
    BY <2>4, <2>5 DEF NamesInv
<1> QED
  BY <1>1, AccountInvariant, PTL DEF Spec, RefreshKeepsUser, SignInInv, AccountInv

\* A linking callback goes to the person who started it, unless another one made an
\* authenticated request since his last (JwtStrategy.validate, getUserFromCache).
THEOREM LinkGoesToItsUser == Spec => LinksOwnUnlessOvertaken
<1> DEFINE Own == \A r \in Requests :
              LET u == local'[r].user
              IN pc[r] = "idle" /\ pc'[r] = "owner" /\ u # op[r].who => u \in seen[op[r].who]
<1>1. TypeOK /\ SlotInv /\ [Next]_vars => [Own]_vars
  <2> SUFFICES ASSUME TypeOK, SlotInv, Next, NEW r \in Requests, pc[r] = "idle", pc'[r] = "owner",
                      local'[r].user # op[r].who
               PROVE  local'[r].user \in seen[op[r].who]
    OBVIOUS
  <2>1. RequestStep(r) \/ Fails(r)
    BY OthersStay, RestStays DEF Next
  <2>2. op[r].kind \in Kinds /\ op[r].who \in UserIds
    BY DEF TypeOK, Operation
  <2>3. ~(Begin(r) \/ Authenticate(r))
    BY <2>2 DEF Begin, Authenticate, FirstStep, Kinds, Guarded, Ends, Goto, TypeOK
  <2>4. ReadSlot(r)
    BY <2>1, <2>3 DEF RequestStep, FindOwner, Ask, Lookup, Taken, InsertUser, Password,
       Username, FindProvider, LoadProfiles, InsertProfile, Unlink, StoreToken, SendMail,
       FindByToken, SetPassword, UpdateUser, Delete, Fails, Running
  <2>5. local'[r].user = Get /\ Get # NoUser
    BY <2>4 DEF ReadSlot, Goto, TypeOK, Local
  <2> QED
    BY <2>2, <2>5 DEF Get, SlotInv
<1> QED
  BY <1>1, AccountInvariant, PTL DEF Spec, LinksOwnUnlessOvertaken, SignInInv, AccountInv
=============================================================================
