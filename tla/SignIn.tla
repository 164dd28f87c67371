-------------------------------- MODULE SignIn --------------------------------
(***************************************************************************)
(* Users, their social profiles, and the requests of AuthController that   *)
(* create, link and sign in to them: sign-up, sign-in by password or by a  *)
(* provider, refresh, the linking callbacks, the password reset, and an    *)
(* administrator's creation, update and deletion of users.  A request goes *)
(* await by await; two requests may overlap anywhere.                      *)
(*                                                                         *)
(* A linking callback carries no token.  JwtStrategy.validate leaves the   *)
(* id of whoever makes an authenticated request in one entry of a cache,   *)
(* and the callback links the account to the user it finds there.          *)
(*                                                                         *)
(* A user, a profile, a reset token and a password are named by the        *)
(* request that creates them: ids and uuids are unique.  Usernames are     *)
(* taken as normalised.  The items of profiles are in Catalogue.           *)
(***************************************************************************)
EXTENDS Naturals, Handlers

CONSTANTS
  InitialUsers, Emails, Usernames,
  NoUser, NoEmail, NoRequest,
  Account,    \* [InitialUsers -> User], the users there are at first
  Lifetime,   \* of the cache's entry: 20000 ms in the code
  MaxClock,   \* bound: the time that passes
  MaxFaults   \* bound: failed queries, failed calls of a provider, restarts

UserIds == InitialUsers \cup Requests

Providers == {"google", "youtube", "tiktok", "twitter", "instagram", "pinterest",
              "snapchat"}
Guarded == {"visit", "create", "update", "remove", "unlink"}
Kinds == Guarded \cup {"link", "sso", "ssoLogin", "signup", "login", "refresh",
                       "forgot", "reset"}

\* who is behind the request, or whose id it carries; of is the earlier request
\* it refers to: whose tokens it refreshes, whose mail it answers, whose profile
\* it deletes, whose password it gives, whose reset token it writes back.  fields
\* are those an update writes; identifier is what one signs in with, an address
\* or a username, and a username may look like an address.
Operation == [kind : Kinds, who : UserIds, target : UserIds, of : UserIds,
              email : Emails \cup {NoEmail}, username : Usernames,
              provider : Providers, identifier : Emails \cup Usernames,
              fields : SUBSET {"email", "username", "password", "token"}]

\* An update, which validates nothing, may leave a user without an address.
User == [email : Emails \cup {NoEmail}, username : Usernames, password : UserIds,
         token : Requests \cup {NoRequest}]

ASSUME SignInAssumption ==
  /\ Account \in [InitialUsers -> User]
  /\ Workloads \subseteq [Requests -> Operation]
  /\ \A u \in InitialUsers : Account[u].token = NoRequest
  /\ \A u, v \in InitialUsers : Account[u].username = Account[v].username => u = v
  /\ InitialUsers \cap Requests = {}
  /\ NoUser \notin UserIds /\ NoRequest \notin Requests /\ NoEmail \notin Emails
  /\ Usernames # {}
  /\ Lifetime \in Nat /\ MaxClock \in Nat /\ MaxFaults \in Nat

VARIABLES
  local,     \* [Requests -> Local], its local variables
  answer,    \* [Requests -> Answer], the payload of the tokens it is given
  user,      \* [ids -> User], the User collection
  profiles,  \* the SocialProfile collection
  slot,      \* the cache's entry 'userId'
  mailed,    \* the forgot requests whose mail is sent
  clock, faults,
  seen,      \* history: who has made an authenticated request since each
             \* user's last
  fate       \* history: what became of each reset token

vars == <<handlers, local, answer, user, profiles, slot, mailed, clock, faults,
          seen, fate>>

Step == {"idle", "owner", "ask", "lookup", "taken", "insertUser", "provider",
         "profiles", "insertProfile", "password", "username", "storeToken", "mail",
         "byToken", "setPassword", "update", "delete", "unlink"} \cup Finished
Local == [user : UserIds \cup {NoUser}, username : Usernames,
          email : Emails \cup {NoEmail}, first : BOOLEAN]
Answer == [user : UserIds \cup {NoUser}, username : Usernames]
Fate == {"unused", "used", "replaced", "cleared", "rewritten"}
Profile == [by : Requests, user : UserIds, provider : Providers, email : Emails,
            primary : BOOLEAN]

TypeOK ==
  /\ op \in [Requests -> Operation]
  /\ pc \in [Requests -> Step]
  /\ local \in [Requests -> Local]
  /\ answer \in [Requests -> Answer]
  /\ DOMAIN user \subseteq UserIds
  /\ user \in [DOMAIN user -> User]
  /\ profiles \subseteq Profile
  /\ slot \in [user : UserIds \cup {NoUser}, expires : Nat]
  /\ mailed \subseteq Requests
  /\ clock \in 0..MaxClock
  /\ faults \in 0..MaxFaults
  /\ seen \in [UserIds -> SUBSET UserIds]
  /\ overlap \subseteq SUBSET Requests
  /\ fate \in [Requests -> Fate]

AnyName == CHOOSE n \in Usernames : TRUE
Nobody == [user |-> NoUser, username |-> AnyName]
Empty == [user |-> NoUser, expires |-> 0]

Init ==
  /\ HandlersInit
  /\ local = [r \in Requests |-> [user |-> NoUser, username |-> AnyName,
                                  email |-> NoEmail, first |-> FALSE]]
  /\ answer = [r \in Requests |-> Nobody]
  /\ user = Account
  /\ profiles = {}
  /\ slot = Empty
  /\ mailed = {}
  /\ clock = 0 /\ faults = 0
  /\ seen = [u \in UserIds |-> {}]
  /\ fate = [r \in Requests |-> "unused"]
-----------------------------------------------------------------------------
(* Requests.                                                               *)

\* Everything a request has no part in; most steps change only their request.
Quiet == UNCHANGED <<op, clock, faults, seen, overlap>>
SameRecords == UNCHANGED <<user, profiles, mailed, fate>>
Reads == Quiet /\ SameRecords /\ UNCHANGED slot

\* The request goes on, or ends, without having learned anything.
Ends(r, step) == Goto(r, step) /\ UNCHANGED <<local, answer>>

\* login: the payload of both tokens is the id and the name of the user.
Answers(r, u, n) ==
  /\ Goto(r, "done")
  /\ answer' = [answer EXCEPT ![r] = [user |-> u, username |-> n]]
  /\ UNCHANGED local

\* The request keeps the user it found.
Keeps(r, u, step) ==
  /\ Goto(r, step)
  /\ local' = [local EXCEPT ![r] = [@ EXCEPT !.user = u, !.username = user[u].username]]
  /\ UNCHANGED answer

FirstStep == [visit |-> "done", create |-> "taken", update |-> "update",
              remove |-> "delete", unlink |-> "unlink", sso |-> "ask",
              ssoLogin |-> "ask", signup |-> "lookup", forgot |-> "lookup",
              login |-> "password", refresh |-> "username", reset |-> "byToken"]

\* The update writes the reset token of request f.
Restores(o, f) == o.kind = "update" /\ "token" \in o.fields /\ o.of = f

\* One can refresh tokens one was given, answer a mail that was sent, and write a
\* reset token back to the user from whom one has read it.
Possible(o) ==
  /\ o.kind = "refresh" => o.of \in Requests /\ answer[o.of].user # NoUser
  /\ o.kind = "reset" => o.of \in mailed
  /\ \A f \in Requests : Restores(o, f) =>
       op[f].kind = "forgot" /\ pc[f] \in {"mail", "done"} /\ local[f].user = o.target

Begin(r) ==
  /\ pc[r] = "idle"
  /\ op[r].kind \notin Guarded \cup {"link"}
  /\ Possible(op[r])
  /\ Ends(r, FirstStep[op[r].kind])
  /\ Meets(r)
  /\ SameRecords
  /\ UNCHANGED <<op, slot, clock, faults, seen>>

\* Variant: a fresh entry is kept.
PutIfAbsent(u) ==
  IF slot.user # NoUser /\ clock <= slot.expires THEN slot
  ELSE [user |-> u, expires |-> clock + Lifetime]

\* cache.put('userId', payload.sub, 20000)
Put(u) == [user |-> u, expires |-> clock + Lifetime]

\* JwtStrategy.validate takes the token's word: it reads no user.
Authenticate(r) ==
  /\ pc[r] = "idle"
  /\ op[r].kind \in Guarded
  /\ Possible(op[r])
  /\ slot' = Put(op[r].who)
  /\ seen' = [u \in UserIds |->
                IF u = op[r].who THEN {}
                ELSE seen[u] \cup {op[r].who}]
  /\ Ends(r, FirstStep[op[r].kind])
  /\ Meets(r)
  /\ SameRecords
  /\ UNCHANGED <<op, clock, faults>>

\* cache.get('userId')
Get == IF clock <= slot.expires THEN slot.user ELSE NoUser

\* The callback of a provider: getUserFromCache up to its first await.
ReadSlot(r) ==
  /\ pc[r] = "idle"
  /\ op[r].kind = "link"
  /\ Goto(r, IF Get = NoUser THEN "failed" ELSE "owner")
  /\ local' = [local EXCEPT ![r].user = Get]
  /\ Meets(r)
  /\ SameRecords
  /\ UNCHANGED <<op, answer, slot, clock, faults, seen>>

\* userService.findById throws if there is no such user.  A Pinterest profile
\* takes the user's address.
FindOwner(r) ==
  /\ pc[r] = "owner"
  /\ LET u == local[r].user
     IN IF u \notin DOMAIN user THEN Ends(r, "failed")
        ELSE /\ Goto(r, "ask")
             /\ local' = [local EXCEPT ![r] = [@ EXCEPT !.username = user[u].username,
                  !.email = IF op[r].provider = "pinterest" THEN user[u].email
                            ELSE op[r].email]]
             /\ UNCHANGED answer
  /\ Reads

\* The providers each flow knows; Twitter must give an address, and so must
\* every provider for ssoLogin.
Accepted(o) ==
  /\ o.kind = "link" => /\ o.provider \in {"tiktok", "twitter", "instagram", "pinterest"}
                        /\ o.provider = "twitter" => o.email # NoEmail
  /\ o.kind = "sso" => o.provider \in {"youtube", "google", "tiktok"}
  /\ o.kind = "ssoLogin" => /\ o.provider \in {"youtube", "google", "twitter", "tiktok"}
                            /\ o.email # NoEmail

\* The provider's answer.
Ask(r) ==
  /\ pc[r] = "ask"
  /\ Ends(r, IF ~Accepted(op[r]) THEN "failed"
             ELSE IF op[r].kind = "link" THEN "provider" ELSE "lookup")
  /\ Reads

\* Variant: the first user there is.
HoldersOfAny(o) == DOMAIN user

\* findOne({ email })
Holders(o) == {u \in DOMAIN user : user[u].email = o.email}

\* userService.getByEmail, and where each flow goes on.
Lookup(r) ==
  /\ pc[r] = "lookup"
  /\ \/ /\ Holders(op[r]) = {}
        /\ Ends(r, IF op[r].kind \in {"sso", "signup"} THEN "taken" ELSE "failed")
     \/ \E u \in Holders(op[r]) :
          \/ op[r].kind = "sso" /\ Keeps(r, u, "provider")
          \/ op[r].kind = "ssoLogin" /\ Answers(r, u, user[u].username)
          \/ op[r].kind = "signup" /\ Ends(r, "failed")
          \/ op[r].kind = "forgot" /\ Keeps(r, u, "storeToken")
  /\ Reads

\* createUser looks the address up once more, and takes whom it finds for the
\* user it made.  Who signs in by a provider gets a profile.
Taken(r) ==
  /\ pc[r] = "taken"
  /\ \/ Holders(op[r]) = {} /\ Ends(r, "insertUser")
     \/ \E u \in Holders(op[r]) :
          \/ op[r].kind = "sso" /\ Keeps(r, u, "profiles")
          \/ op[r].kind = "signup" /\ Answers(r, u, user[u].username)
          \/ op[r].kind = "create" /\ Ends(r, "done")
  /\ Reads

\* Variant: usernames may be shared.
ClashOfEmail(o) == \E u \in DOMAIN user : user[u].email = o.email

\* The unique indexes of the collection.
Clash(o) == \E u \in DOMAIN user : user[u].email = o.email \/ user[u].username = o.username

InsertUser(r) ==
  /\ pc[r] = "insertUser"
  /\ \/ /\ Clash(op[r]) \/ op[r].email = NoEmail
        /\ Ends(r, "failed")
        /\ UNCHANGED user
     \/ /\ ~Clash(op[r]) /\ op[r].email # NoEmail
        /\ user' = [u \in DOMAIN user \cup {r} |->
             IF u = r THEN [email |-> op[r].email, username |-> op[r].username,
                            password |-> r, token |-> NoRequest]
             ELSE user[u]]
        /\ \/ /\ op[r].kind = "sso"
              /\ Goto(r, "profiles")
              /\ local' = [local EXCEPT ![r] = [@ EXCEPT !.user = r,
                                                        !.username = op[r].username]]
              /\ UNCHANGED answer
           \/ op[r].kind = "signup" /\ Answers(r, r, op[r].username)
           \/ op[r].kind = "create" /\ Ends(r, "done")
  /\ Quiet /\ UNCHANGED <<profiles, slot, mailed, fate>>

\* findOne({ $or: [{ username }, { email }] })
Identified(o) == {u \in DOMAIN user : o.identifier \in {user[u].username, user[u].email}}

\* getByUsernameOrEmail returns one of them, and only his password is compared.
Password(r) ==
  /\ pc[r] = "password"
  /\ \/ Identified(op[r]) = {} /\ Ends(r, "failed")
     \/ \E u \in Identified(op[r]) :
          \/ user[u].password = op[r].of /\ Answers(r, u, user[u].username)
          \/ user[u].password # op[r].of /\ Ends(r, "failed")
  /\ Reads

\* refreshToken finds the user by the name in the old tokens, not by the id.
Username(r) ==
  /\ pc[r] = "username"
  /\ LET named == {u \in DOMAIN user : user[u].username = answer[op[r].of].username}
     IN \/ named = {} /\ Ends(r, "failed")
        \/ \E u \in named : Answers(r, u, user[u].username)
  /\ Reads
-----------------------------------------------------------------------------
(* Social profiles.                                                        *)

\* findSocialProfileByIdAndProvider, with the provider as the flow names it: no
\* profile is ever stored under google.
FindProvider(r) ==
  /\ pc[r] = "provider"
  /\ IF \E p \in profiles : p.user = local[r].user /\ p.provider = op[r].provider
     THEN Answers(r, local[r].user, local[r].username)
     ELSE Ends(r, "profiles")
  /\ Reads

Stored(o) == IF o.provider = "google" THEN "youtube" ELSE o.provider

ProfileEmail(r) == IF op[r].kind = "link" THEN local[r].email ELSE op[r].email

\* Variant: nobody looks for the profile.
TwinIgnored(r) == FALSE

\* The user's profile of this provider and address.
Twin(r) == \E p \in profiles : /\ p.user = local[r].user
                               /\ p.provider = Stored(op[r])
                               /\ p.email = ProfileEmail(r)

\* getUserSocialProfiles, which throws if the user is gone.  (createUser calls
\* it once more just before, for a value that create ignores.)
LoadProfiles(r) ==
  /\ pc[r] = "profiles"
  /\ IF local[r].user \notin DOMAIN user THEN Ends(r, "failed")
     ELSE IF Twin(r) THEN Answers(r, local[r].user, local[r].username)
     ELSE /\ Goto(r, "insertProfile")
          /\ local' = [local EXCEPT ![r].first =
                         ~\E p \in profiles : p.user = local[r].user]
          /\ UNCHANGED answer
  /\ Reads

\* Variant: a profile needs no address.
Unvalidated(r) == {ProfileEmail(r)}

\* The schema requires an address.
Valid(r) == {ProfileEmail(r)} \ {NoEmail}

\* create logs what the insert throws: the request answers in any case.
InsertProfile(r) ==
  /\ pc[r] = "insertProfile"
  /\ profiles' = profiles \cup
       {[by |-> r, user |-> local[r].user, provider |-> Stored(op[r]), email |-> e,
         primary |-> local[r].first] : e \in Valid(r)}
  /\ Answers(r, local[r].user, local[r].username)
  /\ Quiet /\ UNCHANGED <<user, slot, mailed, fate>>

\* The document goes; its item and its flag requests are Catalogue's.
Unlink(r) ==
  /\ pc[r] = "unlink"
  /\ profiles' = {p \in profiles : p.by # op[r].of}
  /\ Ends(r, "done")
  /\ Quiet /\ UNCHANGED <<user, slot, mailed, fate>>
-----------------------------------------------------------------------------
(* The password reset, and an administrator's changes.                      *)

\* Variant: a token that was not used yet is kept.
TokenStoredOnce(r, token) == IF token = NoRequest THEN r ELSE token

TokenStored(r, token) == r

\* updateUser(user._id, { token })
StoreToken(r) ==
  /\ pc[r] = "storeToken"
  /\ LET u == local[r].user
     IN IF u \notin DOMAIN user THEN Ends(r, "failed") /\ UNCHANGED <<user, fate>>
        ELSE /\ user' = [user EXCEPT ![u].token = TokenStored(r, @)]
             /\ fate' = [f \in Requests |->
                  IF f = user[u].token /\ f # user'[u].token THEN "replaced"
                  ELSE fate[f]]
             /\ Ends(r, "mail")
  /\ Quiet /\ UNCHANGED <<profiles, slot, mailed>>

SendMail(r) ==
  /\ pc[r] = "mail"
  /\ mailed' = mailed \cup {r}
  /\ Ends(r, "done")
  /\ Quiet /\ UNCHANGED <<user, profiles, slot, fate>>

\* getByResetToken
FindByToken(r) ==
  /\ pc[r] = "byToken"
  /\ LET matching == {u \in DOMAIN user : user[u].token = op[r].of}
     IN \/ matching = {} /\ Ends(r, "failed")
        \/ \E u \in matching : Keeps(r, u, "setPassword")
  /\ Reads

\* Variant: the token is not cleared.
TokenKept(token) == token

TokenAfter(token) == NoRequest

\* updateUser(user._id, { token: null, password }), whatever the token is now.
SetPassword(r) ==
  /\ pc[r] = "setPassword"
  /\ LET u == local[r].user
     IN IF u \notin DOMAIN user THEN Ends(r, "failed") /\ UNCHANGED <<user, fate>>
        ELSE /\ user' = [user EXCEPT ![u] = [@ EXCEPT !.password = r,
                                                    !.token = TokenAfter(@)]]
             /\ fate' = [f \in Requests |->
                  IF f = op[r].of THEN "used"
                  ELSE IF f = user[u].token THEN "cleared" ELSE fate[f]]
             /\ Ends(r, "done")
  /\ Quiet /\ UNCHANGED <<profiles, slot, mailed>>

\* The record of a user once request r has updated it.  A token that no mail
\* names, or null, is NoRequest.
Updated(r, w) ==
  LET o == op[r]
  IN [email |-> IF "email" \in o.fields THEN o.email ELSE w.email,
      username |-> IF "username" \in o.fields THEN o.username ELSE w.username,
      password |-> IF "password" \in o.fields THEN r ELSE w.password,
      token |-> IF "token" \notin o.fields THEN w.token
                ELSE IF o.of \in Requests THEN o.of ELSE NoRequest]

\* updateUser, an administrator's PUT of any field of any user: neither the DTO nor
\* the schema keeps a field out, and only the unique indexes refuse a value.  A
\* user's own updateProfile is the same call.
UpdateUser(r) ==
  /\ pc[r] = "update"
  /\ LET u == op[r].target
         w == Updated(r, user[u])
     IN \/ /\ u \in DOMAIN user
           /\ \A v \in DOMAIN user \ {u} : user[v].email # w.email /\ user[v].username # w.username
           /\ user' = [user EXCEPT ![u] = w]
           /\ fate' = [f \in Requests |->
                IF f = user[u].token /\ f # w.token THEN "rewritten" ELSE fate[f]]
           /\ Ends(r, "done")
        \/ /\ \/ u \notin DOMAIN user
              \/ \E v \in DOMAIN user \ {u} :
                   user[v].email = w.email \/ user[v].username = w.username
           /\ Ends(r, "failed")
           /\ UNCHANGED <<user, fate>>
  /\ Quiet /\ UNCHANGED <<profiles, slot, mailed>>

\* deleteUser leaves the user's profiles.
Delete(r) ==
  /\ pc[r] = "delete"
  /\ user' = [u \in DOMAIN user \ {op[r].target} |-> user[u]]
  /\ Ends(r, IF op[r].target \in DOMAIN user THEN "done" ELSE "failed")
  /\ Quiet /\ UNCHANGED <<profiles, slot, mailed, fate>>
-----------------------------------------------------------------------------
(* Faults and time.                                                        *)

\* A query, a provider or the mail service fails: the request ends, except that
\* a profile that could not be stored is only logged.
Fails(r) ==
  /\ faults < MaxFaults /\ faults' = faults + 1
  /\ Running(r)
  /\ \/ pc[r] = "insertProfile" /\ Answers(r, local[r].user, local[r].username)
     \/ pc[r] # "insertProfile" /\ Ends(r, "broken")
  /\ SameRecords
  /\ UNCHANGED <<op, slot, clock, seen, overlap>>

\* The process restarts: requests under way and the cache are lost.
Restart ==
  /\ faults < MaxFaults /\ faults' = faults + 1
  /\ pc' = [r \in Requests |-> IF Running(r) THEN "broken" ELSE pc[r]]
  /\ slot' = Empty
  /\ SameRecords
  /\ UNCHANGED <<op, local, answer, clock, seen, overlap>>

Tick ==
  /\ clock < MaxClock /\ clock' = clock + 1
  /\ SameRecords
  /\ UNCHANGED <<op, pc, local, answer, slot, faults, seen, overlap>>

RequestStep(r) ==
  \/ Begin(r) \/ Authenticate(r) \/ ReadSlot(r)
  \/ FindOwner(r) \/ Ask(r) \/ Lookup(r) \/ Taken(r) \/ InsertUser(r)
  \/ Password(r) \/ Username(r)
  \/ FindProvider(r) \/ LoadProfiles(r) \/ InsertProfile(r) \/ Unlink(r)
  \/ StoreToken(r) \/ SendMail(r) \/ FindByToken(r) \/ SetPassword(r)
  \/ UpdateUser(r) \/ Delete(r)

Next == (\E r \in Requests : RequestStep(r) \/ Fails(r)) \/ Restart \/ Tick

Spec == Init /\ [][Next]_vars
-----------------------------------------------------------------------------
\* Two profiles of one user that are alike, or both primary, were made by two
\* requests that overlapped: SocialProfileV1Service.create reads the user's
\* profiles before it adds one, and nothing else keeps them apart.
TwinsOverlap ==
  \A p, q \in profiles :
    /\ p.user = q.user /\ p.by # q.by
    /\ (p.provider = q.provider /\ p.email = q.email) \/ (p.primary /\ q.primary)
    => Overlapped(p.by, q.by)

\* Who writes the token of f: the request itself, and an update that restores it.
Writes(p, f) == p = f \/ Restores(op[p], f)

\* The link in a mail works until it is used, a newer one is asked for, an update
\* writes another token, or the user is deleted; a reset takes away a link it did
\* not use only if it overlapped whoever wrote this link (forgotPassword and
\* resetPassword write the token without looking what it is).
MailedTokenWorks ==
  \A f \in mailed :
    \/ \E u \in DOMAIN user : user[u].token = f
    \/ fate[f] \in {"used", "replaced", "rewritten"}
    \/ fate[f] = "cleared" /\ \E p, q \in Requests : /\ op[q].kind = "reset"
                                                     /\ Writes(p, f) /\ Overlapped(p, q)
    \/ local[f].user \notin DOMAIN user

\* One link changes the password twice only for two requests that overlap, for
\* resetPassword looks the token up and clears it in two steps, or after an update
\* wrote the token back.
ResetTokenOnce ==
  \A r, q \in Requests :
    /\ r # q /\ op[r].kind = "reset" /\ op[q].kind = "reset" /\ op[r].of = op[q].of
    /\ pc[r] = "done" /\ pc[q] = "done"
    => \/ Overlapped(r, q)
       \/ \E p \in Requests : pc[p] = "done" /\ Restores(op[p], op[r].of)

\* The user's address was written while the request ran.
Readdressed(u, r) ==
  \E q \in Requests : /\ op[q].kind = "update" /\ op[q].target = u
                      /\ "email" \in op[q].fields /\ Overlapped(r, q)

\* Tokens given for an address, one's own or one's provider's, are those of the user
\* who has this address at that moment, unless an update changed it between the
\* lookup and the answer (ssoLogin, feedSsoUser).  A sign-up gives those of an
\* earlier user, whose password it does not know, only when another request made
\* him, or gave him the address, meanwhile (signup, createUser).  Who gives a
\* password gets the tokens of a user with this password whom he has named
\* (validateUser).
TokensAreOwn ==
  [][\A r \in Requests :
       LET u == answer'[r].user
           kind == op[r].kind
       IN answer'[r] # answer[r] =>
            /\ kind \in {"sso", "ssoLogin", "signup"} /\ u \in DOMAIN user' =>
                 user'[u].email = op[r].email \/ Readdressed(u, r)
            /\ kind = "signup" /\ u # r =>
                 Readdressed(u, r) \/ (u \in Requests /\ Overlapped(r, u))
            /\ kind = "login" => /\ user[u].password = op[r].of
                                 /\ op[r].identifier \in {user[u].email, user[u].username}]_vars

\* Refreshing gives tokens of the same user, unless he was renamed or deleted
\* and another one has his name: refreshToken looks for the name.
RefreshKeepsUser ==
  [][\A r \in Requests :
       LET old == answer[op[r].of]
       IN op[r].kind = "refresh" /\ answer'[r] # answer[r] /\ answer'[r].user # old.user
            => old.user \notin DOMAIN user \/ user[old.user].username # old.username]_vars

\* A linking callback goes to the person who started it, unless another one made
\* an authenticated request since his last: the cache has one entry for all.
LinksOwnUnlessOvertaken ==
  [][\A r \in Requests :
       LET u == local'[r].user
       IN pc[r] = "idle" /\ pc'[r] = "owner" /\ u # op[r].who
            => u \in seen[op[r].who]]_vars
=============================================================================
