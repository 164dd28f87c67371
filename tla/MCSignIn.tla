------------------------------- MODULE MCSignIn -------------------------------
(***************************************************************************)
(* Each scenario is a list of requests that meet in one hazard of SignIn.  *)
(***************************************************************************)
EXTENDS SignIn, Sequences, TLC

CONSTANTS r1, r2, r3, r4, ann, bob, annMail, bobMail, newMail, annName, bobName, newName

MCAccount ==
  ann :> [email |-> annMail, username |-> annName, password |-> ann, token |-> NoRequest]
  @@ bob :> [email |-> bobMail, username |-> bobName, password |-> bob, token |-> NoRequest]

Op(kind, who) == [kind |-> kind, who |-> who, target |-> ann, of |-> who,
                  email |-> annMail, username |-> newName, provider |-> "google",
                  identifier |-> annMail, fields |-> {}]
Link(who, p, e) == [Op("link", who) EXCEPT !.provider = p, !.email = e]
Sso(kind, p, e) == [Op(kind, ann) EXCEPT !.provider = p, !.email = e]
On(kind, r) == [Op(kind, ann) EXCEPT !.of = r]
Named(kind, e, n) == [Op(kind, bob) EXCEPT !.email = e, !.username = n]
Visit(who) == Op("visit", who)
Login(id, u) == [Op("login", u) EXCEPT !.identifier = id]
Update(fields) == [Op("update", bob) EXCEPT !.fields = fields, !.email = newMail]
Restore(r) == [Update({"token"}) EXCEPT !.of = r]

Scenarios == {
  <<Visit(ann), Visit(bob), Link(ann, "tiktok", newMail), Link(bob, "pinterest", newMail)>>,
  <<Visit(ann), Link(ann, "twitter", newMail), Link(ann, "instagram", newMail), On("unlink", r2)>>,
  <<Visit(ann), Link(ann, "twitter", NoEmail), Link(ann, "tiktok", NoEmail), Op("remove", bob)>>,
  <<Sso("sso", "google", newMail), Sso("sso", "google", newMail), Sso("signup", "google", newMail),
    Sso("ssoLogin", "google", newMail)>>,
  <<Sso("sso", "google", annMail), Sso("sso", "youtube", annMail), Sso("sso", "google", annMail),
    On("unlink", r1)>>,
  <<Sso("sso", "snapchat", annMail), Sso("sso", "tiktok", NoEmail),
    Sso("ssoLogin", "snapchat", annMail), Named("signup", bobMail, bobName)>>,
  <<Op("forgot", ann), Op("forgot", ann), On("reset", r1), On("reset", r2)>>,
  <<Op("forgot", ann), On("reset", r1), On("reset", r1), On("login", r2)>>,
  <<Op("forgot", ann), On("reset", r1), Op("remove", bob), Named("forgot", newMail, newName)>>,
  <<Op("login", ann), On("refresh", r1), Update({"username"}), Named("signup", newMail, annName)>>,
  <<Op("login", ann), On("refresh", r1), Op("remove", bob), Named("create", newMail, annName)>>,
  <<Named("signup", newMail, newName), Named("signup", newMail, annName),
    Named("create", newMail, bobName), On("login", r1)>>,
  <<Sso("sso", "google", annMail), Update({"email"}), Named("signup", newMail, newName),
    Sso("ssoLogin", "google", newMail)>>,
  <<Named("signup", newMail, annMail), Login(annMail, ann), Login(annMail, r1), Login(bobName, bob)>>,
  <<[Update({"email"}) EXCEPT !.email = NoEmail], Sso("sso", "tiktok", NoEmail),
    Link(ann, "pinterest", newMail), Update({"email", "password"})>>,
  <<Op("forgot", ann), Op("forgot", ann), On("reset", r2), Restore(r1)>>,
  <<Op("forgot", ann), On("reset", r1), On("reset", r1), Restore(r1)>>,
  <<Op("forgot", ann), Update({"token", "password"}), Login(annMail, r2), On("reset", r1)>> }

MCWorkloads == {r1 :> s[1] @@ r2 :> s[2] @@ r3 :> s[3] @@ r4 :> s[4] : s \in Scenarios}
=============================================================================
