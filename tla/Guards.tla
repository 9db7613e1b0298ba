-------------------------------- MODULE Guards --------------------------------
(***************************************************************************)
(* Who gets in: the four places that read a JSON Web Token.  require_auth  *)
(* with require_tier and require_admin (core/permissions.py) and           *)
(* get_current_active_user (api/deps.py) stand before the same routes,     *)
(* each with a decoding of its own; POST /refresh (api/routes/auth.py) and *)
(* the socket (api/routes/ws.py) have two more.  A guard answers with a    *)
(* status: 200 goes on.                                                    *)
(***************************************************************************)
EXTENDS Naturals

\* sub: no claim, something that is no UUID, a UUID of no user, the user's.
Tokens == [genuine : BOOLEAN, expired : BOOLEAN, type : {"access", "refresh"},
           sub : {"none", "garbled", "unknown", "user"}]
Missing == [genuine |-> FALSE, expired |-> FALSE, type |-> "none", sub |-> "none"]
Tiers == {"free", "starter", "pro", "elite", "system"}
Accounts == [is_active : BOOLEAN, role : {"user", "admin"}, tier : Tiers]
Ok == 200

create_access_token  == [genuine |-> TRUE, expired |-> FALSE, type |-> "access", sub |-> "user"]
create_refresh_token == [genuine |-> TRUE, expired |-> FALSE, type |-> "refresh", sub |-> "user"]

\* The signature and exp hold, and there is a subject: else it raises.
verify_token(t) == t.genuine /\ ~t.expired /\ t.sub # "none"

\* Variant for a mutation check: a refresh token will do.
require_auth_any(t, u) ==
    IF t = Missing THEN 403
    ELSE IF ~verify_token(t) \/ t.sub # "user" THEN 401
    ELSE IF ~u.is_active THEN 403
    ELSE Ok

\* HTTPBearer(auto_error=True) answers 403 by itself when there is no token.
require_auth(t, u) ==
    IF t = Missing THEN 403
    ELSE IF ~verify_token(t) \/ t.type # "access" \/ t.sub # "user" THEN 401
    ELSE IF ~u.is_active THEN 403
    ELSE Ok

tier_rank(t) == CASE t = "free" -> 0 [] t = "starter" -> 1 [] t = "pro" -> 2
                  [] t = "elite" -> 3 [] t = "system" -> 4

require_tier(min_tier, t, u) ==
    IF require_auth(t, u) # Ok THEN require_auth(t, u)
    ELSE IF u.role = "admin" \/ tier_rank(u.tier) >= tier_rank(min_tier) THEN Ok
    ELSE 403

require_admin(t, u) ==
    IF require_auth(t, u) # Ok THEN require_auth(t, u)
    ELSE IF u.role = "admin" THEN Ok ELSE 403

get_current_user(t) ==
    IF t = Missing \/ ~verify_token(t) \/ t.type # "access" \/ t.sub # "user" THEN 401 ELSE Ok

get_current_active_user(t, u) ==
    IF get_current_user(t) # Ok THEN get_current_user(t)
    ELSE IF ~u.is_active THEN 403 ELSE Ok

refresh(t, u) ==
    IF ~verify_token(t) \/ t.type # "refresh" \/ t.sub # "user" THEN 401
    ELSE IF ~u.is_active THEN 403
    ELSE Ok

authenticate_ws(t) == t # Missing /\ verify_token(t) /\ t.type = "access" /\ t.sub # "garbled"

dashboard(tier) == tier # "free"

\* The socket is accepted: the user is looked up, is_active is not looked at.
dashboard_websocket(t, u) ==
    /\ authenticate_ws(t)
    /\ t.sub = "user"
    /\ dashboard(u.tier) \/ u.role = "admin"

-----------------------------------------------------------------------------
\* Of the guards before a route, the two decodings agree whoever asks with whatever token,
\* but for the status when there is none; a route behind require_tier or require_admin is
\* never opened to somebody the handler then refuses.  No token is good both for a route and
\* for new tokens, and the ones a login hands out are good for one each.  The socket, which
\* goes by the dashboard flag of the tier and not by its rank, opens to an active user
\* exactly when the routes of the paid tiers do.  (To a user who is not active it opens as
\* well, which no route does.)
GuardsAgreeFor(tokens, users) ==
    \A t \in tokens, u \in users :
       /\ (require_auth(t, u) = Ok) = (get_current_active_user(t, u) = Ok)
       /\ t # Missing => require_auth(t, u) = get_current_active_user(t, u)
       /\ \A m \in Tiers : require_tier(m, t, u) = Ok => get_current_active_user(t, u) = Ok
       /\ require_admin(t, u) = Ok => \A m \in Tiers : require_tier(m, t, u) = Ok
       /\ ~(refresh(t, u) = Ok /\ get_current_active_user(t, u) = Ok)
       /\ u.is_active => /\ get_current_active_user(create_access_token, u) = Ok
                         /\ refresh(create_refresh_token, u) = Ok
                         /\ dashboard_websocket(t, u) <=> require_tier("starter", t, u) = Ok
=============================================================================
