----------------------------- MODULE OperatorAuth -----------------------------
(***************************************************************************)
(* createOperatorAuth of apps/api: who may use the routes that change      *)
(* state.  A login is counted per address and user name: after             *)
(* MaxFailedAttempts failures it is refused until the window that the      *)
(* first of them opened is over.  A token carries its own expiry and is    *)
(* kept nowhere; `issued` stands for the signature, which only the API can *)
(* make.  The table of failures is in memory and a restart forgets it,     *)
(* while tokens stay good: the secret is configuration.                    *)
(* A missing configuration (503) and the form of a token are left out.     *)
(***************************************************************************)
EXTENDS Integers, Sequences

CONSTANTS
    Key,                \* address and user name of a login
    MaxFailedAttempts,
    Window,             \* RATE_LIMIT_WINDOW_MS, in ticks of the clock
    TokenTtl            \* tokenTtlSeconds, in the same ticks

ASSUME AuthAssumption ==
    /\ MaxFailedAttempts \in Nat \ {0} /\ Window \in Nat \ {0}
    /\ TokenTtl \in Nat

VARIABLES
    now,
    failedAttempts,     \* the table; a count of 0 is no entry
    failures,           \* history: the failures since the last success or restart,
                        \* each with the place of the one that opened its window
    issued

authVars == <<now, failedAttempts, failures, issued>>

NoRecord == [count |-> 0, expiresAt |-> 0]

AuthInit ==
    /\ now = 0
    /\ failedAttempts = [k \in Key |-> NoRecord]
    /\ failures = [k \in Key |-> <<>>]
    /\ issued = {}

\* Whether a failure would open a new window.
Forgotten(k) == failedAttempts[k].count = 0 \/ failedAttempts[k].expiresAt <= now

\* Fault: a failure extends the window, and so the refusal.
TrackFailureExtending(k) ==
    failedAttempts' = [failedAttempts EXCEPT ![k] =
        [count |-> IF Forgotten(k) THEN 1 ELSE @.count + 1, expiresAt |-> now + Window]]

TrackFailure(k) ==
    failedAttempts' = [failedAttempts EXCEPT ![k] =
        IF Forgotten(k) THEN [count |-> 1, expiresAt |-> now + Window]
                        ELSE [count |-> @.count + 1, expiresAt |-> @.expiresAt]]

\* Fault: the limit is passed by one.
LockedLate(k) == ~Forgotten(k) /\ failedAttempts[k].count > MaxFailedAttempts

\* assertRateLimit raises.  That it also deletes an expired entry cannot be seen.
Locked(k) == ~Forgotten(k) /\ failedAttempts[k].count >= MaxFailedAttempts

InvalidLogin(k) ==
    /\ ~Locked(k)
    /\ TrackFailure(k)
    /\ failures' = [failures EXCEPT ![k] = Append(@,
           [ at |-> now,
             first |-> IF Forgotten(k) THEN Len(@) + 1 ELSE @[Len(@)].first ])]
    /\ UNCHANGED <<now, issued>>

Token == [iat |-> now, exp |-> now + TokenTtl]

ValidLogin(k) ==
    /\ ~Locked(k)
    /\ failedAttempts' = [failedAttempts EXCEPT ![k] = NoRecord]
    /\ failures' = [failures EXCEPT ![k] = <<>>]
    /\ issued' = issued \cup {Token}
    /\ UNCHANGED now

\* Fault: a token is good for a tick too many.
AuthenticateAtExpiry(token) == token \in issued /\ token.exp >= now

Authenticate(token) == token \in issued /\ token.exp > now

RestartAuth ==
    /\ failedAttempts' = [k \in Key |-> NoRecord]
    /\ failures' = [k \in Key |-> <<>>]
    /\ UNCHANGED <<now, issued>>

Tick ==
    /\ now' = now + 1
    /\ UNCHANGED <<failedAttempts, failures, issued>>

AuthNext == Tick \/ RestartAuth \/ \E k \in Key : InvalidLogin(k) \/ ValidLogin(k)

AuthSpec == AuthInit /\ [][AuthNext]_authVars

-----------------------------------------------------------------------------
(* Properties *)

AuthTypeOK ==
    /\ now \in Nat
    /\ failedAttempts \in [Key -> [count : Nat, expiresAt : Nat]]
    /\ failures \in [Key -> Seq([at : Nat, first : Nat])]
    /\ issued \subseteq [iat : Nat, exp : Nat]

\* However logins are spread over time and windows, 2 * MaxFailedAttempts failures in a
\* row without a success take at least a whole window: the windows are fixed, not
\* sliding, so the bound is not MaxFailedAttempts.
GuessesAreLimited ==
    \A k \in Key : \A i \in 1 .. Len(failures[k]) :
        LET j == i + 2 * MaxFailedAttempts - 1
        IN  j <= Len(failures[k])
              => failures[k][j].at >= failures[k][i].at + Window

\* A login is refused only after MaxFailedAttempts failures, the last ones, and until
\* one window after the first of them: attempts made meanwhile do not prolong it.
LockoutIsEarned ==
    \A k \in Key : Locked(k) =>
        LET first == Len(failures[k]) - MaxFailedAttempts + 1
        IN  /\ first >= 1
            /\ failedAttempts[k].expiresAt = failures[k][first].at + Window
===============================================================================
