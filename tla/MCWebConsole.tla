----------------------------- MODULE MCWebConsole -----------------------------
(* The console with two forms and two resources. *)
EXTENDS WebConsole

Allow(logins, guesses, mutations, clicks, reloads, restarts, ticks) ==
    [ logins |-> logins, guesses |-> guesses, mutations |-> mutations,
      clicks |-> clicks, reloads |-> reloads, restarts |-> restarts, ticks |-> ticks ]

\* Attempts of others before and after a login; logins, logouts and reloads that
\* overlap; two forms and a refresh by the button; a form and a reload; two forms and a
\* restart.
Budgets ==
    { Allow(1, 7, 0, 0, 0, 1, 4), Allow(3, 0, 0, 0, 2, 0, 3),
      Allow(1, 0, 2, 1, 0, 0, 0), Allow(1, 0, 1, 0, 1, 0, 2),
      Allow(1, 0, 2, 0, 0, 1, 0) }
===============================================================================
