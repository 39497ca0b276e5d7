--------------------------- MODULE WebConsoleProofs ---------------------------
(* The console and its API keep the promises of OperatorAuth, and change the *)
(* protocol's state for nobody but an operator, for every set of forms,      *)
(* resources and bounds.                                                     *)
EXTENDS WebConsole, SequenceTheorems, TLAPS

-----------------------------------------------------------------------------
(* The login limiter, for every set of keys, limit, window and lifetime *)

\* What the entry r of the table says of the history f of its key, at time t: it holds
\* the open window, the last failures from `first` on, at most MaxFailedAttempts;
\* every window opened when the one before it was over.
Describes(r, f, t) ==
    /\ \A i \in 1 .. Len(f) :
          /\ f[i].at <= t
          /\ f[i].first \in 1 .. i
          /\ i - f[i].first < MaxFailedAttempts
          /\ f[i].first > 1
               => f[f[i].first].at >= f[f[f[i].first - 1].first].at + Window
    /\ \A i, j \in 1 .. Len(f) : i <= j => f[i].at <= f[j].at
    /\ r.count <= MaxFailedAttempts
    /\ Len(f) > 0 => /\ r.count = Len(f) - f[Len(f)].first + 1
                     /\ r.expiresAt = f[f[Len(f)].first].at + Window
    /\ Len(f) = 0 => r.count = 0

KeyInv(k) == Describes(failedAttempts[k], failures[k], now)

LimiterInv == AuthTypeOK /\ \A k \in Key : KeyInv(k)

\* The invariant holds at the start.
LEMMA InitLimiter == AuthInit => LimiterInv
  BY AuthAssumption DEF AuthInit, LimiterInv, AuthTypeOK, KeyInv, Describes, NoRecord

\* The record that a failure appends, and what the history becomes.
Failure(k) ==
    [ at |-> now, first |-> IF Forgotten(k) THEN Len(failures[k]) + 1
                            ELSE failures[k][Len(failures[k])].first ]

LEMMA FailureAppends ==
    ASSUME LimiterInv, NEW k \in Key, InvalidLogin(k)
    PROVE  LET f == failures[k]
               g == failures'[k]
               n == Len(f)
           IN  /\ Failure(k) \in [at : Nat, first : Nat]
               /\ failures' = [failures EXCEPT ![k] = Append(f, Failure(k))]
               /\ n \in Nat /\ Len(g) = n + 1 /\ g[n + 1] = Failure(k)
               /\ \A i \in 1 .. n : g[i] = f[i] /\ f[i] \in [at : Nat, first : Nat]
               /\ ~Forgotten(k) => n > 0 /\ failedAttempts[k].count < MaxFailedAttempts
  <1> DEFINE S == [at : Nat, first : Nat]
             f == failures[k]
             n == Len(f)
  <1>1. f \in Seq(S) /\ now \in Nat /\ failures \in [Key -> Seq(S)] /\ KeyInv(k)
        /\ failedAttempts[k] \in [count : Nat, expiresAt : Nat]
        /\ MaxFailedAttempts \in Nat
    BY AuthAssumption DEF LimiterInv, AuthTypeOK
  <1>2. n \in Nat /\ \A i \in 1 .. n : f[i] \in S
    BY <1>1, ElementOfSeq, LenProperties
  <1>3. ~Forgotten(k) => n > 0 /\ failedAttempts[k].count < MaxFailedAttempts
    <2>1. n = 0 => failedAttempts[k].count = 0
      BY <1>1 DEF KeyInv, Describes
    <2>2. ~Forgotten(k) => failedAttempts[k].count # 0
      BY DEF Forgotten
    <2>3. ~Forgotten(k) => ~(failedAttempts[k].count >= MaxFailedAttempts)
      BY DEF InvalidLogin, Locked
    <2>4. failedAttempts[k].count \in Nat
      BY <1>1
    <2> HIDE DEF f
    <2> QED BY <1>1, <1>2, <2>1, <2>2, <2>3, <2>4
  <1>4. Failure(k) \in S
    <2>1. ~Forgotten(k) => f[n].first \in Nat
      BY <1>2, <1>3
    <2>2. n + 1 \in Nat
      BY <1>2
    <2> QED BY <1>1, <2>1, <2>2 DEF Failure
  <1>5. failures' = [failures EXCEPT ![k] = Append(f, Failure(k))]
    BY DEF InvalidLogin, Failure
  <1>6. failures'[k] = Append(f, Failure(k))
    BY <1>1, <1>5
  <1>7. /\ Len(Append(f, Failure(k))) = n + 1
        /\ \A i \in 1 .. n : Append(f, Failure(k))[i] = f[i]
        /\ Append(f, Failure(k))[n + 1] = Failure(k)
    BY <1>1, <1>4, AppendProperties
  <1> QED BY <1>2, <1>3, <1>4, <1>5, <1>6, <1>7

\* A failure keeps what is said of its key: it joins the open window, which has
\* room because the key is not locked, or opens a new one, as the old one is over.
LEMMA FailureKeepsKey ==
    ASSUME LimiterInv, NEW k \in Key, InvalidLogin(k)
    PROVE  KeyInv(k)'
  <1> DEFINE f == failures[k]
             g == failures'[k]
             n == Len(f)
             e == Failure(k)
             r == failedAttempts[k]
             Opens == Forgotten(k)
             M == MaxFailedAttempts
  <1>1. /\ now \in Nat /\ r.count \in Nat /\ r.expiresAt \in Nat
        /\ M \in Nat \ {0} /\ Window \in Nat
    BY AuthAssumption DEF LimiterInv, AuthTypeOK
  <1>2. /\ n \in Nat /\ Len(g) = n + 1 /\ g[n + 1] = e
        /\ \A i \in 1 .. n : g[i] = f[i] /\ f[i].at \in Nat /\ f[i].first \in Nat
        /\ ~Opens => n > 0 /\ r.count < M
    BY FailureAppends
  <1>3. /\ \A i \in 1 .. n :
              /\ f[i].at <= now
              /\ f[i].first \in 1 .. i
              /\ i - f[i].first < M
              /\ f[i].first > 1
                   => f[f[i].first].at >= f[f[f[i].first - 1].first].at + Window
        /\ \A i, j \in 1 .. n : i <= j => f[i].at <= f[j].at
        /\ r.count <= M
        /\ n > 0 => /\ r.count = n - f[n].first + 1
                    /\ r.expiresAt = f[f[n].first].at + Window
    BY DEF LimiterInv, KeyInv, Describes
  <1>4. now' = now /\ failedAttempts'[k] =
            IF Opens THEN [count |-> 1, expiresAt |-> now + Window]
                     ELSE [count |-> r.count + 1, expiresAt |-> r.expiresAt]
    BY DEF InvalidLogin, TrackFailure, LimiterInv, AuthTypeOK
  <1>5. e.at = now /\ e.first = IF Opens THEN n + 1 ELSE f[n].first
    BY DEF Failure
  <1>6. Opens /\ n > 0 => f[f[n].first].at + Window <= now
    <2>1. Opens => r.count = 0 \/ r.expiresAt <= now
      BY DEF Forgotten
    <2> HIDE DEF f, n, r, Opens
    <2>2. n > 0 => f[n].first \in Nat
      BY <1>2
    <2>3. n > 0 => n - f[n].first + 1 > 0 /\ r.count = n - f[n].first + 1
      <3>1. n > 0 => f[n].first \in 1 .. n
        BY <1>2, <1>3
      <3>2. n > 0 => r.count = n - f[n].first + 1
        BY <1>3
      <3>3. n \in Nat
        BY <1>2
      <3> QED BY ONLY <3>1, <3>2, <3>3
    <2>4. n > 0 => r.expiresAt = f[f[n].first].at + Window
      BY <1>3
    <2> QED BY ONLY <2>1, <2>3, <2>4
  <1> HIDE DEF f, g, n, e, r, Opens, M
  <1>7. e.first \in 1 .. n + 1 /\ n + 1 - e.first < M /\ e.first \in Nat
    <2>1. CASE Opens
      BY <2>1, <1>1, <1>2, <1>5
    <2>2. CASE ~Opens
      <3>1. n > 0 /\ f[n].first \in 1 .. n /\ f[n].first \in Nat
            /\ r.count = n - f[n].first + 1 /\ r.count < M
        BY <2>2, <1>2, <1>3
      <3> QED BY <3>1, <2>2, <1>1, <1>2, <1>5
    <2> QED BY <2>1, <2>2
  <1>8. \A i \in 1 .. n : f[i].first > 1 =>
           /\ f[i].first - 1 \in 1 .. n /\ f[i].first \in 1 .. n
           /\ f[f[i].first - 1].first \in 1 .. n
    <2> SUFFICES ASSUME NEW i \in 1 .. n, f[i].first > 1
                 PROVE  /\ f[i].first - 1 \in 1 .. n /\ f[i].first \in 1 .. n
                        /\ f[f[i].first - 1].first \in 1 .. n
      OBVIOUS
    <2>1. f[i].first \in 1 .. n /\ f[i].first - 1 \in 1 .. n
      BY <1>2, <1>3
    <2>2. f[f[i].first - 1].first \in 1 .. f[i].first - 1
      BY <1>3, <2>1
    <2> QED BY <1>2, <2>1, <2>2
  <1>9. \A i \in 1 .. n + 1 : g[i].first > 1
           => g[g[i].first].at >= g[g[g[i].first - 1].first].at + Window
    <2> SUFFICES ASSUME NEW i \in 1 .. n + 1, g[i].first > 1
                 PROVE  g[g[i].first].at >= g[g[g[i].first - 1].first].at + Window
      OBVIOUS
    <2>1. CASE i \in 1 .. n
      <3>1. f[f[i].first].at >= f[f[f[i].first - 1].first].at + Window
        BY <2>1, <1>2, <1>3
      <3>2. /\ g[i] = f[i] /\ g[f[i].first] = f[f[i].first]
            /\ g[f[i].first - 1] = f[f[i].first - 1]
            /\ g[f[f[i].first - 1].first] = f[f[f[i].first - 1].first]
        BY <2>1, <1>2, <1>8
      <3> QED BY <3>1, <3>2
    <2>2. CASE i = n + 1 /\ Opens
      <3>1. g[i] = e /\ e.first = n + 1 /\ n > 0
        BY <2>2, <1>2, <1>5
      <3>2. e.first - 1 = n /\ g[n] = f[n] /\ g[f[n].first] = f[f[n].first]
        BY <3>1, <1>2, <1>3
      <3>3. g[e.first].at = now
        BY <3>1, <2>2, <1>5
      <3> QED BY <3>1, <3>2, <3>3, <2>2, <1>6, <1>2, <1>3, <1>1
    <2>3. CASE i = n + 1 /\ ~Opens
      <3>1. g[i].first = f[n].first /\ n \in 1 .. n
        BY <2>3, <1>2, <1>5
      <3>2. f[f[n].first].at >= f[f[f[n].first - 1].first].at + Window
        BY <3>1, <1>3
      <3>3. /\ g[f[n].first] = f[f[n].first]
            /\ g[f[n].first - 1] = f[f[n].first - 1]
            /\ g[f[f[n].first - 1].first] = f[f[f[n].first - 1].first]
        BY <3>1, <1>2, <1>8
      <3> QED BY <3>1, <3>2, <3>3
    <2> QED BY <2>1, <2>2, <2>3, <1>2
  <1>10. \A i, j \in 1 .. n + 1 : i <= j => g[i].at <= g[j].at
    <2> SUFFICES ASSUME NEW i \in 1 .. n + 1, NEW j \in 1 .. n + 1, i <= j
                 PROVE  g[i].at <= g[j].at
      OBVIOUS
    <2>1. CASE j \in 1 .. n
      BY <2>1, <1>2, <1>3
    <2>2. CASE i \in 1 .. n /\ j = n + 1
      BY <2>2, <1>2, <1>3, <1>5
    <2>3. CASE i = n + 1 /\ j = n + 1
      BY <2>3, <1>1, <1>2, <1>5
    <2> QED BY <2>1, <2>2, <2>3, <1>2
  <1>11. /\ failedAttempts'[k].count = n + 1 - e.first + 1
         /\ failedAttempts'[k].count <= M
         /\ failedAttempts'[k].expiresAt = g[e.first].at + Window
    <2>1. CASE Opens
      BY <2>1, <1>1, <1>2, <1>4, <1>5
    <2>2. CASE ~Opens
      <3>1. /\ n > 0 /\ f[n].first \in 1 .. n /\ f[n].first \in Nat
            /\ r.count = n - f[n].first + 1 /\ r.count < M
            /\ r.expiresAt = f[f[n].first].at + Window
        BY <2>2, <1>2, <1>3
      <3>2. failedAttempts'[k].count = r.count + 1
            /\ failedAttempts'[k].expiresAt = r.expiresAt
        BY <2>2, <1>4
      <3>3. g[f[n].first] = f[f[n].first] /\ e.first = f[n].first
        BY <3>1, <2>2, <1>2, <1>5
      <3> QED BY <3>1, <3>2, <3>3, <1>1, <1>2, SMTT(30)
    <2> QED BY <2>1, <2>2
  <1>12. \A i \in 1 .. n + 1 :
            g[i].at <= now' /\ g[i].first \in 1 .. i /\ i - g[i].first < M
    <2> SUFFICES ASSUME NEW i \in 1 .. n + 1
                 PROVE  g[i].at <= now' /\ g[i].first \in 1 .. i /\ i - g[i].first < M
      OBVIOUS
    <2>1. CASE i \in 1 .. n
      BY <2>1, <1>2, <1>3, <1>4
    <2>2. CASE i = n + 1
      BY <2>2, <1>1, <1>2, <1>4, <1>5, <1>7
    <2> QED BY <2>1, <2>2, <1>2
  <1>13. n + 1 > 0 /\ n + 1 # 0
    BY <1>2
  <1>14. Describes(failedAttempts'[k], g, now')
    BY <1>2, <1>9, <1>10, <1>11, <1>12, <1>13 DEF Describes, M
  <1> QED BY <1>14 DEF KeyInv, g

\* A failure at one key leaves the others alone.
LEMMA FailureKeepsLimiter ==
    ASSUME LimiterInv, NEW k \in Key, InvalidLogin(k)
    PROVE  LimiterInv'
  <1>1. AuthTypeOK'
    <2>1. failedAttempts' \in [Key -> [count : Nat, expiresAt : Nat]]
      BY AuthAssumption DEF LimiterInv, AuthTypeOK, InvalidLogin, TrackFailure
    <2>2. failures' \in [Key -> Seq([at : Nat, first : Nat])]
      <3>1. failures[k] \in Seq([at : Nat, first : Nat])
        BY DEF LimiterInv, AuthTypeOK
      <3>2. Append(failures[k], Failure(k)) \in Seq([at : Nat, first : Nat])
        BY <3>1, FailureAppends, AppendProperties
      <3> QED BY <3>2, FailureAppends DEF LimiterInv, AuthTypeOK
    <2> QED BY <2>1, <2>2 DEF LimiterInv, AuthTypeOK, InvalidLogin
  <1>2. ASSUME NEW l \in Key PROVE KeyInv(l)'
    <2>1. CASE l = k
      BY <2>1, FailureKeepsKey
    <2>2. CASE l # k
      <3>1. failures'[l] = failures[l] /\ failedAttempts'[l] = failedAttempts[l]
            /\ now' = now
        BY <2>2 DEF LimiterInv, AuthTypeOK, InvalidLogin, TrackFailure
      <3> QED BY <3>1 DEF KeyInv, LimiterInv
    <2> QED BY <2>1, <2>2
  <1> QED BY <1>1, <1>2 DEF LimiterInv

\* Every step keeps the invariant.
LEMMA StepKeepsLimiter == LimiterInv /\ [AuthNext]_authVars => LimiterInv'
  <1> SUFFICES ASSUME LimiterInv, [AuthNext]_authVars PROVE LimiterInv'
    OBVIOUS
  <1>1. CASE Tick
    <2>1. AuthTypeOK' /\ now' = now + 1 /\ now \in Nat
      BY <1>1 DEF LimiterInv, AuthTypeOK, Tick
    <2>2. ASSUME NEW k \in Key PROVE KeyInv(k)'
      <3>1. failures'[k] = failures[k] /\ failedAttempts'[k] = failedAttempts[k]
        BY <1>1 DEF Tick
      <3>2. \A i \in 1 .. Len(failures[k]) : failures[k][i].at \in Nat
        <4>1. failures[k] \in Seq([at : Nat, first : Nat])
          BY DEF LimiterInv, AuthTypeOK
        <4>2. \A i \in 1 .. Len(failures[k]) :
                 failures[k][i] \in [at : Nat, first : Nat]
          BY <4>1, ElementOfSeq
        <4> QED BY <4>2
      <3>3. Describes(failedAttempts[k], failures[k], now)
        BY DEF LimiterInv, KeyInv
      <3>4. Describes(failedAttempts[k], failures[k], now + 1)
        <4>1. ASSUME NEW i \in 1 .. Len(failures[k])
              PROVE  failures[k][i].at <= now + 1
          <5>1. failures[k][i].at <= now
            BY <3>3 DEF Describes
          <5>2. failures[k][i].at \in Nat
            BY <3>2
          <5> QED BY ONLY <2>1, <5>1, <5>2
        <4> QED BY <3>3, <4>1 DEF Describes
      <3> QED BY <2>1, <3>1, <3>4 DEF KeyInv
    <2> QED BY <2>1, <2>2 DEF LimiterInv
  <1>2. CASE RestartAuth
    BY <1>2, AuthAssumption DEF LimiterInv, AuthTypeOK, KeyInv, Describes, RestartAuth, NoRecord
  <1>3. ASSUME NEW k \in Key, InvalidLogin(k) PROVE LimiterInv'
    BY <1>3, FailureKeepsLimiter
  <1>4. ASSUME NEW k \in Key, ValidLogin(k) PROVE LimiterInv'
    <2>1. AuthTypeOK'
      BY <1>4, AuthAssumption
      DEF LimiterInv, AuthTypeOK, ValidLogin, NoRecord, Token
    <2>2. ASSUME NEW l \in Key PROVE KeyInv(l)'
      <3>1. CASE l = k
        <4>1. failures'[l] = <<>> /\ failedAttempts'[l] = NoRecord
          BY <3>1, <1>4 DEF ValidLogin, LimiterInv, AuthTypeOK
        <4> QED BY <4>1, AuthAssumption DEF KeyInv, Describes, NoRecord
      <3>2. CASE l # k
        <4>1. failures'[l] = failures[l] /\ failedAttempts'[l] = failedAttempts[l]
              /\ now' = now
          BY <3>2, <1>4 DEF ValidLogin, LimiterInv, AuthTypeOK
        <4> QED BY <4>1 DEF KeyInv, LimiterInv
      <3> QED BY <3>1, <3>2
    <2> QED BY <2>1, <2>2 DEF LimiterInv
  <1>5. CASE UNCHANGED authVars
    BY <1>5 DEF LimiterInv, AuthTypeOK, KeyInv, authVars
  <1> QED BY <1>1, <1>2, <1>3, <1>4, <1>5 DEF AuthNext

LEMMA Limiter == AuthSpec => []LimiterInv
  BY InitLimiter, StepKeepsLimiter, PTL DEF AuthSpec

\* What the invariant says of the failures that are 2 * MaxFailedAttempts apart: a
\* window opened between them, and the one before it opened no earlier than the
\* first of them.
LEMMA LimiterLimits == LimiterInv => GuessesAreLimited
  <1> SUFFICES ASSUME LimiterInv, NEW k \in Key, NEW i \in 1 .. Len(failures[k]),
                      i + 2 * MaxFailedAttempts - 1 <= Len(failures[k])
               PROVE  failures[k][i + 2 * MaxFailedAttempts - 1].at
                        >= failures[k][i].at + Window
    BY DEF GuessesAreLimited
  <1> DEFINE f == failures[k]
             n == Len(f)
             M == MaxFailedAttempts
             j == i + 2 * M - 1
             s == f[j].first
             m == f[s - 1].first
  <1>1. /\ n \in Nat /\ M \in Nat \ {0} /\ Window \in Nat /\ i \in 1 .. n
        /\ j \in 1 .. n /\ j = i + 2 * M - 1
        /\ \A x \in 1 .. n : f[x].at \in Nat /\ f[x].first \in Nat
    <2>1. f \in Seq([at : Nat, first : Nat])
      BY DEF LimiterInv, AuthTypeOK
    <2>2. n \in Nat /\ \A x \in 1 .. n : f[x] \in [at : Nat, first : Nat]
      BY <2>1, ElementOfSeq, LenProperties
    <2> QED BY <2>2, AuthAssumption
  <1>2. /\ \A x \in 1 .. n :
              /\ f[x].first \in 1 .. x /\ x - f[x].first < M
              /\ f[x].first > 1
                   => f[f[x].first].at >= f[f[f[x].first - 1].first].at + Window
        /\ \A x, y \in 1 .. n : x <= y => f[x].at <= f[y].at
    BY DEF LimiterInv, KeyInv, Describes
  <1> HIDE DEF f, n, M, j
  <1>3. s \in 1 .. j /\ j - s < M /\ s \in Nat
    BY <1>1, <1>2
  <1> HIDE DEF s
  <1>4. s >= i + M /\ s - 1 \in 1 .. n /\ s \in 1 .. n /\ s > 1
    BY <1>1, <1>3
  <1>5. m \in 1 .. s - 1 /\ s - 1 - m < M /\ m \in Nat
    BY <1>1, <1>2, <1>4
  <1>6. f[s].at >= f[m].at + Window
    BY <1>1, <1>2, <1>4 DEF s
  <1> HIDE DEF m
  <1>7. m >= i /\ m \in 1 .. n
    BY <1>1, <1>3, <1>4, <1>5
  <1>8. f[i].at <= f[m].at /\ f[s].at <= f[j].at
    <2>1. i <= m /\ s <= j
      BY <1>1, <1>3, <1>7
    <2> QED BY <1>1, <1>2, <1>4, <1>7, <2>1
  <1>9. f[i].at \in Nat /\ f[m].at \in Nat /\ f[s].at \in Nat /\ f[j].at \in Nat
    BY <1>1, <1>4, <1>7
  <1>10. f[j].at >= f[i].at + Window
    <2>1. Window \in Nat
      BY <1>1
    <2> QED BY ONLY <1>6, <1>8, <1>9, <2>1, SMTT(30)
  <1> QED BY <1>10 DEF f, j, M

\* A locked key has a full window.
LEMMA LimiterEarns == LimiterInv => LockoutIsEarned
  <1> SUFFICES ASSUME LimiterInv, NEW k \in Key, Locked(k)
               PROVE  LET first == Len(failures[k]) - MaxFailedAttempts + 1
                      IN  /\ first >= 1
                          /\ failedAttempts[k].expiresAt = failures[k][first].at + Window
    BY DEF LockoutIsEarned
  <1> DEFINE f == failures[k]
             n == Len(f)
             r == failedAttempts[k]
             M == MaxFailedAttempts
  <1>1. n \in Nat /\ M \in Nat \ {0} /\ r.count \in Nat
    BY AuthAssumption, LenProperties DEF LimiterInv, AuthTypeOK
  <1>2. /\ \A x \in 1 .. n : f[x].first \in 1 .. x
        /\ r.count <= M /\ r.count >= M
        /\ n > 0 => /\ r.count = n - f[n].first + 1
                    /\ r.expiresAt = f[f[n].first].at + Window
        /\ n = 0 => r.count = 0
    BY DEF LimiterInv, KeyInv, Describes, Locked
  <1> HIDE DEF f, n, r, M
  <1>3. n > 0 /\ r.count = M
    BY <1>1, <1>2
  <1>4. f[n].first \in 1 .. n /\ f[n].first = n - M + 1
    BY <1>1, <1>2, <1>3
  <1>5. n - M + 1 >= 1 /\ r.expiresAt = f[n - M + 1].at + Window
    BY <1>1, <1>2, <1>3, <1>4
  <1> QED BY <1>5 DEF f, n, r, M

\* For every limit and window, 2 * MaxFailedAttempts failures without a success take a
\* whole window (trackFailure, assertRateLimit).
THEOREM GuessesLimited == AuthSpec => []GuessesAreLimited
  BY Limiter, LimiterLimits, PTL

\* A refusal (429) was earned by that many failures and ends a window after the first
\* of them.
THEOREM LockoutEarned == AuthSpec => []LockoutIsEarned
  BY Limiter, LimiterEarns, PTL

-----------------------------------------------------------------------------
(* The console *)

\* A step of the console is a step of the limiter and its tokens, or none.
LEMMA StepOfAuth == [Next]_vars => [AuthNext]_authVars
  <1> SUFFICES ASSUME [Next]_vars PROVE [AuthNext]_authVars
    OBVIOUS
  <1>1. CASE HandleLogin
    BY <1>1, ConsoleAssumption DEF HandleLogin, AuthNext
  <1>2. CASE Guess \/ Restart \/ Time
    BY <1>2 DEF Guess, Restart, Time, AuthNext
  <1>3. CASE ReceiveLogin \/ RestoreStep
    BY <1>3 DEF ReceiveLogin, RestoreStep, HandleRestore, ReceiveRestore
  <1>4. CASE Reload \/ SubmitLogin \/ LoseLogin \/ Logout \/ LoseRestore \/ Click
    BY <1>4 DEF Reload, SubmitLogin, LoseLogin, Logout, LoseRestore, Click
  <1>5. ASSUME NEW f \in Form, FormStep(f) \/ SubmitForm(f) \/ LoseForm(f)
        PROVE  UNCHANGED authVars
    BY <1>5 DEF FormStep, ApplyForm, RefuseForm, ReceiveForm, SubmitForm, LoseForm
  <1>6. ASSUME NEW r \in Refresher, RefreshStep(r) \/ FailRefresh(r)
        PROVE  UNCHANGED authVars
    BY <1>6 DEF RefreshStep, ShowRefresh, Read, FailRefresh
  <1>7. CASE UNCHANGED vars
    BY <1>7 DEF vars
  <1> QED BY <1>1, <1>2, <1>3, <1>4, <1>5, <1>6, <1>7 DEF Next, LoginStep

\* What the API does for the console is what createOperatorAuth promises.
THEOREM ConsoleImplementsAuth == Spec => AuthSpec
  <1>1. Init => AuthInit
    BY DEF Init
  <1> QED BY <1>1, StepOfAuth, PTL DEF Spec, AuthSpec

\* So the limiter's bounds hold in the console, however its handlers overlap.
THEOREM ConsoleGuessesLimited == Spec => []GuessesAreLimited
  BY ConsoleImplementsAuth, GuessesLimited, PTL

-----------------------------------------------------------------------------
(* The budget *)

Kinds == {"logins", "guesses", "mutations", "clicks", "reloads", "restarts", "ticks"}

LeftInv == left \in [Kinds -> Nat]

LEMMA InitLeft == Init => LeftInv
  BY ConsoleAssumption DEF Init, LeftInv, Kinds

LEMMA StepLeft == LeftInv /\ [Next]_vars => LeftInv'
  <1> SUFFICES ASSUME LeftInv, [Next]_vars PROVE LeftInv'
    OBVIOUS
  <1>1. ASSUME NEW kind \in Kinds, Has(kind), Spend(kind) PROVE LeftInv'
    BY <1>1 DEF LeftInv, Has, Spend
  <1>2. CASE UNCHANGED left
    BY <1>2 DEF LeftInv
  <1>3. CASE LoginStep \/ RestoreStep \/ LoseLogin \/ Logout \/ LoseRestore \/ UNCHANGED vars
    BY <1>2, <1>3 DEF LoginStep, HandleLogin, ReceiveLogin, RestoreStep, HandleRestore,
       ReceiveRestore, LoseLogin, Logout, LoseRestore, vars
  <1>4. CASE Reload \/ SubmitLogin \/ Click \/ Guess \/ Restart \/ Time
    <2>1. \E kind \in Kinds : Has(kind) /\ Spend(kind)
      BY <1>4 DEF Reload, SubmitLogin, Click, Guess, Restart, Time, Kinds
    <2> QED BY <1>1, <2>1
  <1>5. ASSUME NEW f \in Form, FormStep(f) \/ SubmitForm(f) \/ LoseForm(f) PROVE LeftInv'
    <2>1. UNCHANGED left \/ (Has("mutations") /\ Spend("mutations"))
      BY <1>5 DEF FormStep, ApplyForm, RefuseForm, ReceiveForm, SubmitForm, LoseForm
    <2>2. "mutations" \in Kinds
      BY DEF Kinds
    <2> QED BY <1>1, <1>2, <2>1, <2>2
  <1>6. ASSUME NEW r \in Refresher, RefreshStep(r) \/ FailRefresh(r) PROVE LeftInv'
    BY <1>2, <1>6 DEF RefreshStep, ShowRefresh, Read, FailRefresh
  <1> QED BY <1>3, <1>4, <1>5, <1>6 DEF Next

-----------------------------------------------------------------------------
(* Authorization *)

\* A token expires TokenTtl after it was issued; every form has a handler.
AuthorizedInv ==
    /\ \A t \in issued : t.exp = t.iat + TokenTtl
    /\ form = [f \in Form |-> form[f]]
    /\ version \in Nat

LEMMA InitAuthorized == Init => AuthorizedInv
  BY DEF Init, AuthInit, AuthorizedInv

\* Only a successful login issues a token.
LEMMA IssuedKeepTtl ==
    ASSUME AuthorizedInv, [AuthNext]_authVars
    PROVE  \A t \in issued' : t.exp = t.iat + TokenTtl
  <1>1. CASE UNCHANGED issued
    BY <1>1 DEF AuthorizedInv
  <1>2. ASSUME NEW k \in Key, ValidLogin(k)
        PROVE  \A t \in issued' : t.exp = t.iat + TokenTtl
    BY <1>2 DEF ValidLogin, Token, AuthorizedInv
  <1> QED BY <1>1, <1>2 DEF AuthNext, Tick, RestartAuth, InvalidLogin, authVars

LEMMA StepAuthorized == AuthorizedInv /\ [Next]_vars => AuthorizedInv'
  <1> SUFFICES ASSUME AuthorizedInv, [Next]_vars PROVE AuthorizedInv'
    OBVIOUS
  <1>1. \A t \in issued' : t.exp = t.iat + TokenTtl
    BY IssuedKeepTtl, StepOfAuth
  <1>2. form' = [f \in Form |-> form'[f]] /\ version' \in Nat
    <2> USE DEF AuthorizedInv
    <2>1. CASE LoginStep \/ RestoreStep \/ SubmitLogin \/ LoseLogin \/ Logout
               \/ LoseRestore \/ Click \/ Guess \/ Time \/ UNCHANGED vars
      BY <2>1 DEF LoginStep, HandleLogin, ReceiveLogin, RestoreStep, HandleRestore,
         ReceiveRestore, SubmitLogin, LoseLogin, Logout, LoseRestore, Click, Guess,
         Time, page, vars
    <2>2. CASE Reload
      BY <2>2 DEF Reload
    <2>3. ASSUME NEW f \in Form, FormStep(f) \/ SubmitForm(f) \/ LoseForm(f)
          PROVE  form' = [g \in Form |-> form'[g]] /\ version' \in Nat
      BY <2>3 DEF FormStep, ApplyForm, RefuseForm, ReceiveForm, SubmitForm, LoseForm,
         Answer
    <2>4. ASSUME NEW r \in Refresher, RefreshStep(r) \/ FailRefresh(r)
          PROVE  form' = [g \in Form |-> form'[g]] /\ version' \in Nat
      BY <2>4 DEF RefreshStep, ShowRefresh, Read, FailRefresh, Return
    <2>5. CASE Restart
      BY <2>5 DEF Restart, page
    <2> QED BY <2>1, <2>2, <2>3, <2>4, <2>5 DEF Next
  <1> QED BY <1>1, <1>2 DEF AuthorizedInv

\* A change of the protocol's state is the API's answer to a form, whose token it
\* has just found good.
LEMMA ChangeIsAuthorized ==
    AuthorizedInv /\ LeftInv /\ [Next]_vars =>
        (version' > version /\ left'["restarts"] = left["restarts"]
           => \E f \in Form : /\ form'[f] # form[f]
                              /\ form[f].token \in issued
                              /\ now < form[f].token.iat + TokenTtl)
  <1> SUFFICES ASSUME AuthorizedInv, LeftInv, [Next]_vars, version' > version,
                      left'["restarts"] = left["restarts"]
               PROVE  \E f \in Form : /\ form'[f] # form[f]
                                      /\ form[f].token \in issued
                                      /\ now < form[f].token.iat + TokenTtl
    OBVIOUS
  <1>0. ~Restart
    <2>1. left \in [Kinds -> Nat] /\ "restarts" \in Kinds
      BY DEF LeftInv, Kinds
    <2>2. left["restarts"] \in Nat /\ left'["restarts"] = left["restarts"]
      BY <2>1
    <2>3. ~(Has("restarts") /\ Spend("restarts"))
      BY <2>1, <2>2 DEF Has, Spend
    <2> QED BY <2>3 DEF Restart
  <1>1. version' # version
    BY DEF AuthorizedInv
  <1>2. PICK f \in Form : ApplyForm(f) \/ RefuseForm(f)
    BY <1>0, <1>1 DEF Next, LoginStep, HandleLogin, ReceiveLogin, RestoreStep, HandleRestore,
       ReceiveRestore, SubmitLogin, LoseLogin, Logout, LoseRestore, Click, Guess, Time, page, vars, Reload, FormStep, ReceiveForm, SubmitForm, LoseForm,
       RefreshStep, ShowRefresh, Read, FailRefresh
  <1>3. form[f].stage \in {"sent", "gone"} /\ Authenticate(form[f].token)
    BY <1>1, <1>2 DEF ApplyForm, RefuseForm
  <1>4. form'[f].stage \in {"idle", "done"}
    BY <1>2 DEF ApplyForm, RefuseForm, Answer, Idle, Done, AuthorizedInv
  <1>5. form[f].token \in issued /\ now < form[f].token.iat + TokenTtl
    BY <1>3 DEF Authenticate, AuthorizedInv
  <1> QED BY <1>3, <1>4, <1>5

\* What changes the protocol's state, other than a restart, was asked for with a token
\* of a successful login that is still good when the API gets to the request.
THEOREM MutationsAuthorized == Spec => MutationsAreAuthorized
  <1>1. AuthorizedInv /\ LeftInv /\ [Next]_vars
          => [version' > version /\ left'["restarts"] = left["restarts"]
                => \E f \in Form : /\ form'[f] # form[f]
                                   /\ form[f].token \in issued
                                   /\ now < form[f].token.iat + TokenTtl]_vars
    BY ChangeIsAuthorized
  <1> QED BY <1>1, InitAuthorized, StepAuthorized, InitLeft, StepLeft, PTL
          DEF Spec, MutationsAreAuthorized

-----------------------------------------------------------------------------
(* The session *)

\* While the session is restored and nothing has raced with it, the token whose
\* session was asked for is still the console's.
SessionInv ==
    /\ token = stored
    /\ ~raced => IF restore = Idle THEN session = token ELSE restore.token = token

LEMMA InitSession == Init => SessionInv
  BY DEF Init, SessionInv

LEMMA StepSession == SessionInv /\ [Next]_vars => SessionInv'
  <1> SUFFICES ASSUME SessionInv, [Next]_vars PROVE SessionInv'
    OBVIOUS
  <1> USE DEF SessionInv
  <1>1. CASE Reload
    BY <1>1 DEF Reload, Idle, Sent
  <1>2. CASE ReceiveLogin
    <2>1. restore' = restore /\ (~raced' => ~raced /\ restore = Idle)
      BY <1>2 DEF ReceiveLogin
    <2>2. token' = stored' /\ (session = token => session' = token')
      BY <1>2 DEF ReceiveLogin, authState
    <2> QED BY <2>1, <2>2
  <1>3. CASE Logout
    BY <1>3 DEF Logout, SignOut
  <1>4. CASE HandleRestore
    <2>1. PICK ok : restore' = [stage |-> "done", token |-> restore.token, result |-> ok]
      BY <1>4 DEF HandleRestore, Done
    <2>2. restore.stage = "sent" /\ UNCHANGED <<authState, raced>>
      BY <1>4 DEF HandleRestore
    <2> QED BY <2>1, <2>2 DEF Idle, authState
  <1>5. CASE ReceiveRestore
    <2>1. restore # Idle /\ restore' = Idle /\ raced' = raced
      BY <1>5 DEF ReceiveRestore, Idle
    <2>2. CASE restore.result
      BY <1>5, <2>1, <2>2 DEF ReceiveRestore, EndRestore
    <2>3. CASE ~restore.result
      BY <1>5, <2>1, <2>3 DEF ReceiveRestore, EndRestore, SignOut
    <2> QED BY <2>2, <2>3
  <1>6. CASE LoseRestore
    BY <1>6 DEF LoseRestore, EndRestore, SignOut
  <1>7. CASE UNCHANGED <<authState, restore, raced>>
    BY <1>7 DEF authState
  <1>8. CASE SubmitLogin \/ HandleLogin \/ LoseLogin \/ Click \/ Guess \/ Restart \/ Time
             \/ UNCHANGED vars
    BY <1>8, <1>7 DEF SubmitLogin, HandleLogin, LoseLogin, Click, Guess, Restart, Time,
       page, vars
  <1>9. ASSUME NEW f \in Form, FormStep(f) \/ SubmitForm(f) \/ LoseForm(f)
        PROVE  UNCHANGED <<authState, restore, raced>>
    BY <1>9 DEF FormStep, ApplyForm, RefuseForm, ReceiveForm, SubmitForm, LoseForm
  <1>10. ASSUME NEW r \in Refresher, RefreshStep(r) \/ FailRefresh(r)
         PROVE  UNCHANGED <<authState, restore, raced>>
    BY <1>10 DEF RefreshStep, ShowRefresh, Read, FailRefresh
  <1> QED BY <1>1, <1>2, <1>3, <1>4, <1>5, <1>6, <1>7, <1>8, <1>9, <1>10
          DEF Next, LoginStep, RestoreStep

\* Unless a login or a logout comes while the session is restored, the session on
\* display is that of the token the console sends and a reload finds.
THEOREM SessionFollowsToken == Spec => []SessionIsOfToken
  <1>1. SessionInv => SessionIsOfToken
    BY DEF SessionInv, SessionIsOfToken
  <1> QED BY <1>1, InitSession, StepSession, PTL DEF Spec

-----------------------------------------------------------------------------
(* Types, and what a refresh shows *)

\* An answer that is on its way already has its type, or what it is assigned to
\* would lose it.
SessionTypes ==
    /\ {token, session, stored} \subseteq Tokens
    /\ login.stage \in {"idle", "sent", "done"}
    /\ login.stage = "done" => login.result \in Tokens
    /\ restore.stage \in {"idle", "sent", "done"}
    /\ restore.stage = "done" => (restore.result => restore.token \in issued)

Versions == 0 .. version \cup {None}

\* A form that awaits its refresh knows its own change, and whatever the refresh has
\* got was read after it.
FormInv(f) ==
    /\ form[f] = [x \in DOMAIN form[f] |-> form[f][x]]
    /\ "stage" \in DOMAIN form[f]
    /\ form[f].stage \in {"idle", "sent", "gone", "done", "refreshing"}
    /\ form[f].stage = "refreshing" <=> Refreshing(f)
    /\ form[f].stage = "done" => form[f].result \in Versions
    /\ form[f].stage = "refreshing" =>
          /\ form[f].result \in 0 .. version
          /\ \A x \in Resource : fetched[f][x] # None => fetched[f][x] >= form[f].result

ReadsInv ==
    /\ version \in Nat
    /\ shown \in [Resource -> Versions]
    /\ DOMAIN fetched \subseteq Refresher
    /\ \A r \in DOMAIN fetched : fetched[r] \in [Resource -> Versions]

ConsoleInv ==
    /\ AuthorizedInv /\ SessionTypes
    /\ \A f \in Form : FormInv(f)
    /\ ReadsInv /\ LeftInv

LEMMA InitConsole == Init => ConsoleInv
  <1> SUFFICES ASSUME Init PROVE ConsoleInv
    OBVIOUS
  <1>1. SessionTypes
    BY DEF Init, AuthInit, SessionTypes, Tokens, Idle
  <1>2. \A f \in Form : FormInv(f)
    BY ConsoleAssumption DEF Init, FormInv, Idle, Refreshing
  <1>3. ReadsInv
    BY DEF Init, ReadsInv, Nothing, Versions, Refresher
  <1>4. LeftInv
    BY InitLeft
  <1> QED BY <1>1, <1>2, <1>3, <1>4, InitAuthorized DEF ConsoleInv

\* Tokens are never taken back.
LEMMA IssuedGrow ==
    ASSUME [Next]_vars
    PROVE  issued \subseteq issued'
  BY StepOfAuth DEF AuthNext, Tick, RestartAuth, InvalidLogin, ValidLogin, authVars

LEMMA StepSessionTypes == SessionTypes /\ [Next]_vars => SessionTypes'
  <1> SUFFICES ASSUME SessionTypes, [Next]_vars PROVE SessionTypes'
    OBVIOUS
  <1>0. issued \subseteq issued'
    BY IssuedGrow
  <1> USE DEF SessionTypes, Tokens
  <1>1. CASE Reload
    BY <1>0, <1>1 DEF Reload, Idle, Sent
  <1>2. CASE SubmitLogin \/ LoseLogin
    BY <1>0, <1>2 DEF SubmitLogin, LoseLogin, authState, Idle, Sent
  <1>3. CASE HandleLogin
    <2>1. login' \in {Done(login.token, None), Done(login.token, Token)}
      BY <1>3 DEF HandleLogin
    <2>2. login' = Done(login.token, Token) => Token \in issued' \/ login'.result = None
      BY <1>3 DEF HandleLogin, ValidLogin, Done
    <2> QED BY <1>0, <1>3, <2>1, <2>2 DEF HandleLogin, authState, Done
  <1>4. CASE ReceiveLogin
    BY <1>0, <1>4 DEF ReceiveLogin, authState, Idle
  <1>5. CASE Logout
    BY <1>0, <1>5 DEF Logout, SignOut
  <1>6. CASE HandleRestore
    <2>1. Authenticate(restore.token) => restore.token \in issued
      BY DEF Authenticate
    <2> QED BY <1>0, <1>6, <2>1 DEF HandleRestore, authState, Done
  <1>7. CASE ReceiveRestore
    <2>1. restore.result => restore.token \in issued
      BY <1>7 DEF ReceiveRestore
    <2> QED BY <1>0, <1>7, <2>1 DEF ReceiveRestore, EndRestore, SignOut, Idle
  <1>8. CASE LoseRestore
    BY <1>0, <1>8 DEF LoseRestore, EndRestore, SignOut, Idle
  <1>9. CASE UNCHANGED <<authState, login, restore>>
    BY <1>0, <1>9 DEF authState
  <1>10. CASE Click \/ Guess \/ Restart \/ Time \/ UNCHANGED vars
    BY <1>9, <1>10 DEF Click, Guess, Restart, Time, page, vars
  <1>11. ASSUME NEW f \in Form, FormStep(f) \/ SubmitForm(f) \/ LoseForm(f)
         PROVE  UNCHANGED <<authState, login, restore>>
    BY <1>11 DEF FormStep, ApplyForm, RefuseForm, ReceiveForm, SubmitForm, LoseForm
  <1>12. ASSUME NEW r \in Refresher, RefreshStep(r) \/ FailRefresh(r)
         PROVE  UNCHANGED <<authState, login, restore>>
    BY <1>12 DEF RefreshStep, ShowRefresh, Read, FailRefresh
  <1> QED BY <1>1, <1>2, <1>3, <1>4, <1>5, <1>6, <1>7, <1>8, <1>9, <1>10, <1>11, <1>12
          DEF Next, LoginStep, RestoreStep

\* A form that a step leaves alone keeps its part, if its own refresh is left alone too.
LEMMA FormKept ==
    ASSUME NEW f \in Form, FormInv(f), ReadsInv, form'[f] = form[f],
           version' \in Nat, version' >= version,
           f \in DOMAIN fetched <=> f \in DOMAIN fetched',
           f \in DOMAIN fetched => fetched'[f] = fetched[f]
    PROVE  FormInv(f)'
  BY DEF FormInv, ReadsInv, Refreshing, Versions

LEMMA StepForms == ConsoleInv /\ [Next]_vars => \A f \in Form : FormInv(f)'
  <1> SUFFICES ASSUME ConsoleInv, [Next]_vars, NEW f \in Form PROVE FormInv(f)'
    OBVIOUS
  <1>0. FormInv(f) /\ ReadsInv /\ f # Page /\ version \in Nat
    BY ConsoleAssumption DEF ConsoleInv, ReadsInv
  <1>1. CASE Reload
    <2>1. /\ form'[f] = IF form[f].stage \in {"sent", "gone"}
                        THEN [form[f] EXCEPT !.stage = "gone"] ELSE Idle
          /\ f \notin DOMAIN fetched'
      BY <1>0, <1>1 DEF Reload
    <2> QED BY <1>0, <2>1 DEF FormInv, Refreshing, Idle
  <1>2. CASE UNCHANGED <<form, fetched, version>>
    BY <1>0, <1>2, FormKept
  <1>3. CASE LoginStep \/ RestoreStep \/ SubmitLogin \/ LoseLogin \/ Logout
             \/ LoseRestore \/ Guess \/ Time \/ UNCHANGED vars
    BY <1>2, <1>3 DEF LoginStep, HandleLogin, ReceiveLogin, RestoreStep, HandleRestore,
       ReceiveRestore, SubmitLogin, LoseLogin, Logout, LoseRestore, Guess, Time, page, vars
  <1>4. ASSUME NEW g \in Form, SubmitForm(g) \/ LoseForm(g) PROVE FormInv(f)'
    <2>1. /\ UNCHANGED <<fetched, version>>
          /\ g # f => form'[f] = form[f]
      BY <1>4 DEF SubmitForm, LoseForm, ConsoleInv, AuthorizedInv
    <2>2. CASE g # f
      BY <1>0, <2>1, <2>2, FormKept
    <2>3. CASE g = f
      <3>1. form'[f] \in {Sent(token), Idle} /\ ~Refreshing(f)
        BY <1>0, <1>4, <2>3 DEF SubmitForm, LoseForm, ConsoleInv, AuthorizedInv, FormInv
      <3> QED BY <2>1, <3>1 DEF FormInv, Refreshing, Sent, Idle
    <2> QED BY <2>2, <2>3
  <1>5. ASSUME NEW g \in Form, ApplyForm(g) \/ RefuseForm(g) PROVE FormInv(f)'
    <2>1. /\ fetched' = fetched /\ version' \in Nat /\ version' >= version
          /\ g # f => form'[f] = form[f]
      BY <1>0, <1>5 DEF ApplyForm, RefuseForm, Answer, ConsoleInv, AuthorizedInv
    <2>2. CASE g # f
      BY <1>0, <2>1, <2>2, FormKept
    <2>3. CASE g = f
      <3>1. PICK result \in {version', None} : Answer(f, result)
        BY <1>5, <2>3 DEF ApplyForm, RefuseForm
      <3>2. form'[f] \in {Idle, Done(form[f].token, result)}
        BY <3>1 DEF Answer, ConsoleInv, AuthorizedInv
      <3>3. ~Refreshing(f)
        BY <1>0, <1>5, <2>3 DEF ApplyForm, RefuseForm, FormInv
      <3>4. result \in Versions'
        BY <2>1 DEF Versions
      <3> QED BY <2>1, <3>2, <3>3, <3>4 DEF FormInv, Refreshing, Done, Idle
    <2> QED BY <2>2, <2>3
  <1>6. ASSUME NEW g \in Form, ReceiveForm(g) PROVE FormInv(f)'
    <2>1. /\ version' = version
          /\ g # f => form'[f] = form[f]
          /\ g # f => (f \in DOMAIN fetched <=> f \in DOMAIN fetched')
          /\ g # f /\ f \in DOMAIN fetched => fetched'[f] = fetched[f]
      BY <1>6 DEF ReceiveForm, StartRefresh, ConsoleInv, AuthorizedInv
    <2>2. CASE g # f
      BY <1>0, <2>1, <2>2, FormKept
    <2>3. CASE g = f /\ form[f].result = None
      <3>1. form'[f] = Idle /\ fetched' = fetched /\ ~Refreshing(f)
        BY <1>0, <1>6, <2>3 DEF ReceiveForm, ConsoleInv, AuthorizedInv, FormInv
      <3> QED BY <2>1, <3>1 DEF FormInv, Refreshing, Idle
    <2>4. CASE g = f /\ form[f].result # None
      <3>1. form'[f] = [form[f] EXCEPT !.stage = "refreshing"]
        BY <1>6, <2>4 DEF ReceiveForm, ConsoleInv, AuthorizedInv
      <3>2. f \in DOMAIN fetched' /\ fetched'[f] = Nothing
        BY <1>6, <2>4 DEF ReceiveForm, StartRefresh
      <3>3. form[f].result \in 0 .. version
        BY <1>0, <1>6, <2>4 DEF ReceiveForm, FormInv, Versions
      <3> QED BY <1>0, <2>1, <3>1, <3>2, <3>3 DEF FormInv, Refreshing, Nothing
    <2> QED BY <2>2, <2>3, <2>4
  <1>7. CASE Click
    <2>1. UNCHANGED <<form, version>>
      BY <1>7 DEF Click
    <2>2. /\ f \in DOMAIN fetched <=> f \in DOMAIN fetched'
          /\ f \in DOMAIN fetched => fetched'[f] = fetched[f]
      BY <1>0, <1>7 DEF Click, StartRefresh
    <2> QED BY <1>0, <2>1, <2>2, FormKept
  <1>8. ASSUME NEW r \in Refresher, NEW x \in Resource, Read(r, x) PROVE FormInv(f)'
    <2>1. /\ UNCHANGED <<form, version>> /\ DOMAIN fetched' = DOMAIN fetched
          /\ r # f => fetched'[f] = fetched[f]
      BY <1>8 DEF Read
    <2>2. CASE r # f
      BY <1>0, <2>1, <2>2, FormKept
    <2>3. CASE r = f
      <3>1. /\ Refreshing(f) /\ fetched[f] \in [Resource -> Versions]
            /\ fetched'[f] = [fetched[f] EXCEPT ![x] = version]
        BY <1>0, <1>8, <2>3 DEF Read, ReadsInv, Refreshing
      <3>2. form[f].result \in 0 .. version
        BY <1>0, <3>1 DEF FormInv
      <3>3. \A y \in Resource : fetched'[f][y] = version \/ fetched'[f][y] = fetched[f][y]
        BY <3>1
      <3>4. \A y \in Resource : fetched'[f][y] # None => fetched'[f][y] >= form[f].result
        BY <1>0, <3>1, <3>2, <3>3 DEF FormInv
      <3> QED BY <1>0, <2>1, <3>4 DEF FormInv, Refreshing, Versions
    <2> QED BY <2>2, <2>3
  <1>9. ASSUME NEW r \in Refresher, ShowRefresh(r) \/ FailRefresh(r) PROVE FormInv(f)'
    <2>1. /\ version' = version
          /\ f \in DOMAIN fetched' <=> (f \in DOMAIN fetched /\ f # r)
          /\ f \in DOMAIN fetched' => fetched'[f] = fetched[f]
          /\ form'[f] = IF f = r THEN Idle ELSE form[f]
      BY <1>9 DEF ShowRefresh, FailRefresh, EndRefresh, Return, ConsoleInv, AuthorizedInv
    <2>2. CASE r # f
      BY <1>0, <2>1, <2>2, FormKept
    <2>3. CASE r = f
      BY <2>1, <2>3 DEF FormInv, Refreshing, Idle
    <2> QED BY <2>2, <2>3
  <1>10. CASE Restart
    <2>1. UNCHANGED <<form, fetched>> /\ version' \in Nat /\ version' >= version
      BY <1>0, <1>10 DEF Restart, page
    <2> QED BY <1>0, <2>1, FormKept
  <1> QED BY <1>1, <1>3, <1>4, <1>5, <1>6, <1>7, <1>8, <1>9, <1>10
          DEF Next, FormStep, RefreshStep

LEMMA StepReads == ConsoleInv /\ [Next]_vars => ReadsInv'
  <1> SUFFICES ASSUME ConsoleInv, [Next]_vars PROVE ReadsInv'
    OBVIOUS
  <1>0. ReadsInv /\ version \in Nat
    BY DEF ConsoleInv, ReadsInv
  <1> USE DEF ReadsInv, Versions
  <1>1. CASE UNCHANGED <<fetched, shown, version>>
    BY <1>0, <1>1
  <1>2. CASE LoginStep \/ RestoreStep \/ SubmitLogin \/ LoseLogin \/ Logout
             \/ LoseRestore \/ Guess \/ Time \/ UNCHANGED vars
    BY <1>1, <1>2 DEF LoginStep, HandleLogin, ReceiveLogin, RestoreStep, HandleRestore,
       ReceiveRestore, SubmitLogin, LoseLogin, Logout, LoseRestore, Guess, Time, page, vars
  <1>3. CASE Reload
    BY <1>0, <1>3 DEF Reload, Nothing, Refresher
  <1>4. ASSUME NEW f \in Form, SubmitForm(f) \/ LoseForm(f) PROVE ReadsInv'
    BY <1>1, <1>4 DEF SubmitForm, LoseForm
  <1>5. ASSUME Restart \/ \E f \in Form : ApplyForm(f) \/ RefuseForm(f) PROVE ReadsInv'
    <2>1. UNCHANGED <<fetched, shown>> /\ version' \in {version, version + 1}
      BY <1>5 DEF ApplyForm, RefuseForm, Restart, page
    <2>2. Versions \subseteq Versions' /\ version' \in Nat
      BY <1>0, <2>1
    <2> HIDE DEF Versions
    <2> QED BY <1>0, <2>1, <2>2
  <1>6. ASSUME NEW r \in Refresher, StartRefresh(r), UNCHANGED <<shown, version>>
        PROVE  ReadsInv'
    BY <1>0, <1>6 DEF StartRefresh, Nothing
  <1>7. ASSUME NEW f \in Form, ReceiveForm(f) PROVE ReadsInv'
    BY <1>1, <1>6, <1>7 DEF ReceiveForm, Refresher
  <1>8. CASE Click
    BY <1>6, <1>8 DEF Click, Refresher
  <1>9. ASSUME NEW r \in Refresher, NEW x \in Resource, Read(r, x) PROVE ReadsInv'
    <2>1. /\ UNCHANGED <<shown, version>> /\ r \in DOMAIN fetched
          /\ fetched' = [fetched EXCEPT ![r] = [fetched[r] EXCEPT ![x] = version]]
      BY <1>9 DEF Read, Refreshing
    <2> QED BY <1>0, <2>1
  <1>10. ASSUME NEW r \in Refresher, ShowRefresh(r) \/ FailRefresh(r) PROVE ReadsInv'
    BY <1>0, <1>10 DEF ShowRefresh, FailRefresh, EndRefresh, Refreshing
  <1> QED BY <1>2, <1>3, <1>4, <1>5, <1>7, <1>8, <1>9, <1>10
          DEF Next, FormStep, RefreshStep

LEMMA Console == Spec => []ConsoleInv
  <1>1. ConsoleInv /\ [Next]_vars => ConsoleInv'
    <2> SUFFICES ASSUME ConsoleInv, [Next]_vars PROVE ConsoleInv'
      OBVIOUS
    <2> QED BY StepAuthorized, StepSessionTypes, StepForms, StepReads, StepLeft
            DEF ConsoleInv
  <1> QED BY <1>1, InitConsole, PTL DEF Spec

\* Whatever overlaps and whatever is lost: the page holds only tokens that were issued,
\* a form waits exactly while its own refresh is under way, and nothing is shown that
\* the protocol has not reached.
THEOREM ConsoleTypes == Spec => []TypeOK
  <1>1. LimiterInv /\ ConsoleInv => TypeOK
    BY DEF LimiterInv, ConsoleInv, SessionTypes, FormInv, ReadsInv, Versions, TypeOK
  <1> QED BY <1>1, Console, Limiter, ConsoleImplementsAuth, PTL

\* When the refresh that a form awaits is shown, the form's own change is on display,
\* in every resource: the reads began behind the answer, and no other refresh that
\* ends meanwhile takes its place.
THEOREM OwnChangesShown == Spec => OwnChangesAreShown
  <1>1. ConsoleInv /\ [Next]_vars
          => [\A f \in Form : \A x \in Resource :
                Shows(f) => shown'[x] >= form[f].result]_vars
    <2> SUFFICES ASSUME ConsoleInv, [Next]_vars, NEW f \in Form, NEW x \in Resource,
                        Shows(f)
                 PROVE  shown'[x] >= form[f].result
      OBVIOUS
    <2>1. /\ FormInv(f) /\ form[f].stage = "refreshing" /\ form'[f] # form[f]
          /\ form = [g \in Form |-> form[g]]
          /\ \A y \in Resource : fetched[f][y] # None
      BY DEF ConsoleInv, AuthorizedInv, FormInv, Shows, Idle
    <2>2. ShowRefresh(f)
      <3>1. ~Reload
        <4>1. "reloads" \in Kinds /\ left' = left /\ left \in [Kinds -> Nat]
          BY DEF Kinds, Shows, ConsoleInv, LeftInv
        <4>2. left["reloads"] \in Nat /\ left'["reloads"] = left["reloads"]
          BY <4>1
        <4>3. ~(Has("reloads") /\ Spend("reloads"))
          BY <4>1, <4>2 DEF Has, Spend
        <4> QED BY <4>3 DEF Reload
      <3>2. \A g \in Form : ~(FormStep(g) \/ SubmitForm(g) \/ LoseForm(g)) \/ g # f
        BY <2>1 DEF FormStep, ApplyForm, RefuseForm, ReceiveForm, SubmitForm, LoseForm, Idle
      <3>3. \A g \in Form : FormStep(g) \/ SubmitForm(g) \/ LoseForm(g)
                 => g = f \/ form'[f] = form[f]
        BY <2>1 DEF FormStep, ApplyForm, RefuseForm, ReceiveForm, SubmitForm, LoseForm,
           Answer
      <3>4. \A r \in Refresher : RefreshStep(r) \/ FailRefresh(r)
                 => ShowRefresh(f) \/ form'[f] = form[f]
        BY <2>1 DEF RefreshStep, Read, ShowRefresh, FailRefresh, Return
      <3> QED BY <2>1, <3>1, <3>2, <3>3, <3>4 DEF Next, LoginStep, HandleLogin,
              ReceiveLogin, RestoreStep, HandleRestore, ReceiveRestore, SubmitLogin,
              LoseLogin, Logout, LoseRestore, Click, Guess, Restart, Time, page, vars
    <2>3. shown' = fetched[f]
      BY <2>2 DEF ShowRefresh
    <2> QED BY <2>1, <2>3 DEF FormInv
  <1> QED BY <1>1, Console, PTL DEF OwnChangesAreShown, Spec
==============================================================================
