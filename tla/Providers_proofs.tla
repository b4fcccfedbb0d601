-------------------------- MODULE Providers_proofs --------------------------
(***************************************************************************)
(* For any providers, requests, retries and threshold: the health stays    *)
(* honest however the runs interleave, and no run goes back.               *)
(***************************************************************************)
EXTENDS Providers, TLAPS

\* Reading the health of a provider keeps its type.
LEMMA RefreshedType ==
    ASSUME TypeOK, NEW p \in Provider
    PROVE  Refreshed(p) \in [status : Status, streak : Nat, cooling : BOOLEAN]
BY DEF TypeOK, Refreshed, Status

\* The marks of a failure keep the types of a provider's health.
LEMMA MarkedType ==
    ASSUME NEW h \in [status : Status, streak : Nat, cooling : BOOLEAN], NEW e
    PROVE  /\ Marked(h, e) \in [status : Status, streak : Nat, cooling : BOOLEAN]
           /\ Blamed(h, e) \in [status : Status, streak : Nat, cooling : BOOLEAN]
<1> DEFINE Health == [status : Status, streak : Nat, cooling : BOOLEAN]
<1> DEFINE counted == [h EXCEPT !.streak = @ + 1]
<1>1. \A x \in Health : RateLimited(x) \in Health
  BY DEF RateLimited, Status
<1>2. counted \in Health
  OBVIOUS
<1>3. RateLimited(h) \in Health /\ RateLimited(counted) \in Health
  BY <1>1, <1>2
<1>4. Marked(h, e) \in {h, RateLimited(counted), counted}
  BY DEF Marked
<1>5. Marked(h, e) \in Health
  BY <1>2, <1>3, <1>4
<1>6. [h EXCEPT !.status = IF e = "auth" THEN "UNAUTHORIZED" ELSE "ERROR"] \in Health
  BY DEF Status
<1>7. Blamed(h, e) \in Health
  BY <1>3, <1>6 DEF Blamed
<1> QED BY <1>5, <1>7

\* Every reachable state has the declared types.
THEOREM TypeCorrect == Spec => []TypeOK
<1>1. Init => TypeOK
  BY ProviderAssumption DEF Init, TypeOK, Status, Between, Ended, Fault, Transient
<1>2. TypeOK /\ [Next]_vars => TypeOK'
  <2> SUFFICES ASSUME TypeOK, [Next]_vars PROVE TypeOK'
    OBVIOUS
  <2> USE ProviderAssumption DEF Between, Ended
  <2>1. ASSUME NEW p \in Provider, CooldownEnds(p) PROVE TypeOK'
    BY <2>1 DEF CooldownEnds, TypeOK, runVars
  <2>2. ASSUME NEW p \in Provider, ReadHealth(p) PROVE TypeOK'
    BY <2>2, RefreshedType DEF ReadHealth, TypeOK, runVars
  <2>3. ASSUME NEW r \in Request, Refuse(r) PROVE TypeOK'
    BY <2>3 DEF Refuse, TypeOK
  <2>4. ASSUME NEW r \in Request, NEW p \in Provider, Start(r, p) PROVE TypeOK'
    BY <2>4, RefreshedType DEF Start, TypeOK
  <2>5. ASSUME NEW r \in Request, Ask(r) PROVE TypeOK'
    BY <2>5 DEF Ask, TypeOK
  <2>6. ASSUME NEW r \in Request, Answer(r) PROVE TypeOK'
    BY <2>6 DEF Answer, TypeOK, Status
  <2>7. ASSUME NEW r \in Request, NEW e \in Fault, NEW p \in Provider, FallBack(r, e, p)
        PROVE  TypeOK'
    BY <2>7, RefreshedType, MarkedType DEF FallBack, TypeOK
  <2>8. ASSUME NEW r \in Request, NEW e \in Fault, BackOff(r, e) PROVE TypeOK'
    BY <2>8, MarkedType DEF BackOff, TypeOK
  <2>9. ASSUME NEW r \in Request, NEW e \in Fault, Break(r, e) PROVE TypeOK'
    <3>1. Blamed(Marked(health[active[r]], e), e)
             \in [status : Status, streak : Nat, cooling : BOOLEAN]
      BY MarkedType DEF TypeOK
    <3> QED BY <2>9, <3>1 DEF Break, TypeOK
  <2>10. ASSUME NEW r \in Request, RunOut(r) PROVE TypeOK'
    BY <2>10, MarkedType DEF RunOut, TypeOK
  <2>11. ASSUME NEW r \in Request, Cancel(r) PROVE TypeOK'
    BY <2>11 DEF Cancel, TypeOK
  <2>12. CASE UNCHANGED vars
    BY <2>12 DEF vars, TypeOK
  <2> QED
    BY <2>1, <2>2, <2>3, <2>4, <2>5, <2>6, <2>7, <2>8, <2>9, <2>10, <2>11, <2>12
    DEF Next, Proceeds
<1> QED BY <1>1, <1>2, PTL DEF Spec

\* A health that is READY is below the threshold and does not cool down.
Honest(h) == h.status = "READY" => h.streak < Threshold /\ ~h.cooling

\* The health a provider is read with is honest when the stored one is.
LEMMA RefreshedHonest ==
    ASSUME TypeOK, NEW p \in Provider, Honest(health[p])
    PROVE  Honest(Refreshed(p))
BY ProviderAssumption DEF TypeOK, Refreshed, Honest

\* A mark keeps a health honest; the blame of a failed run never says READY.
LEMMA MarkedHonest ==
    ASSUME NEW h \in [status : Status, streak : Nat, cooling : BOOLEAN], Honest(h), NEW e
    PROVE  Honest(Marked(h, e)) /\ Honest(Blamed(h, e))
BY ProviderAssumption DEF Marked, Blamed, RateLimited, Honest

\* The invariant, provider by provider: every action writes only honest healths.
THEOREM ReadyAlwaysBelowThreshold == Spec => []ReadyIsBelowThreshold
<1>1. Init => ReadyIsBelowThreshold
  BY ProviderAssumption DEF Init, ReadyIsBelowThreshold
<1>2. TypeOK /\ ReadyIsBelowThreshold /\ [Next]_vars => ReadyIsBelowThreshold'
  <2> SUFFICES ASSUME TypeOK, \A p \in Provider : Honest(health[p]), [Next]_vars
               PROVE  \A p \in Provider : Honest(health'[p])
    BY DEF ReadyIsBelowThreshold, Honest
  <2> USE ProviderAssumption
  <2>1. ASSUME NEW p \in Provider, CooldownEnds(p) PROVE \A q \in Provider : Honest(health'[q])
    BY <2>1 DEF CooldownEnds, TypeOK, Honest
  <2>2. ASSUME NEW p \in Provider, ReadHealth(p) PROVE \A q \in Provider : Honest(health'[q])
    BY <2>2, RefreshedHonest DEF ReadHealth, TypeOK
  <2>3. ASSUME NEW r \in Request, NEW p \in Provider, Start(r, p)
        PROVE  \A q \in Provider : Honest(health'[q])
    BY <2>3, RefreshedHonest DEF Start, TypeOK
  <2>4. ASSUME NEW r \in Request, Answer(r) PROVE \A q \in Provider : Honest(health'[q])
    BY <2>4 DEF Answer, TypeOK, Honest
  <2>5. ASSUME NEW r \in Request, NEW e \in Fault, NEW p \in Provider, FallBack(r, e, p)
        PROVE  \A q \in Provider : Honest(health'[q])
    BY <2>5, RefreshedHonest, MarkedHonest DEF FallBack, TypeOK
  <2>6. ASSUME NEW r \in Request, NEW e \in Fault, BackOff(r, e)
        PROVE  \A q \in Provider : Honest(health'[q])
    BY <2>6, MarkedHonest DEF BackOff, TypeOK
  <2>7. ASSUME NEW r \in Request, NEW e \in Fault, Break(r, e)
        PROVE  \A q \in Provider : Honest(health'[q])
    <3>1. Honest(Blamed(Marked(health[active[r]], e), e))
      BY MarkedHonest, MarkedType DEF TypeOK
    <3> QED BY <2>7, <3>1 DEF Break, TypeOK
  <2>8. ASSUME NEW r \in Request, RunOut(r) PROVE \A q \in Provider : Honest(health'[q])
    BY <2>8, MarkedHonest DEF RunOut, TypeOK
  <2>9. ASSUME UNCHANGED health PROVE \A q \in Provider : Honest(health'[q])
    BY <2>9
  <2> QED
    BY <2>1, <2>2, <2>3, <2>4, <2>5, <2>6, <2>7, <2>8, <2>9
    DEF Next, Proceeds, Refuse, Ask, Cancel, vars
<1> QED BY <1>1, <1>2, TypeCorrect, PTL DEF Spec

\* Only the end of a cooldown or an answer of its own makes a provider READY again.
THEOREM RecoveryAlwaysEarned == Spec => RecoveryIsEarned
<1> DEFINE Earned == \A p \in Provider :
      health'[p].status = "READY" /\ health[p].status # "READY" =>
         \/ health[p].status = "RATE_LIMITED" /\ ~health[p].cooling
         \/ \E r \in Request : /\ phase[r] = "asking" /\ active[r] = p
                               /\ phase'[r] = "answered"
<1>1. TypeOK /\ [Next]_vars => [Earned]_vars
  <2> SUFFICES ASSUME TypeOK, Next PROVE Earned
    OBVIOUS
  <2> USE DEF Refreshed
  <2>1. ASSUME NEW p \in Provider, CooldownEnds(p) PROVE Earned
    BY <2>1 DEF CooldownEnds, TypeOK
  <2>8. ASSUME NEW p \in Provider, ReadHealth(p) PROVE Earned
    BY <2>8 DEF ReadHealth, TypeOK
  <2>2. ASSUME NEW r \in Request, NEW p \in Provider, Start(r, p) PROVE Earned
    BY <2>2 DEF Start, TypeOK
  <2>3. ASSUME NEW r \in Request, Answer(r) PROVE Earned
    BY <2>3 DEF Answer, TypeOK
  <2>4. ASSUME NEW r \in Request, NEW e \in Fault, NEW p \in Provider, FallBack(r, e, p)
        PROVE  Earned
    BY <2>4 DEF FallBack, TypeOK, Marked, RateLimited
  <2>5. ASSUME NEW r \in Request, NEW e \in Fault, BackOff(r, e) PROVE Earned
    BY <2>5 DEF BackOff, TypeOK, Marked, RateLimited
  <2>9. ASSUME NEW r \in Request, NEW e \in Fault, Break(r, e) PROVE Earned
    <3>0. \A h \in [status : Status, streak : Nat, cooling : BOOLEAN] :
             Blamed(h, e).status # "READY"
      BY DEF Blamed, RateLimited, Status
    <3>1. Blamed(Marked(health[active[r]], e), e).status # "READY"
      BY <3>0, MarkedType DEF TypeOK
    <3> QED BY <2>9, <3>1 DEF Break, TypeOK
  <2>6. ASSUME UNCHANGED health PROVE Earned
    BY <2>6
  <2>7. ASSUME NEW r \in Request, RunOut(r) PROVE Earned
    BY <2>7 DEF RunOut, TypeOK, Blamed, RateLimited
  <2> QED
    BY <2>1, <2>2, <2>3, <2>4, <2>5, <2>6, <2>7, <2>8, <2>9
    DEF Next, Proceeds, Refuse, Ask, Cancel
<1> QED BY <1>1, TypeCorrect, PTL DEF Spec, RecoveryIsEarned

\* A run asks each provider in one visit: the one it turns to is new to it.
THEOREM RunsNeverGoBack == Spec => NeverGoesBack
<1> DEFINE Forward == \A r \in Request : active'[r] # active[r] => active'[r] \notin asked[r]
<1> DEFINE Unasked == \A r \in Request : phase[r] = "idle" => asked[r] = {}
<1>1. Init => Unasked
  BY DEF Init
<1>2. TypeOK /\ Unasked /\ [Next]_vars => Unasked'
  <2> SUFFICES ASSUME TypeOK, Unasked, [Next]_vars PROVE Unasked'
    OBVIOUS
  <2>1. ASSUME NEW r \in Request, Ask(r) PROVE Unasked'
    BY <2>1 DEF Ask, TypeOK
  <2>2. ASSUME UNCHANGED asked,
               \A r \in Request : phase'[r] = "idle" => phase[r] = "idle"
        PROVE  Unasked'
    BY <2>2
  <2>3. ASSUME NEW p \in Provider, CooldownEnds(p) \/ ReadHealth(p) PROVE Unasked'
    BY <2>3 DEF CooldownEnds, ReadHealth, runVars
  <2>4. ASSUME NEW r \in Request, Refuse(r) \/ Answer(r) \/ RunOut(r) \/ Cancel(r)
        PROVE  Unasked'
    BY <2>4 DEF Refuse, Answer, RunOut, Cancel, TypeOK
  <2>5. ASSUME NEW r \in Request, NEW p \in Provider, Start(r, p) PROVE Unasked'
    BY <2>5 DEF Start, TypeOK
  <2>6. ASSUME NEW r \in Request, NEW e \in Fault, BackOff(r, e) \/ Break(r, e)
        PROVE  Unasked'
    BY <2>6 DEF BackOff, Break, TypeOK
  <2>7. ASSUME NEW r \in Request, NEW e \in Fault, NEW p \in Provider, FallBack(r, e, p)
        PROVE  Unasked'
    BY <2>7 DEF FallBack, TypeOK
  <2>8. CASE UNCHANGED vars
    BY <2>8 DEF vars
  <2> QED BY <2>1, <2>3, <2>4, <2>5, <2>6, <2>7, <2>8 DEF Next, Proceeds
<1>3. TypeOK /\ Unasked /\ [Next]_vars => [Forward]_vars
  <2> SUFFICES ASSUME TypeOK, Unasked, Next PROVE Forward
    OBVIOUS
  <2>1. ASSUME NEW r \in Request, NEW p \in Provider, Start(r, p) PROVE Forward
    BY <2>1 DEF Start, TypeOK
  <2>2. ASSUME NEW r \in Request, NEW e \in Fault, NEW p \in Provider, FallBack(r, e, p)
        PROVE  Forward
    BY <2>2 DEF FallBack, Foremost, Ready, TypeOK
  <2>3. ASSUME UNCHANGED active PROVE Forward
    BY <2>3
  <2> QED
    BY <2>1, <2>2, <2>3
    DEF Next, Proceeds, CooldownEnds, ReadHealth, runVars, Refuse, Ask, Answer, BackOff,
        Break, RunOut, Cancel
<1> QED BY <1>1, <1>2, <1>3, TypeCorrect, PTL DEF Spec, NeverGoesBack

=============================================================================
