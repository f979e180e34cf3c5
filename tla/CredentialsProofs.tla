-------------------------- MODULE CredentialsProofs -------------------------
(***************************************************************************)
(* Proofs about the provider's credential, for any number of turns, tokens *)
(* and accounts, whatever the issuer's policy and whatever goes wrong.     *)
(*                                                                         *)
(* NotStranded rests on secrecy: while a new refresh token is on its way   *)
(* to the row, no other turn, container or row knows it (TokensArePrivate),*)
(* so nobody can use it up first.                                          *)
(***************************************************************************)
EXTENDS Credentials, TLAPS

Known(r) ==
  \/ store.refresh = r
  \/ \E t \in Turns : asked[t].refresh = r
  \/ \E c \in held : c.refresh = r

(* What the issuer has handed out and has not arrived is accepted, and if  *)
(* the issuer rotates nobody else knows it.                                *)
PendingLive ==
  /\ \A t \in Turns : Answered(t) => InFlight(t) /\ answer[t].refresh \in live
  /\ \A p \in Processes : granted[p] # NoCred => granted[p].refresh \in live
  /\ ~rotates => live = 1 .. issued
TokensArePrivate ==
  rotates =>
    /\ \A r \in Tokens : Known(r) =>
         /\ \A t \in Turns : Answered(t) => answer[t].refresh # r
         /\ \A p \in Processes : granted[p] # NoCred => granted[p].refresh # r
    /\ \A t, u \in Turns : t # u /\ Answered(t) /\ Answered(u) => answer[t].refresh # answer[u].refresh
    /\ \A t \in Turns, p \in Processes :
         Answered(t) /\ granted[p] # NoCred => answer[t].refresh # granted[p].refresh
    /\ \A p, q \in Processes : p # q /\ granted[p] # NoCred /\ granted[q] # NoCred =>
         granted[p].refresh # granted[q].refresh
TokensIssued == \A r \in Tokens : Known(r) => r <= issued

(* The accounts: an answer is for the account that was asked, and a turn   *)
(* that asked after the last word asked for its account.                   *)
WordsFollow ==
  /\ LastWordCounts
  /\ \A t \in Turns : Answered(t) => InFlight(t) /\ answer[t].account = asked[t].account
  /\ ~undone => \A t \in Turns : InFlight(t) /\ t \notin overtaken => asked[t].account = lastWord
-----------------------------------------------------------------------------

LEMMA CredInit_Type == ASSUME CredInit PROVE CredTypeOK /\ PortFreed
<1>1. /\ store = NoCred /\ port = None /\ issued = 0 /\ live = {} /\ held = {}
      /\ expired = FALSE /\ lost = FALSE /\ undone = FALSE /\ rotates \in BOOLEAN
      /\ lastWord = None /\ overtaken = {}
  BY DEF CredInit
<1>2. /\ asked \in [Turns -> Credential \cup {NoCred}]
      /\ answer \in [Turns -> Credential \cup {NoCred, Refused}]
      /\ login \in [Processes -> {"none", "opening", "waiting", "prompting", "polling",
                                  "exchanging", "granted"}]
      /\ granted \in [Processes -> Credential \cup {NoCred}]
      /\ \A p \in Processes : login[p] = "none" /\ granted[p] = NoCred
  BY DEF CredInit
<1>3. 0 \in 0 .. MaxIssued
  BY CredentialsAssumption
<1>4. CredTypeOK
  BY <1>1, <1>2, <1>3 DEF CredTypeOK
<1>5. PortFreed
  BY <1>1 DEF PortFreed
<1> QED BY <1>4, <1>5

(* The two ends of a login's step: on to another phase, or over, when at   *)
(* most the browser's connections are waited for.                          *)
Over(p) ==
  /\ \E next \in {"none", "closing"} : login' = [login EXCEPT ![p] = next]
  /\ granted' = [granted EXCEPT ![p] = NoCred]
  /\ Closes(p)
LEMMA LoginMoves ==
  ASSUME CredTypeOK, PortFreed, NEW p \in Processes,
         NEW phase \in {"none", "called", "waiting", "prompting", "exchanging"},
         phase = "none" => login[p] = "closing",
         (Goes(p, phase) /\ login[p] # "granted") \/ Over(p)
  PROVE  /\ login' \in [Processes -> {"none", "opening", "called", "waiting", "prompting",
                                      "polling", "exchanging", "granted", "closing"}]
         /\ granted' \in [Processes -> Credential \cup {NoCred}]
         /\ \A q \in Processes : granted'[q] # NoCred <=> login'[q] = "granted"
         /\ port' \in Processes \cup {None}
         /\ PortFreed'
         /\ \A q \in Processes : granted'[q] # NoCred => granted'[q] = granted[q]
<1>1. CASE Goes(p, phase) /\ login[p] # "granted"
  <2>1. login' = [login EXCEPT ![p] = phase] /\ granted' = granted /\ port' = port
    BY <1>1 DEF Goes
  <2>2. granted[p] = NoCred
    BY <1>1 DEF CredTypeOK
  <2>3. \A q \in Processes : login'[q] = IF q = p THEN phase ELSE login[q]
    BY <2>1 DEF CredTypeOK
  <2>4. PortFreed'
    BY <2>1, <2>3 DEF PortFreed, CredTypeOK
  <2> QED BY <2>1, <2>2, <2>3, <2>4 DEF CredTypeOK
<1>2. CASE Over(p)
  <2>0. PICK next \in {"none", "closing"} : login' = [login EXCEPT ![p] = next]
    BY <1>2 DEF Over
  <2>1. granted' = [granted EXCEPT ![p] = NoCred] /\ port' = IF port = p THEN None ELSE port
    BY <1>2 DEF Over, Closes
  <2>2. \A q \in Processes : /\ login'[q] = IF q = p THEN next ELSE login[q]
                             /\ granted'[q] # NoCred <=> login'[q] = "granted"
                             /\ granted'[q] # NoCred => granted'[q] = granted[q]
    BY <2>0, <2>1 DEF CredTypeOK
  <2>3. PortFreed'
    BY <2>1, <2>2 DEF PortFreed, CredTypeOK
  <2> QED BY <2>0, <2>1, <2>2, <2>3 DEF CredTypeOK
<1> QED BY <1>1, <1>2

LEMMA EndsOver ==
  ASSUME NEW p \in Processes, Ends(p)
  PROVE  Over(p)
BY DEF Ends, Over, AfterEnd

(* The effects a login's step may have: it moves on or ends, is granted    *)
(* its tokens, or stores them.                                             *)
LoginTypes ==
  /\ login \in [Processes -> {"none", "opening", "called", "waiting", "prompting",
                              "polling", "exchanging", "granted", "closing"}]
  /\ granted \in [Processes -> Credential \cup {NoCred}]
  /\ \A p \in Processes : granted[p] # NoCred <=> login[p] = "granted"
  /\ port \in Processes \cup {None}
Quiet ==
  /\ LoginTypes' /\ PortFreed'
  /\ \A q \in Processes : granted'[q] # NoCred => granted'[q] = granted[q]
Granting(p) ==
  /\ login[p] = "exchanging" /\ login' = [login EXCEPT ![p] = "granted"] /\ port' = port
  /\ issued < MaxIssued /\ issued' = issued + 1 /\ live' = live \cup {issued'} /\ rotates' = rotates
  /\ \E a \in AccountsOf[p] :
       granted' = [granted EXCEPT ![p] = [refresh |-> issued', account |-> a]]
Storing(p) ==
  /\ login[p] = "granted" /\ Write(granted[p]) /\ Word(granted[p].account) /\ Ends(p)
  /\ UNCHANGED <<turnVars, issuerVars>>

LEMMA LoginCases ==
  ASSUME CredTypeOK, PortFreed, NEW p \in Processes, LoginStep(p)
  PROVE  \/ Quiet /\ UNCHANGED <<rowVars, issuerVars, wordVars, turnVars>>
         \/ Granting(p) /\ UNCHANGED <<rowVars, wordVars, turnVars>>
         \/ Quiet /\ Storing(p)
<1>1. UNCHANGED turnVars
  BY DEF LoginStep
<1>2. ASSUME NEW phase \in {"none", "called", "waiting", "prompting", "exchanging"},
             phase = "none" => login[p] = "closing",
             (Goes(p, phase) /\ login[p] # "granted") \/ Ends(p)
      PROVE  Quiet
  BY <1>2, LoginMoves, EndsOver DEF Quiet, LoginTypes
<1>3. ASSUME NoCode(p), login[p] # "granted" PROVE Quiet
  BY <1>2, <1>3 DEF NoCode
<1>4. ASSUME BrowserOpened(p) \/ CallbackTimeout(p) \/ DeviceExpired(p) \/ Closed(p) PROVE Quiet
  BY <1>2, <1>3, <1>4 DEF BrowserOpened, CallbackTimeout, DeviceExpired, Closed
<1>6. CASE LoggedIn(p) /\ UNCHANGED issuerVars
  <2>1. Ends(p) /\ login[p] = "granted" /\ Write(granted[p]) /\ Word(granted[p].account)
    BY <1>6 DEF LoggedIn, Stored
  <2> QED BY <1>1, <1>2, <1>6, <2>1 DEF Storing
<1>7. ASSUME LoginStarts(p) PROVE Quiet
  <2>1. /\ login[p] = "none" /\ granted' = granted
        /\ \/ login' = [login EXCEPT ![p] = "opening"] /\ port' = IF port = None THEN p ELSE port
           \/ login' = [login EXCEPT ![p] = "polling"] /\ port' = port
    BY <1>7 DEF LoginStarts
  <2>2. \A q \in Processes : q # p => login'[q] = login[q]
    BY <2>1 DEF CredTypeOK
  <2>3. LoginTypes'
    BY <2>1 DEF CredTypeOK, LoginTypes
  <2>4. PortFreed'
    BY <2>1, <2>2 DEF CredTypeOK, PortFreed
  <2> QED BY <2>1, <2>3, <2>4 DEF Quiet
<1>8. ASSUME GoodCallback(p) \/ BadCallback(p) \/ Pasted(p) \/ DeviceConfirmed(p) PROVE Quiet
  BY <1>2, <1>3, <1>8 DEF GoodCallback, BadCallback, Pasted, DeviceConfirmed
<1>9. \/ Exchanged(p) /\ UNCHANGED <<rowVars, wordVars>>
      \/ LoggedIn(p) /\ UNCHANGED issuerVars
      \/ /\ UNCHANGED <<rowVars, issuerVars, wordVars>>
         /\ \/ BrowserOpened(p) \/ CallbackTimeout(p) \/ DeviceExpired(p) \/ Closed(p)
            \/ LoginStarts(p) \/ GoodCallback(p) \/ BadCallback(p) \/ Pasted(p)
            \/ DeviceConfirmed(p)
  BY DEF LoginStep, LoginProceeds, rowVars
<1>10. CASE Exchanged(p) /\ UNCHANGED <<rowVars, wordVars>>
  <2>1. CASE Ends(p) /\ UNCHANGED issuerVars
    BY <1>1, <1>2, <1>10, <2>1
  <2>2. CASE ~(Ends(p) /\ UNCHANGED issuerVars)
    BY <1>1, <1>10, <2>2 DEF Exchanged, Granting, Issue
  <2> QED BY <2>1, <2>2
<1> QED BY <1>1, <1>4, <1>6, <1>7, <1>8, <1>9, <1>10

(* Granted tokens are of the account of the login.                         *)
LEMMA GrantingTypes ==
  ASSUME CredTypeOK, NEW p \in Processes, Granting(p)
  PROVE  /\ LoginTypes' /\ (PortFreed => PortFreed')
         /\ issued' \in 0 .. MaxIssued /\ live' \subseteq 1 .. issued'
         /\ \E a \in Accounts : granted'[p] = [refresh |-> issued', account |-> a]
         /\ \A q \in Processes : q # p => granted'[q] = granted[q]
<1>1. PICK a \in AccountsOf[p] : granted' = [granted EXCEPT ![p] = [refresh |-> issued', account |-> a]]
  BY DEF Granting
<1>2. a \in Accounts
  BY CredentialsAssumption
<1>3. issued' \in 1 .. MaxIssued /\ issued' = issued + 1
  BY CredentialsAssumption DEF Granting, CredTypeOK
<1>4. [refresh |-> issued', account |-> a] \in Credential /\ [refresh |-> issued', account |-> a] # NoCred
  BY <1>2, <1>3 DEF Credential, NoCred, Tokens
<1>5. /\ login' = [login EXCEPT ![p] = "granted"] /\ port' = port
  BY DEF Granting
<1>6. LoginTypes'
  BY <1>1, <1>4, <1>5 DEF CredTypeOK, LoginTypes
<1>7. PortFreed => PortFreed'
  BY <1>5 DEF CredTypeOK, PortFreed
<1>8. live' \subseteq 1 .. issued'
  <2>1. live \subseteq 1 .. issued /\ issued \in Nat /\ live' = live \cup {issued'}
    BY CredentialsAssumption DEF Granting, CredTypeOK
  <2>2. 1 .. issued \subseteq 1 .. issued' /\ issued' \in 1 .. issued'
    BY <1>3, <2>1
  <2> QED BY <2>1, <2>2
<1> QED BY <1>1, <1>2, <1>3, <1>4, <1>6, <1>7, <1>8 DEF CredTypeOK

(* What the issuer makes of a refresh.                                     *)
LEMMA RefreshTypes ==
  ASSUME CredTypeOK, NEW cred \in Credential, Refresh(cred)
  PROVE  /\ issued' \in 0 .. MaxIssued /\ live' \subseteq 1 .. issued' /\ rotates' = rotates
         /\ Successor(cred) \in Credential /\ Successor(cred).account = cred.account
         /\ Successor(cred).refresh \in live'
         /\ cred.refresh \in live /\ issued <= issued'
         /\ \A r \in live : r # cred.refresh => r \in live'
         /\ rotates => issued' = issued + 1 /\ Successor(cred).refresh = issued'
         /\ ~rotates => issued' = issued /\ live' = live /\ Successor(cred) = cred
<1>1. CASE rotates
  <2>1. /\ issued < MaxIssued /\ issued' = issued + 1 /\ rotates' = rotates
        /\ live' = (live \ {cred.refresh}) \cup {issued'} /\ cred.refresh \in live
    BY <1>1 DEF Refresh, Issue
  <2>2. Successor(cred) = [cred EXCEPT !.refresh = issued + 1]
    BY <1>1 DEF Successor
  <2>3. issued \in 0 .. MaxIssued /\ live \subseteq 1 .. issued /\ MaxIssued \in Nat
    BY CredentialsAssumption DEF CredTypeOK
  <2>4. issued + 1 \in Tokens
    BY <2>1, <2>3 DEF Tokens
  <2>5. Successor(cred) \in Credential /\ Successor(cred).account = cred.account /\ Successor(cred).refresh = issued'
    BY <2>1, <2>2, <2>4 DEF Credential
  <2>6. 1 .. issued \subseteq 1 .. issued' /\ issued' \in 1 .. issued' /\ issued' \in 0 .. MaxIssued /\ issued <= issued'
    BY <2>1, <2>3
  <2>7. live' \subseteq 1 .. issued' /\ issued' \in live'
    BY <2>1, <2>3, <2>6
  <2> QED BY <1>1, <2>1, <2>5, <2>6, <2>7
<1>2. CASE ~rotates
  <2>1. issued' = issued /\ live' = live /\ rotates' = rotates /\ cred.refresh \in live /\ Successor(cred) = cred
    BY <1>2 DEF Refresh, Successor
  <2>2. issued \in 0 .. MaxIssued /\ live \subseteq 1 .. issued /\ issued <= issued
    BY CredentialsAssumption DEF CredTypeOK
  <2> QED BY <1>2, <2>1, <2>2
<1> QED BY <1>1, <1>2

LEMMA CredStep_Type ==
  ASSUME CredTypeOK, PortFreed, [CredNext]_credVars
  PROVE  CredTypeOK' /\ PortFreed'
<1> USE DEF rowVars, turnVars, loginVars, issuerVars, wordVars
<1>1. CASE UNCHANGED credVars
  BY <1>1 DEF credVars, CredTypeOK, PortFreed
<1>2. ASSUME NEW t \in Turns, Call(t) PROVE CredTypeOK' /\ PortFreed'
  BY <1>2 DEF Call, Returns, CredTypeOK, PortFreed
<1>3. ASSUME NEW t \in Turns, IssuerAnswers(t) PROVE CredTypeOK' /\ PortFreed'
  <2>1. asked[t] \in Credential
    BY <1>3 DEF IssuerAnswers, InFlight, CredTypeOK
  <2>2. CASE Refresh(asked[t]) /\ answer' = [answer EXCEPT ![t] = Refreshed(asked[t])]
    <3>1. answer' = [answer EXCEPT ![t] = Successor(asked[t])]
      BY <2>2 DEF Refreshed
    <3>2. /\ issued' \in 0 .. MaxIssued /\ live' \subseteq 1 .. issued' /\ rotates' = rotates
          /\ Successor(asked[t]) \in Credential
      BY <2>1, <2>2, RefreshTypes
    <3> QED BY <1>3, <3>1, <3>2 DEF IssuerAnswers, CredTypeOK, PortFreed
  <2>3. CASE answer' = [answer EXCEPT ![t] = Refused] /\ UNCHANGED issuerVars
    BY <1>3, <2>3 DEF IssuerAnswers, CredTypeOK, PortFreed
  <2> QED BY <1>3, <2>2, <2>3 DEF IssuerAnswers
<1>4. ASSUME NEW t \in Turns, AnswerArrives(t) PROVE CredTypeOK' /\ PortFreed'
  <2>1. /\ asked' \in [Turns -> Credential \cup {NoCred}]
        /\ answer' \in [Turns -> Credential \cup {NoCred, Refused}]
        /\ overtaken' \subseteq Turns
    BY <1>4 DEF AnswerArrives, Forget, CredTypeOK
  <2>2. CASE Answered(t)
    <3>1. answer[t] \in Credential
      BY <2>2 DEF Answered, CredTypeOK
    <3>2. /\ store' = answer[t] /\ expired' = FALSE /\ lost' = FALSE /\ undone' \in BOOLEAN
          /\ held' \in {held, held \cup {answer[t]}}
      BY <1>4, <2>2 DEF AnswerArrives, Write, Returns
    <3> QED BY <1>4, <2>1, <3>1, <3>2 DEF AnswerArrives, CredTypeOK, PortFreed
  <2>3. CASE ~Answered(t)
    BY <1>4, <2>1, <2>3 DEF AnswerArrives, CredTypeOK, PortFreed
  <2> QED BY <2>2, <2>3
<1>5. ASSUME NEW t \in Turns, AnswerLost(t) PROVE CredTypeOK' /\ PortFreed'
  <2>1. lost' \in BOOLEAN
    BY <1>5 DEF AnswerLost, LoseAnswers, CredTypeOK
  <2> QED BY <1>5, <2>1 DEF AnswerLost, LoseAnswers, Forget, CredTypeOK, PortFreed
<1>6. ASSUME NEW c \in held, ContainerRefreshes(c) PROVE CredTypeOK' /\ PortFreed'
  <2>1. c \in Credential
    BY DEF CredTypeOK
  <2>2. /\ issued' \in 0 .. MaxIssued /\ live' \subseteq 1 .. issued' /\ rotates' = rotates
        /\ Successor(c) \in Credential
    BY <1>6, <2>1, RefreshTypes DEF ContainerRefreshes
  <2>3. lost' \in BOOLEAN
    BY <1>6 DEF ContainerRefreshes, CredTypeOK
  <2> QED BY <1>6, <2>2, <2>3 DEF ContainerRefreshes, CredTypeOK, PortFreed
<1>7. ASSUME NEW c \in held, ContainerEnds(c) PROVE CredTypeOK' /\ PortFreed'
  BY <1>7 DEF ContainerEnds, CredTypeOK, PortFreed
<1>8. ASSUME NEW p \in Processes, LoginStep(p) PROVE CredTypeOK' /\ PortFreed'
  <2>1. CASE Quiet /\ UNCHANGED <<rowVars, issuerVars, wordVars, turnVars>>
    BY <2>1 DEF Quiet, LoginTypes, CredTypeOK
  <2>2. CASE Granting(p) /\ UNCHANGED <<rowVars, wordVars, turnVars>>
    <3>1. /\ LoginTypes' /\ PortFreed' /\ issued' \in 0 .. MaxIssued /\ live' \subseteq 1 .. issued'
          /\ rotates' = rotates
      BY <2>2, GrantingTypes DEF Granting
    <3> QED BY <2>2, <3>1 DEF LoginTypes, CredTypeOK
  <2>3. CASE Quiet /\ Storing(p)
    <3>1. granted[p] \in Credential
      BY <2>3 DEF Storing, CredTypeOK
    <3>2. /\ store' = granted[p] /\ expired' = FALSE /\ lost' = FALSE /\ undone' = FALSE
          /\ lastWord' \in Accounts /\ overtaken' \subseteq Turns
      BY <2>3, <3>1 DEF Storing, Write, Word, Credential
    <3> QED BY <2>3, <3>1, <3>2 DEF Quiet, Storing, LoginTypes, CredTypeOK
  <2> QED BY <1>8, <2>1, <2>2, <2>3, LoginCases
<1>9. ASSUME NEW p \in Processes, ProcessEnds(p) PROVE CredTypeOK' /\ PortFreed'
  <2>0. Over(p)
    BY <1>9 DEF ProcessEnds, Over
  <2>1. LoginTypes' /\ PortFreed'
    BY <1>9, <2>0, LoginMoves DEF LoginTypes
  <2>2. /\ asked' \in [Turns -> Credential \cup {NoCred}]
        /\ answer' \in [Turns -> Credential \cup {NoCred, Refused}]
        /\ overtaken' \subseteq Turns /\ lost' \in BOOLEAN /\ expired' = expired /\ store' = store
    BY <1>9 DEF ProcessEnds, LoseAnswers, CredTypeOK
  <2> QED BY <1>9, <2>1, <2>2 DEF ProcessEnds, LoginTypes, CredTypeOK
<1>10. CASE Logout
  BY <1>10 DEF Logout, Write, Word, CredTypeOK, PortFreed
<1>11. CASE AccessExpires
  BY <1>11 DEF AccessExpires, CredTypeOK, PortFreed
<1> QED BY <1>1, <1>2, <1>3, <1>4, <1>5, <1>6, <1>7, <1>8, <1>9, <1>10, <1>11 DEF CredNext
-----------------------------------------------------------------------------

(* The last word: every step keeps asked, answered and stored accounts in  *)
(* line with it.  The forms a step may take for the turns first.           *)
TurnsQuiet == \A u \in Turns : /\ asked'[u] \in {asked[u], NoCred}
                               /\ answer'[u] \in {answer[u], NoCred, Refused}
                               /\ asked'[u] = NoCred => answer'[u] \in {NoCred, Refused}

LEMMA WordsQuiet ==
  ASSUME CredTypeOK, WordsFollow, TurnsQuiet, UNCHANGED lastWord,
         undone \/ overtaken \subseteq overtaken' \cup {u \in Turns : asked'[u] = NoCred},
         undone => undone', ~undone' => store'.account = lastWord'
  PROVE  WordsFollow'
<1>1. LastWordCounts'
  BY DEF LastWordCounts
<1>2. ASSUME NEW t \in Turns, Answered(t)'
      PROVE  InFlight(t)' /\ answer'[t].account = asked'[t].account
  <2>1. answer'[t] = answer[t] /\ Answered(t) /\ asked'[t] = asked[t] /\ asked'[t] # NoCred
    BY <1>2 DEF TurnsQuiet, Answered
  <2> QED BY <2>1 DEF WordsFollow, InFlight
<1>3. ASSUME ~undone', NEW t \in Turns, InFlight(t)', t \notin overtaken'
      PROVE  asked'[t].account = lastWord'
  <2>1. asked'[t] = asked[t] /\ InFlight(t) /\ t \notin overtaken
    BY <1>3 DEF TurnsQuiet, InFlight
  <2> QED BY <1>3, <2>1 DEF WordsFollow
<1> QED BY <1>1, <1>2, <1>3 DEF WordsFollow

LEMMA WordsStep ==
  ASSUME CredTypeOK, PortFreed, WordsFollow, [CredNext]_credVars
  PROVE  WordsFollow'
<1> USE DEF rowVars, turnVars, loginVars, issuerVars, wordVars
<1>0. ~undone => store.account = lastWord
  BY DEF WordsFollow, LastWordCounts
<1>1. CASE UNCHANGED credVars
  <2>1. UNCHANGED <<asked, answer, store, wordVars>>
    BY <1>1 DEF credVars
  <2> QED BY <2>1 DEF WordsFollow, LastWordCounts, Answered, InFlight
<1>2. ASSUME NEW t \in Turns, Call(t) PROVE WordsFollow'
  <2>1. \A u \in Turns : asked'[u] = asked[u] \/ (u = t /\ asked'[u] = store /\ store # NoCred)
    BY <1>2 DEF Call, CredTypeOK
  <2>2. ~Answered(t) /\ answer' = answer /\ UNCHANGED <<store, wordVars>>
    BY <1>2 DEF Call, WordsFollow
  <2>3. LastWordCounts'
    BY <2>2 DEF WordsFollow, LastWordCounts
  <2>4. ASSUME NEW u \in Turns, Answered(u)'
        PROVE  InFlight(u)' /\ answer'[u].account = asked'[u].account
    <3>1. Answered(u) /\ u # t
      BY <2>2, <2>4 DEF Answered
    <3> QED BY <2>1, <2>2, <3>1 DEF WordsFollow, InFlight
  <2>5. ASSUME ~undone', NEW u \in Turns, InFlight(u)', u \notin overtaken'
        PROVE  asked'[u].account = lastWord'
    BY <1>0, <2>1, <2>2, <2>5 DEF WordsFollow, InFlight
  <2> QED BY <2>3, <2>4, <2>5 DEF WordsFollow
<1>3. ASSUME NEW t \in Turns, IssuerAnswers(t) PROVE WordsFollow'
  <2>1. asked' = asked /\ UNCHANGED <<rowVars, wordVars>> /\ InFlight(t)
        /\ \A u \in Turns : u # t => answer'[u] = answer[u]
    BY <1>3 DEF IssuerAnswers, CredTypeOK
  <2>2. answer'[t] = Refused \/ answer'[t].account = asked[t].account
    BY <1>3 DEF IssuerAnswers, CredTypeOK, Refreshed, Successor, InFlight, Credential
  <2> QED BY <2>1, <2>2 DEF WordsFollow, LastWordCounts, Answered, InFlight
<1>4. ASSUME NEW t \in Turns, AnswerArrives(t) PROVE WordsFollow'
  <2>1. /\ asked' = [asked EXCEPT ![t] = NoCred] /\ answer' = [answer EXCEPT ![t] = NoCred]
        /\ overtaken' = overtaken \ {t} /\ lastWord' = lastWord /\ InFlight(t)
    BY <1>4 DEF AnswerArrives, Forget
  <2>2. TurnsQuiet /\ asked'[t] = NoCred
    <3>1. \A u \in Turns : /\ asked'[u] = IF u = t THEN NoCred ELSE asked[u]
                          /\ answer'[u] = IF u = t THEN NoCred ELSE answer[u]
      BY <2>1 DEF CredTypeOK
    <3>2. ASSUME NEW u \in Turns, asked'[u] = NoCred PROVE answer'[u] \in {NoCred, Refused}
      BY <3>1, <3>2 DEF WordsFollow, Answered, InFlight
    <3> QED BY <3>1, <3>2 DEF TurnsQuiet
  <2>3. /\ undone => undone'
        /\ ~undone' => store'.account = lastWord'
    <3>1. CASE Answered(t)
      <4>1. store' = answer[t] /\ undone' = (undone \/ t \in overtaken)
        BY <1>4, <3>1 DEF AnswerArrives, Write
      <4>2. answer[t].account = asked[t].account
        BY <3>1 DEF WordsFollow
      <4> QED BY <2>1, <4>1, <4>2 DEF WordsFollow
    <3>2. CASE ~Answered(t)
      BY <1>0, <1>4, <2>1, <3>2 DEF AnswerArrives
    <3> QED BY <3>1, <3>2
  <2>4. overtaken \subseteq overtaken' \cup {u \in Turns : asked'[u] = NoCred}
    BY <2>1, <2>2
  <2> QED BY <2>1, <2>2, <2>3, <2>4, WordsQuiet
<1>5. ASSUME NEW t \in Turns, AnswerLost(t) PROVE WordsFollow'
  <2>1. /\ asked' = [asked EXCEPT ![t] = NoCred] /\ answer' = [answer EXCEPT ![t] = NoCred]
        /\ overtaken' = overtaken \ {t} /\ UNCHANGED <<lastWord, undone, store>>
    BY <1>5 DEF AnswerLost, Forget, LoseAnswers
  <2>2. TurnsQuiet /\ asked'[t] = NoCred
    <3>1. \A u \in Turns : /\ asked'[u] = IF u = t THEN NoCred ELSE asked[u]
                          /\ answer'[u] = IF u = t THEN NoCred ELSE answer[u]
      BY <2>1 DEF CredTypeOK
    <3>2. ASSUME NEW u \in Turns, asked'[u] = NoCred PROVE answer'[u] \in {NoCred, Refused}
      BY <3>1, <3>2 DEF WordsFollow, Answered, InFlight
    <3> QED BY <3>1, <3>2 DEF TurnsQuiet
  <2>3. overtaken \subseteq overtaken' \cup {u \in Turns : asked'[u] = NoCred}
    BY <2>1, <2>2
  <2> QED BY <1>0, <2>1, <2>2, <2>3, WordsQuiet
<1>6. ASSUME UNCHANGED <<asked, answer, store, wordVars>> PROVE WordsFollow'
  BY <1>6 DEF WordsFollow, LastWordCounts, Answered, InFlight
<1>7. ASSUME NEW account \in Accounts \cup {None}, Word(account), UNCHANGED <<asked, answer>>,
             store'.account = account
      PROVE  WordsFollow'
  BY <1>7 DEF Word, WordsFollow, LastWordCounts, Answered, InFlight
<1>8. ASSUME NEW p \in Processes, LoginStep(p) PROVE WordsFollow'
  <2>1. CASE Storing(p)
    <3>1. granted[p] \in Credential
      BY <2>1 DEF Storing, CredTypeOK
    <3> QED BY <1>7, <2>1, <3>1 DEF Storing, Write, Credential
  <2> QED BY <1>6, <1>8, <2>1, LoginCases
<1>9. ASSUME NEW p \in Processes, ProcessEnds(p) PROVE WordsFollow'
  <2>1. CASE p = "server"
    <3>1. /\ \A u \in Turns : asked'[u] = NoCred /\ answer'[u] = NoCred
          /\ UNCHANGED <<lastWord, undone, store>>
      BY <1>9, <2>1 DEF ProcessEnds, LoseAnswers
    <3> QED BY <1>0, <3>1 DEF WordsFollow, LastWordCounts, Answered, InFlight
  <2>2. CASE p # "server"
    BY <1>6, <1>9, <2>2 DEF ProcessEnds
  <2> QED BY <2>1, <2>2
<1>10. CASE Logout
  BY <1>7, <1>10 DEF Logout, Write, NoCred
<1>11. ASSUME NEW c \in held, ContainerRefreshes(c) \/ ContainerEnds(c) PROVE WordsFollow'
  BY <1>6, <1>11 DEF ContainerRefreshes, ContainerEnds
<1>12. CASE AccessExpires
  BY <1>6, <1>12 DEF AccessExpires
<1> QED BY <1>1, <1>2, <1>3, <1>4, <1>5, <1>8, <1>9, <1>10, <1>11, <1>12 DEF CredNext
-----------------------------------------------------------------------------

(* The tokens on their way to the row: a step that issues none and makes   *)
(* at most the token x known, which is on its way no more.                 *)
LEMMA TokensQuiet ==
  ASSUME CredTypeOK, PendingLive, TokensArePrivate, TokensIssued, UNCHANGED issuerVars,
         NEW x \in 0 .. issued,
         \A r \in Tokens : Known(r)' => Known(r) \/ r = x,
         \A t \in Turns : Answered(t)' =>
           /\ InFlight(t)' /\ Answered(t) /\ answer'[t] = answer[t]
           /\ rotates => answer[t].refresh # x,
         \A p \in Processes : granted'[p] # NoCred =>
           /\ granted[p] # NoCred /\ granted'[p] = granted[p]
           /\ rotates => granted[p].refresh # x
  PROVE  PendingLive' /\ TokensArePrivate' /\ TokensIssued'
<1>1. /\ live' = live /\ issued' = issued /\ rotates' = rotates
      /\ \A r \in live : r \in Tokens
  BY CredentialsAssumption DEF issuerVars, CredTypeOK, Tokens
<1>2. PendingLive'
  BY <1>1 DEF PendingLive
<1>3. TokensArePrivate'
  <2>1. ASSUME rotates, NEW r \in Tokens, Known(r)', NEW t \in Turns, Answered(t)' PROVE answer'[t].refresh # r
    BY <2>1 DEF TokensArePrivate
  <2>2. ASSUME rotates, NEW r \in Tokens, Known(r)', NEW p \in Processes, granted'[p] # NoCred
        PROVE  granted'[p].refresh # r
    BY <2>2 DEF TokensArePrivate
  <2> QED BY <1>1, <2>1, <2>2 DEF TokensArePrivate
<1>4. TokensIssued'
  BY <1>1 DEF TokensIssued
<1> QED BY <1>2, <1>3, <1>4

(* What is on its way, when nothing arrives and nothing is issued.         *)
LEMMA TokensStay ==
  ASSUME CredTypeOK, PendingLive, TokensArePrivate, TokensIssued, UNCHANGED issuerVars,
         \A r \in Tokens : Known(r)' => Known(r),
         \A t \in Turns : Answered(t)' => InFlight(t)' /\ Answered(t) /\ answer'[t] = answer[t],
         \A p \in Processes : granted'[p] # NoCred => granted'[p] = granted[p]
  PROVE  PendingLive' /\ TokensArePrivate' /\ TokensIssued'
<1>1. 0 \in 0 .. issued /\ \A r \in live : r # 0
  BY CredentialsAssumption DEF CredTypeOK
<1>2. \A t \in Turns : Answered(t) => answer[t].refresh # 0
  BY <1>1 DEF PendingLive
<1>3. \A p \in Processes : granted[p] # NoCred => granted[p].refresh # 0
  BY <1>1 DEF PendingLive
<1> QED BY <1>1, <1>2, <1>3, TokensQuiet

(* A token is issued: every other keeps its place, and one that is known   *)
(* may be used up.                                                         *)
LEMMA IssuedIsNew ==
  ASSUME CredTypeOK, PendingLive, TokensIssued
  PROVE  /\ ~Known(issued + 1) \/ issued + 1 \notin Tokens
         /\ issued + 1 # 0
         /\ \A t \in Turns : Answered(t) => answer[t].refresh # issued + 1 /\ answer[t].refresh \in Tokens
         /\ \A p \in Processes : granted[p] # NoCred => granted[p].refresh # issued + 1 /\ granted[p].refresh \in Tokens
<1>1. /\ issued \in 0 .. MaxIssued /\ MaxIssued \in Nat /\ live \subseteq 1 .. issued
  BY CredentialsAssumption DEF CredTypeOK
<1>2. issued \in Nat /\ issued + 1 # 0 /\ ~(issued + 1 <= issued) /\ \A r \in 1 .. issued : r # issued + 1 /\ r \in Tokens
  BY <1>1 DEF Tokens
<1> QED BY <1>1, <1>2 DEF PendingLive, TokensIssued

LEMMA AnswersTokens ==
  ASSUME CredTypeOK, CredTypeOK', PendingLive, TokensArePrivate, TokensIssued,
         NEW t \in Turns, IssuerAnswers(t)
  PROVE  PendingLive' /\ TokensArePrivate' /\ TokensIssued'
<1>1. /\ asked' = asked /\ UNCHANGED <<rowVars, held, loginVars, wordVars>> /\ InFlight(t)
      /\ answer[t] = NoCred /\ asked[t] \in Credential
      /\ \A u \in Turns : u # t => answer'[u] = answer[u]
  BY DEF IssuerAnswers, CredTypeOK, InFlight
<1>2. \A r \in Tokens : Known(r)' <=> Known(r)
  BY <1>1 DEF Known, rowVars
<1>3. \A u \in Turns : u # t => (Answered(u)' <=> Answered(u)) /\ (InFlight(u)' <=> InFlight(u))
  BY <1>1 DEF Answered, InFlight
<1>4. ~Answered(t) /\ granted' = granted /\ InFlight(t)'
  BY <1>1 DEF Answered, InFlight, loginVars
<1>5. CASE answer' = [answer EXCEPT ![t] = Refused] /\ UNCHANGED issuerVars
  <2>1. ~Answered(t)'
    BY <1>5 DEF Answered, CredTypeOK
  <2> QED BY <1>1, <1>2, <1>3, <1>4, <1>5, <2>1, TokensStay DEF PendingLive
<1>6. CASE Refresh(asked[t]) /\ answer' = [answer EXCEPT ![t] = Refreshed(asked[t])]
  <2>1. answer'[t] = Successor(asked[t])
    BY <1>6 DEF Refreshed, CredTypeOK
  <2>2. /\ rotates' = rotates /\ answer'[t].refresh \in live' /\ issued <= issued'
        /\ \A r \in live : r # asked[t].refresh => r \in live'
        /\ rotates => issued' = issued + 1 /\ answer'[t].refresh = issued'
        /\ ~rotates => issued' = issued /\ live' = live
    BY <1>1, <1>6, <2>1, RefreshTypes
  <2>3. Known(asked[t].refresh) /\ asked[t].refresh \in Tokens
    BY <1>1 DEF Known, Credential
  <2>4. issued \in Nat /\ issued' \in Nat /\ issued' <= MaxIssued
    BY CredentialsAssumption DEF CredTypeOK
  <2>5. TokensIssued'
    BY <1>2, <2>2, <2>4 DEF TokensIssued, Tokens
  <2>6. PendingLive'
    <3>1. ASSUME NEW u \in Turns, Answered(u)' PROVE InFlight(u)' /\ answer'[u].refresh \in live'
      <4>1. CASE u # t
        <5>1. Answered(u) /\ answer'[u] = answer[u] /\ answer[u].refresh \in live /\ InFlight(u)'
          BY <1>1, <1>3, <3>1, <4>1 DEF PendingLive
        <5>2. rotates => answer[u].refresh # asked[t].refresh
          BY <2>3, <5>1 DEF TokensArePrivate
        <5> QED BY <2>2, <5>1, <5>2
      <4> QED BY <1>4, <2>2, <4>1
    <3>2. ASSUME NEW p \in Processes, granted'[p] # NoCred PROVE granted'[p].refresh \in live'
      <4>1. granted[p].refresh \in live
        BY <1>4, <3>2 DEF PendingLive
      <4>2. rotates => granted[p].refresh # asked[t].refresh
        BY <1>4, <2>3, <3>2 DEF TokensArePrivate
      <4> QED BY <1>4, <2>2, <4>1, <4>2
    <3> QED BY <2>2, <3>1, <3>2 DEF PendingLive
  <2>7. TokensArePrivate'
    <3>1. SUFFICES ASSUME rotates PROVE TokensArePrivate'
      BY <2>2 DEF TokensArePrivate
    <3>2. answer'[t].refresh = issued + 1 /\ issued + 1 \in Tokens /\ ~Known(issued + 1)
      BY <2>2, <2>4, <3>1, IssuedIsNew DEF Tokens
    <3>3. \A u \in Turns : Answered(u) => answer[u].refresh # issued + 1 /\ answer[u].refresh \in Tokens
      BY IssuedIsNew
    <3>4. \A p \in Processes : granted[p] # NoCred => granted[p].refresh # issued + 1 /\ granted[p].refresh \in Tokens
      BY IssuedIsNew
    <3>5. ASSUME NEW r \in Tokens, Known(r)'
          PROVE  /\ \A u \in Turns : Answered(u)' => answer'[u].refresh # r
                 /\ \A p \in Processes : granted'[p] # NoCred => granted'[p].refresh # r
      <4>1. Known(r) /\ r # issued + 1
        BY <1>2, <3>2, <3>5
      <4> QED BY <1>1, <1>3, <1>4, <3>1, <3>2, <4>1 DEF TokensArePrivate
    <3>6. ASSUME NEW u \in Turns, Answered(u)', u # t PROVE answer'[u].refresh # answer'[t].refresh
      BY <1>1, <1>3, <3>2, <3>3, <3>6
    <3>7. ASSUME NEW p \in Processes, granted'[p] # NoCred PROVE granted'[p].refresh # answer'[t].refresh
      BY <1>4, <3>2, <3>4, <3>7
    <3> QED BY <1>1, <1>3, <1>4, <3>1, <3>5, <3>6, <3>7 DEF TokensArePrivate
  <2> QED BY <2>5, <2>6, <2>7
<1> QED BY <1>5, <1>6 DEF IssuerAnswers

(* A container's refresh, and a login's tokens.                            *)
LEMMA ContainerTokens ==
  ASSUME CredTypeOK, CredTypeOK', PendingLive, TokensArePrivate, TokensIssued,
         NEW c \in held, ContainerRefreshes(c)
  PROVE  PendingLive' /\ TokensArePrivate' /\ TokensIssued'
<1>1. /\ UNCHANGED <<store, asked, answer, loginVars>> /\ granted' = granted
      /\ held' = (held \ {c}) \cup {Successor(c)} /\ c \in Credential
  BY DEF ContainerRefreshes, CredTypeOK, loginVars
<1>2. /\ rotates' = rotates /\ issued <= issued'
      /\ \A r \in live : r # c.refresh => r \in live'
      /\ rotates => issued' = issued + 1 /\ Successor(c).refresh = issued'
      /\ ~rotates => issued' = issued /\ live' = live /\ Successor(c) = c
  BY <1>1, RefreshTypes DEF ContainerRefreshes
<1>3. /\ \A u \in Turns : (Answered(u)' <=> Answered(u)) /\ (InFlight(u)' <=> InFlight(u))
      /\ Known(c.refresh) /\ c.refresh \in Tokens
  BY <1>1 DEF Answered, InFlight, Known, Credential
<1>4. \A r \in Tokens : Known(r)' => Known(r) \/ r = Successor(c).refresh
  BY <1>1 DEF Known
<1>5. CASE ~rotates
  <2>1. held' = held /\ issued' = issued /\ live' = live
    BY <1>1, <1>2, <1>5
  <2>2. \A r \in Tokens : Known(r)' => Known(r)
    BY <1>1, <2>1 DEF Known
  <2> QED BY <1>1, <1>2, <1>3, <2>1, <2>2, TokensStay DEF issuerVars, PendingLive
<1>6. CASE rotates
  <2>1. issued' = issued + 1 /\ issued \in Nat
    BY CredentialsAssumption, <1>2, <1>6 DEF CredTypeOK
  <2>2. TokensIssued'
    <3>1. ASSUME NEW r \in Tokens, Known(r)' PROVE r <= issued'
      <4>1. CASE Known(r)
        BY <2>1, <4>1 DEF TokensIssued, Tokens
      <4>2. CASE r = issued'
        BY <2>1, <4>2
      <4> QED BY <1>2, <1>4, <1>6, <3>1, <4>1, <4>2
    <3> QED BY <3>1 DEF TokensIssued
  <2>3. PendingLive'
    <3>1. ASSUME NEW u \in Turns, Answered(u)' PROVE InFlight(u)' /\ answer'[u].refresh \in live'
      <4>1. InFlight(u) /\ answer[u].refresh \in live
        BY <1>3, <3>1 DEF PendingLive
      <4>2. answer[u].refresh # c.refresh
        BY <1>3, <1>6, <3>1 DEF TokensArePrivate
      <4> QED BY <1>1, <1>2, <1>3, <4>1, <4>2
    <3>2. ASSUME NEW p \in Processes, granted'[p] # NoCred PROVE granted'[p].refresh \in live'
      <4>1. granted[p].refresh \in live
        BY <1>1, <3>2 DEF PendingLive
      <4>2. granted[p].refresh # c.refresh
        BY <1>1, <1>3, <1>6, <3>2 DEF TokensArePrivate
      <4> QED BY <1>1, <1>2, <4>1, <4>2
    <3> QED BY <1>2, <1>6, <3>1, <3>2 DEF PendingLive
  <2>4. TokensArePrivate'
    <3>1. ASSUME NEW r \in Tokens, Known(r)'
          PROVE  /\ \A u \in Turns : Answered(u)' => answer'[u].refresh # r
                 /\ \A p \in Processes : granted'[p] # NoCred => granted'[p].refresh # r
      <4>1. CASE Known(r)
        BY <1>1, <1>3, <1>6, <4>1 DEF TokensArePrivate
      <4>2. CASE r = issued + 1
        BY <1>1, <1>3, <4>2, IssuedIsNew
      <4> QED BY <1>2, <1>4, <1>6, <3>1, <4>1, <4>2
    <3> QED BY <1>1, <1>2, <1>3, <1>6, <3>1 DEF TokensArePrivate
  <2> QED BY <2>2, <2>3, <2>4
<1> QED BY <1>5, <1>6

LEMMA GrantingTokens ==
  ASSUME CredTypeOK, CredTypeOK', PendingLive, TokensArePrivate, TokensIssued,
         NEW p \in Processes, Granting(p), UNCHANGED <<rowVars, turnVars>>
  PROVE  PendingLive' /\ TokensArePrivate' /\ TokensIssued'
<1>1. /\ UNCHANGED <<store, asked, answer, held>>
      /\ issued' = issued + 1 /\ live' = live \cup {issued + 1} /\ rotates' = rotates
  BY DEF Granting, rowVars, turnVars
<1>2. /\ granted'[p].refresh = issued + 1
      /\ \A q \in Processes : q # p => granted'[q] = granted[q]
  <2>1. PICK a \in AccountsOf[p] : granted' = [granted EXCEPT ![p] = [refresh |-> issued', account |-> a]]
    BY DEF Granting
  <2> QED BY <1>1, <2>1 DEF CredTypeOK
<1>3. /\ \A u \in Turns : (Answered(u)' <=> Answered(u)) /\ (InFlight(u)' <=> InFlight(u))
      /\ \A r \in Tokens : Known(r)' <=> Known(r)
  BY <1>1 DEF Answered, InFlight, Known
<1>4. issued \in Nat
  BY CredentialsAssumption DEF CredTypeOK
<1>5. TokensIssued'
  BY <1>1, <1>3, <1>4 DEF TokensIssued, Tokens
<1>6. PendingLive'
  <2>1. live = 1 .. issued => live' = 1 .. issued'
    BY <1>1, <1>4
  <2>2. ASSUME NEW q \in Processes, granted'[q] # NoCred PROVE granted'[q].refresh \in live'
    BY <1>1, <1>2, <2>2 DEF PendingLive
  <2> QED BY <1>1, <1>3, <2>1, <2>2 DEF PendingLive
<1>7. TokensArePrivate'
  <2>1. SUFFICES ASSUME rotates PROVE TokensArePrivate'
    BY <1>1 DEF TokensArePrivate
  <2>2. ASSUME NEW r \in Tokens, Known(r)'
        PROVE  /\ \A u \in Turns : Answered(u)' => answer'[u].refresh # r
               /\ \A q \in Processes : granted'[q] # NoCred => granted'[q].refresh # r
    <3>1. Known(r) /\ r # issued + 1
      BY <1>3, <2>2, IssuedIsNew
    <3> QED BY <1>1, <1>2, <1>3, <2>1, <3>1 DEF TokensArePrivate
  <2>3. \A u \in Turns : Answered(u)' => answer'[u].refresh # granted'[p].refresh
    BY <1>1, <1>2, <1>3, IssuedIsNew
  <2>4. \A q \in Processes : q # p /\ granted'[q] # NoCred => granted'[q].refresh # granted'[p].refresh
    BY <1>2, IssuedIsNew
  <2> QED BY <1>1, <1>2, <1>3, <2>1, <2>2, <2>3, <2>4 DEF TokensArePrivate
<1> QED BY <1>5, <1>6, <1>7

LEMMA TokensStep ==
  ASSUME CredTypeOK, CredTypeOK', PortFreed, PendingLive, TokensArePrivate, TokensIssued,
         [CredNext]_credVars
  PROVE  PendingLive' /\ TokensArePrivate' /\ TokensIssued'
<1> USE DEF rowVars, turnVars, loginVars, wordVars
<1>0. \A t \in Turns : Answered(t) => InFlight(t)
  BY DEF PendingLive
<1>1. ASSUME UNCHANGED <<store, asked, answer, held, granted, issuerVars>>
      PROVE  PendingLive' /\ TokensArePrivate' /\ TokensIssued'
  BY <1>0, <1>1, TokensStay DEF Known, Answered, InFlight
<1>2. ASSUME NEW t \in Turns, Call(t)
      PROVE  PendingLive' /\ TokensArePrivate' /\ TokensIssued'
  <2>1. \A u \in Turns : asked'[u] = asked[u] \/ (u = t /\ asked'[u] = store)
    BY <1>2 DEF Call, CredTypeOK
  <2>2. held' \subseteq held \cup {store} /\ store' = store /\ answer' = answer /\ granted' = granted
        /\ UNCHANGED issuerVars
    BY <1>2 DEF Call, Returns
  <2>3. \A r \in Tokens : Known(r)' => Known(r)
    BY <2>1, <2>2 DEF Known
  <2>4. \A u \in Turns : Answered(u)' => InFlight(u)' /\ Answered(u) /\ answer'[u] = answer[u]
    BY <1>0, <1>2, <2>1, <2>2 DEF Call, Answered, InFlight
  <2> QED BY <2>2, <2>3, <2>4, TokensStay
<1>3. ASSUME NEW t \in Turns, AnswerArrives(t)
      PROVE  PendingLive' /\ TokensArePrivate' /\ TokensIssued'
  <2>1. /\ \A u \in Turns : /\ asked'[u] = IF u = t THEN NoCred ELSE asked[u]
                            /\ answer'[u] = IF u = t THEN NoCred ELSE answer[u]
        /\ granted' = granted /\ UNCHANGED issuerVars
    BY <1>3 DEF AnswerArrives, Forget, CredTypeOK
  <2>2. \A u \in Turns : Answered(u)' => InFlight(u)' /\ Answered(u) /\ answer'[u] = answer[u] /\ u # t
    BY <1>0, <2>1 DEF Answered, InFlight
  <2>3. CASE Answered(t)
    <3>1. store' = answer[t] /\ held' \subseteq held \cup {answer[t]}
      BY <1>3, <2>3 DEF AnswerArrives, Write, Returns
    <3>2. \A r \in Tokens : Known(r)' => Known(r) \/ r = answer[t].refresh
      BY <2>1, <3>1 DEF Known, Tokens, NoCred
    <3>3. answer[t].refresh \in 0 .. issued
      <4>1. answer[t].refresh \in live
        BY <2>3 DEF PendingLive
      <4>2. live \subseteq 1 .. issued /\ issued \in 0 .. MaxIssued
        BY DEF CredTypeOK
      <4>3. issued \in Nat /\ 1 .. issued \subseteq 0 .. issued
        BY <4>2, CredentialsAssumption
      <4> QED BY <4>1, <4>2, <4>3
    <3>4. \A u \in Turns : Answered(u)' =>
            InFlight(u)' /\ Answered(u) /\ answer'[u] = answer[u]
            /\ (rotates => answer[u].refresh # answer[t].refresh)
      BY <2>2, <2>3 DEF TokensArePrivate
    <3>5. \A p \in Processes : granted'[p] # NoCred =>
            granted[p] # NoCred /\ granted'[p] = granted[p]
            /\ (rotates => granted[p].refresh # answer[t].refresh)
      BY <2>1, <2>3 DEF TokensArePrivate
    <3> QED BY <2>1, <3>2, <3>3, <3>4, <3>5, TokensQuiet
  <2>4. CASE ~Answered(t)
    <3>1. store' = store /\ held' = held
      BY <1>3, <2>4 DEF AnswerArrives
    <3>2. \A r \in Tokens : Known(r)' => Known(r)
      BY <2>1, <3>1 DEF Known, Tokens, NoCred
    <3> QED BY <2>1, <2>2, <3>2, TokensStay
  <2> QED BY <2>3, <2>4
<1>4. ASSUME NEW t \in Turns, AnswerLost(t)
      PROVE  PendingLive' /\ TokensArePrivate' /\ TokensIssued'
  <2>1. /\ \A u \in Turns : /\ asked'[u] = IF u = t THEN NoCred ELSE asked[u]
                            /\ answer'[u] = IF u = t THEN NoCred ELSE answer[u]
        /\ UNCHANGED <<granted, store, held, issuerVars>>
    BY <1>4 DEF AnswerLost, LoseAnswers, Forget, CredTypeOK
  <2>2. \A u \in Turns : Answered(u)' => InFlight(u)' /\ Answered(u) /\ answer'[u] = answer[u]
    BY <1>0, <2>1 DEF Answered, InFlight
  <2>3. \A r \in Tokens : Known(r)' => Known(r)
    BY <2>1 DEF Known, Tokens, NoCred
  <2> QED BY <2>1, <2>2, <2>3, TokensStay
<1>5. ASSUME NEW p \in Processes, LoginStep(p)
      PROVE  PendingLive' /\ TokensArePrivate' /\ TokensIssued'
  <2>1. CASE Quiet /\ UNCHANGED <<rowVars, issuerVars, wordVars, turnVars>>
    <3>1. \A u \in Turns : Answered(u)' => InFlight(u)' /\ Answered(u) /\ answer'[u] = answer[u]
      BY <1>0, <2>1 DEF Answered, InFlight
    <3>2. \A r \in Tokens : Known(r)' => Known(r)
      BY <2>1 DEF Known
    <3> QED BY <2>1, <3>1, <3>2, TokensStay DEF Quiet
  <2>2. CASE Granting(p) /\ UNCHANGED <<rowVars, wordVars, turnVars>>
    BY <2>2, GrantingTokens
  <2>3. CASE Quiet /\ Storing(p)
    <3>0. Ends(p)
      BY <2>3 DEF Storing
    <3>1. granted'[p] = NoCred /\ \A q \in Processes : q # p => granted'[q] = granted[q]
      BY <3>0 DEF Ends, CredTypeOK
    <3>2. /\ store' = granted[p] /\ UNCHANGED <<asked, answer, held, issuerVars>>
          /\ granted[p] # NoCred
      BY <2>3 DEF Storing, Write, CredTypeOK
    <3>3. \A r \in Tokens : Known(r)' => Known(r) \/ r = granted[p].refresh
      BY <3>2 DEF Known
    <3>4. granted[p].refresh \in 0 .. issued
      BY <3>2, CredentialsAssumption DEF PendingLive, CredTypeOK
    <3>5. \A u \in Turns : Answered(u)' =>
            InFlight(u)' /\ Answered(u) /\ answer'[u] = answer[u]
            /\ (rotates => answer[u].refresh # granted[p].refresh)
      BY <1>0, <3>2 DEF TokensArePrivate, Answered, InFlight
    <3>6. \A q \in Processes : granted'[q] # NoCred =>
            granted[q] # NoCred /\ granted'[q] = granted[q]
            /\ (rotates => granted[q].refresh # granted[p].refresh)
      BY <3>1, <3>2 DEF TokensArePrivate
    <3> QED BY <3>2, <3>3, <3>4, <3>5, <3>6, TokensQuiet
  <2> QED BY <1>5, <2>1, <2>2, <2>3, LoginCases
<1>6. ASSUME NEW p \in Processes, ProcessEnds(p)
      PROVE  PendingLive' /\ TokensArePrivate' /\ TokensIssued'
  <2>1. /\ \A u \in Turns : \/ asked'[u] = NoCred /\ answer'[u] = NoCred
                            \/ asked'[u] = asked[u] /\ answer'[u] = answer[u]
        /\ UNCHANGED <<store, held, issuerVars>>
        /\ \A q \in Processes : granted'[q] # NoCred => granted'[q] = granted[q]
    BY <1>6 DEF ProcessEnds, LoseAnswers, Ends, CredTypeOK
  <2>2. \A u \in Turns : Answered(u)' => InFlight(u)' /\ Answered(u) /\ answer'[u] = answer[u]
    BY <1>0, <2>1 DEF Answered, InFlight
  <2>3. \A r \in Tokens : Known(r)' => Known(r)
    BY <2>1 DEF Known, Tokens, NoCred
  <2> QED BY <2>1, <2>2, <2>3, TokensStay
<1>7. CASE Logout
  <2>1. UNCHANGED <<asked, answer, held, granted, issuerVars>> /\ store' = NoCred
    BY <1>7 DEF Logout, Write
  <2>2. \A r \in Tokens : Known(r)' => Known(r)
    BY <2>1 DEF Known, Tokens, NoCred
  <2> QED BY <1>0, <2>1, <2>2, TokensStay DEF Answered, InFlight
<1>8. ASSUME NEW c \in held, ContainerEnds(c)
      PROVE  PendingLive' /\ TokensArePrivate' /\ TokensIssued'
  <2>1. UNCHANGED <<store, asked, answer, granted, issuerVars>> /\ held' \subseteq held
    BY <1>8 DEF ContainerEnds
  <2>2. \A r \in Tokens : Known(r)' => Known(r)
    BY <2>1 DEF Known
  <2> QED BY <1>0, <2>1, <2>2, TokensStay DEF Answered, InFlight
<1>9. CASE AccessExpires
  BY <1>1, <1>9 DEF AccessExpires
<1>10. CASE UNCHANGED credVars
  BY <1>1, <1>10 DEF credVars
<1> QED BY <1>2, <1>3, <1>4, <1>5, <1>6, <1>7, <1>8, <1>9, <1>10, AnswersTokens, ContainerTokens DEF CredNext
-----------------------------------------------------------------------------

(* Whoever uses the row's token up: either its successor is on its way, or *)
(* it is lost.  Tokens on their way are accepted (PendingLive), so what    *)
(* arrives is good.                                                        *)
LEMMA StrandStep ==
  ASSUME CredTypeOK, CredTypeOK', PortFreed, NotStranded, PendingLive, [CredNext]_credVars
  PROVE  NotStranded'
<1> USE DEF rowVars, turnVars, loginVars, wordVars
<1>0. \A t \in Turns : Answered(t) => InFlight(t)
  BY DEF PendingLive
<1>1. ASSUME UNCHANGED <<store, lost>>, live \subseteq live',
             \A t \in Turns : Answered(t) => Answered(t)' /\ asked'[t] = asked[t]
      PROVE  NotStranded'
  <2>1. ASSUME store # NoCred, ~lost PROVE
          store.refresh \in live' \cup {asked'[t].refresh : t \in {u \in Turns : Answered(u)'}}
    <3>1. store.refresh \in live \/ \E t \in Turns : Answered(t) /\ store.refresh = asked[t].refresh
      BY <2>1 DEF NotStranded
    <3> QED BY <1>1, <3>1
  <2> QED BY <1>1, <2>1 DEF NotStranded
<1>2. ASSUME NEW cred \in Credential, store' = cred, cred.refresh \in live' PROVE NotStranded'
  BY <1>2 DEF NotStranded
<1>3. ASSUME UNCHANGED <<store, live>>, NEW turns \in SUBSET Turns, LoseAnswers(turns),
             \A t \in Turns \ turns : Answered(t) => Answered(t)' /\ asked'[t] = asked[t]
      PROVE  NotStranded'
  <2>1. ASSUME store # NoCred, ~lost' PROVE
          store.refresh \in live' \cup {asked'[t].refresh : t \in {u \in Turns : Answered(u)'}}
    <3>1. ~lost /\ \A t \in turns : Answered(t) => asked[t].refresh # store.refresh
      BY <1>3, <2>1 DEF LoseAnswers
    <3>2. store.refresh \in live \/ \E t \in Turns : Answered(t) /\ store.refresh = asked[t].refresh
      BY <2>1, <3>1 DEF NotStranded
    <3> QED BY <1>3, <3>1, <3>2
  <2> QED BY <1>3, <2>1 DEF NotStranded
<1>4. ASSUME NEW t \in Turns, Call(t) PROVE NotStranded'
  <2>1. \A u \in Turns : u # t => asked'[u] = asked[u]
    BY <1>4 DEF Call, CredTypeOK
  <2>2. ~Answered(t) /\ answer' = answer
    BY <1>0, <1>4 DEF Call
  <2> QED BY <1>1, <1>4, <2>1, <2>2 DEF Call, Answered, issuerVars
<1>5. ASSUME NEW t \in Turns, IssuerAnswers(t) PROVE NotStranded'
  <2>1. /\ UNCHANGED <<store, lost, asked>> /\ ~Answered(t) /\ asked[t] \in Credential
        /\ \A u \in Turns : u # t => answer'[u] = answer[u]
    BY <1>5 DEF IssuerAnswers, Answered, InFlight, CredTypeOK
  <2>2. \A u \in Turns : Answered(u) => Answered(u)' /\ asked'[u] = asked[u]
    BY <2>1 DEF Answered
  <2>3. CASE UNCHANGED issuerVars
    BY <1>1, <2>1, <2>2, <2>3 DEF issuerVars
  <2>4. CASE Refresh(asked[t]) /\ answer' = [answer EXCEPT ![t] = Refreshed(asked[t])]
    <3>1. Successor(asked[t]) \in Credential /\ \A r \in live : r # asked[t].refresh => r \in live'
      BY <2>1, <2>4, RefreshTypes
    <3>2. answer'[t] \in Credential
      BY <2>4, <3>1 DEF Refreshed, CredTypeOK
    <3>3. Answered(t)'
      BY <3>2 DEF Answered, Credential, NoCred, Refused, Tokens
    <3>4. ASSUME store # NoCred, ~lost PROVE
            store.refresh \in live' \cup {asked[u].refresh : u \in {v \in Turns : Answered(v)'}}
      BY <2>2, <3>1, <3>3, <3>4 DEF NotStranded
    <3> QED BY <2>1, <3>4 DEF NotStranded
  <2> QED BY <1>5, <2>3, <2>4 DEF IssuerAnswers
<1>6. ASSUME NEW t \in Turns, AnswerArrives(t) PROVE NotStranded'
  <2>1. /\ asked' = [asked EXCEPT ![t] = NoCred] /\ answer' = [answer EXCEPT ![t] = NoCred]
        /\ live' = live
    BY <1>6 DEF AnswerArrives, Forget, issuerVars
  <2>2. CASE Answered(t)
    <3>1. store' = answer[t] /\ answer[t] \in Credential /\ answer[t].refresh \in live
      BY <1>6, <2>2 DEF AnswerArrives, Write, PendingLive, Answered, CredTypeOK
    <3> QED BY <1>2, <2>1, <3>1
  <2>3. CASE ~Answered(t)
    <3>1. \A u \in Turns : Answered(u) => Answered(u)' /\ asked'[u] = asked[u]
      BY <2>1, <2>3 DEF Answered, CredTypeOK
    <3> QED BY <1>1, <1>6, <2>1, <2>3, <3>1 DEF AnswerArrives
  <2> QED BY <2>2, <2>3
<1>7. ASSUME NEW t \in Turns, AnswerLost(t) PROVE NotStranded'
  <2>1. \A u \in Turns \ {t} : Answered(u) => Answered(u)' /\ asked'[u] = asked[u]
    BY <1>7 DEF AnswerLost, Forget, Answered, CredTypeOK
  <2>2. LoseAnswers({t}) /\ live' = live /\ {t} \in SUBSET Turns
    BY <1>7 DEF AnswerLost, issuerVars
  <2>3. store' = store
    BY <2>2 DEF LoseAnswers
  <2> QED BY <1>3, <2>1, <2>2, <2>3
<1>8. ASSUME NEW c \in held, ContainerRefreshes(c) PROVE NotStranded'
  <2>1. /\ UNCHANGED <<store, asked, answer>> /\ lost' = (lost \/ c.refresh = store.refresh) /\ c \in Credential
    BY <1>8 DEF ContainerRefreshes, CredTypeOK
  <2>2. \A r \in live : r # c.refresh => r \in live'
    BY <1>8, <2>1, RefreshTypes DEF ContainerRefreshes
  <2> QED BY <2>1, <2>2 DEF NotStranded, Answered
<1>9. ASSUME NEW p \in Processes, LoginStep(p) PROVE NotStranded'
  <2>1. CASE Storing(p)
    <3>1. store' = granted[p] /\ granted[p] \in Credential /\ granted[p].refresh \in live /\ live' = live
      BY <2>1 DEF Storing, Write, PendingLive, CredTypeOK, issuerVars
    <3> QED BY <1>2, <3>1
  <2>2. CASE UNCHANGED <<rowVars, turnVars>> /\ live \subseteq live'
    BY <1>1, <2>2 DEF Answered
  <2>3. CASE Granting(p) /\ UNCHANGED <<rowVars, wordVars, turnVars>>
    <3>1. live \subseteq live'
      BY <2>3 DEF Granting
    <3> QED BY <2>2, <2>3, <3>1
  <2>4. CASE UNCHANGED <<rowVars, issuerVars, wordVars, turnVars>>
    <3>1. live \subseteq live' /\ UNCHANGED <<rowVars, turnVars>>
      BY <2>4 DEF issuerVars
    <3> QED BY <2>2, <3>1
  <2> QED BY <1>9, <2>1, <2>3, <2>4, LoginCases
<1>10. ASSUME NEW p \in Processes, ProcessEnds(p) PROVE NotStranded'
  <2>1. CASE p = "server"
    BY <1>3, <1>10, <2>1 DEF ProcessEnds, issuerVars, LoseAnswers
  <2>2. CASE p # "server"
    BY <1>1, <1>10, <2>2 DEF ProcessEnds, issuerVars, Answered
  <2> QED BY <2>1, <2>2
<1>11. CASE Logout
  BY <1>11 DEF Logout, Write, NotStranded
<1>12. ASSUME UNCHANGED <<store, lost, asked, answer, issuerVars>> PROVE NotStranded'
  BY <1>1, <1>12 DEF Answered, issuerVars
<1>13. CASE UNCHANGED credVars \/ AccessExpires \/ (\E c \in held : ContainerEnds(c))
  BY <1>12, <1>13 DEF credVars, AccessExpires, ContainerEnds
<1> QED BY <1>4, <1>5, <1>6, <1>7, <1>8, <1>9, <1>10, <1>11, <1>13 DEF CredNext
-----------------------------------------------------------------------------

CredInv ==
  CredTypeOK /\ PortFreed /\ WordsFollow /\ NotStranded /\ PendingLive /\ TokensArePrivate /\ TokensIssued

LEMMA CredInvHolds == CredSpec => []CredInv
<1>1. CredInit => CredInv
  <2> SUFFICES ASSUME CredInit PROVE CredInv
    OBVIOUS
  <2>1. CredTypeOK /\ PortFreed
    BY CredInit_Type
  <2>2. \A t \in Turns : asked[t] = NoCred /\ answer[t] = NoCred
    BY DEF CredInit
  <2>3. \A p \in Processes : granted[p] = NoCred
    BY DEF CredInit
  <2>4. store = NoCred /\ lastWord = None /\ issued = 0 /\ live = {} /\ held = {}
    BY DEF CredInit
  <2>5. \A r \in Tokens : ~Known(r)
    BY <2>2, <2>4 DEF Known, Tokens, NoCred
  <2>6. WordsFollow /\ NotStranded
    BY <2>2, <2>4 DEF WordsFollow, LastWordCounts, NotStranded, Answered, InFlight, NoCred
  <2>7. live = 1 .. issued
    BY <2>4
  <2>8. PendingLive /\ TokensArePrivate /\ TokensIssued
    BY <2>2, <2>3, <2>5, <2>7 DEF PendingLive, TokensArePrivate, TokensIssued, Answered
  <2> QED BY <2>1, <2>6, <2>8 DEF CredInv
<1>2. CredInv /\ [CredNext]_credVars => CredInv'
  <2> SUFFICES ASSUME CredInv, [CredNext]_credVars PROVE CredInv'
    OBVIOUS
  <2>1. CredTypeOK' /\ PortFreed'
    BY CredStep_Type DEF CredInv
  <2> QED BY <2>1, WordsStep, TokensStep, StrandStep DEF CredInv
<1> QED BY <1>1, <1>2, PTL DEF CredSpec

(* Row, requests, answers and tokens are credentials of the issuer, and a  *)
(* login has tokens exactly when it was granted some (login, Ends).        *)
THEOREM CredentialTypes == CredSpec => []CredTypeOK
<1>1. CredInv => CredTypeOK
  BY DEF CredInv
<1> QED BY <1>1, CredInvHolds, PTL

(* The callback server is closed with the login that opened it, whichever  *)
(* way that ends (the finally block of loginWithOAuth).                    *)
THEOREM PortIsFreed == CredSpec => []PortFreed
<1>1. CredInv => PortFreed
  BY DEF CredInv
<1> QED BY <1>1, CredInvHolds, PTL

(* Refreshes in any number and order keep a refresh token in the row that  *)
(* the issuer accepts, whether it rotates them or not (refreshIfNeeded).   *)
THEOREM RowIsNotStranded == CredSpec => []NotStranded
<1>1. CredInv => NotStranded
  BY DEF CredInv
<1> QED BY <1>1, CredInvHolds, PTL

(* The account in the row is the one the last login or logout left, but    *)
(* for a refresh that was under way then (setOAuthCredential, clear).      *)
THEOREM LastWordStands == CredSpec => []LastWordCounts
<1>1. CredInv => LastWordCounts
  BY DEF CredInv, WordsFollow
<1> QED BY <1>1, CredInvHolds, PTL
=============================================================================
