---------------------------- MODULE Credentials -----------------------------
(***************************************************************************)
(* The credential of the provider openai-codex                             *)
(* (src/src/auth/provider-auth-service.ts, openai-codex-auth-service.ts).  *)
(* One row of the database holds it.  Turns of agents refresh it when its  *)
(* access token is about to expire, each for itself; logins replace it and *)
(* a logout deletes it, from the main group's commands or from the command *)
(* line, a second process.                                                 *)
(*                                                                         *)
(* The issuer of the tokens is external.  It either keeps a refresh token  *)
(* or, if it rotates, takes it back when it has been used and issues       *)
(* another.  An access token is reduced to whether it is about to expire.  *)
(***************************************************************************)
EXTENDS Integers, FiniteSets

CONSTANTS
  Turns,       (* calls of refreshIfNeeded that may be under way at once   *)
  Accounts,    (* accounts of the provider                                 *)
  AccountsOf,  (* those a login of each process may turn out to be for     *)
  Mishaps,     (* what may go wrong: subset of the three below             *)
  MaxIssued    (* bound of the model: refresh tokens the issuer hands out  *)

None == "none"
Processes == {"server", "cli"}

ASSUME CredentialsAssumption ==
  /\ None \notin Accounts
  /\ AccountsOf \in [Processes -> SUBSET Accounts]
  /\ Mishaps \subseteq {"lost", "crash", "container"}
  /\ MaxIssued \in Nat

Tokens == 1 .. MaxIssued
Credential == [refresh : Tokens, account : Accounts]
NoCred == [refresh |-> 0, account |-> None]
Refused == [refresh |-> 0, account |-> "refused"]

VARIABLES
  store,      (* the row of provider_auth, or NoCred                       *)
  expired,    (* its access token is about to expire or has expired        *)
  asked,      (* per turn: the credential it asks the issuer to refresh    *)
  answer,     (* per turn: the issuer's answer on its way, NoCred if none  *)
  held,       (* credentials containers were started with                  *)
  login,      (* per process: how far its login is                         *)
  granted,    (* per process: the credential its login was granted         *)
  port,       (* process that listens for the callback                     *)
  issued, live, rotates,   (* the issuer: refresh tokens so far, those it  *)
              (* accepts, its policy                                       *)
  lost,       (* history: the successor of the row's refresh token was     *)
              (* issued and never arrived                                  *)
  lastWord,   (* history: account of the last login, None after a logout   *)
  overtaken,  (* history: turns that had asked before it                   *)
  undone      (* history: one of them has written since                    *)

turnVars == <<asked, answer, held>>
loginVars == <<login, granted, port>>
rowVars == <<store, expired, lost>>
issuerVars == <<issued, live, rotates>>
wordVars == <<lastWord, overtaken, undone>>
credVars == <<rowVars, turnVars, loginVars, issuerVars, wordVars>>

CredInit ==
  /\ store = NoCred /\ expired = FALSE /\ lost = FALSE
  /\ asked = [t \in Turns |-> NoCred]
  /\ answer = [t \in Turns |-> NoCred]
  /\ held = {}
  /\ login = [p \in Processes |-> "none"]
  /\ granted = [p \in Processes |-> NoCred]
  /\ port = None
  /\ issued = 0 /\ live = {}
  /\ rotates \in BOOLEAN
  /\ lastWord = None /\ overtaken = {} /\ undone = FALSE

InFlight(t) == asked[t] # NoCred
Answered(t) == answer[t] \notin {NoCred, Refused}

(***************************************************************************)
(* The issuer.                                                             *)
(***************************************************************************)

Issue == issued < MaxIssued /\ issued' = issued + 1

(* A credential is refreshed: its successor, and what the issuer does.     *)
Successor(cred) == IF rotates THEN [cred EXCEPT !.refresh = issued + 1] ELSE cred
Refresh(cred) ==
  /\ cred.refresh \in live
  /\ IF rotates
     THEN Issue /\ live' = (live \ {cred.refresh}) \cup {issued'}
     ELSE UNCHANGED <<issued, live>>
  /\ UNCHANGED rotates

AccessExpires ==
  /\ store # NoCred /\ ~expired
  /\ expired' = TRUE
  /\ UNCHANGED <<store, lost, turnVars, loginVars, issuerVars, wordVars>>

(* A write of the row.                                                     *)
Write(cred) == store' = cred /\ expired' = FALSE /\ lost' = FALSE

(***************************************************************************)
(* refreshIfNeeded.  A turn calls it to create its session and again to    *)
(* start its container, which gets the credential.                         *)
(***************************************************************************)

Returns(cred) == held' \in {held, held \cup {cred}}

(* Up to the request to the issuer.  Without a credential the turn fails.  *)
Call(t) ==
  /\ ~InFlight(t) /\ store # NoCred
  /\ \/ ~expired /\ Returns(store) /\ asked' = asked
     \/ expired /\ asked' = [asked EXCEPT ![t] = store] /\ held' = held
  /\ UNCHANGED <<rowVars, answer, loginVars, issuerVars, wordVars>>

(* Mutant: the refresh token of the answer is not taken over.              *)
RefreshedKeeping(cred) == cred
Refreshed(cred) == Successor(cred)

IssuerAnswers(t) ==
  /\ InFlight(t) /\ answer[t] = NoCred
  /\ \/ Refresh(asked[t]) /\ answer' = [answer EXCEPT ![t] = Refreshed(asked[t])]
     \/ /\ asked[t].refresh \notin live
        /\ answer' = [answer EXCEPT ![t] = Refused]
        /\ UNCHANGED issuerVars
  /\ UNCHANGED <<rowVars, asked, held, loginVars, wordVars>>

Forget(t) ==
  /\ asked' = [asked EXCEPT ![t] = NoCred]
  /\ answer' = [answer EXCEPT ![t] = NoCred]
  /\ overtaken' = overtaken \ {t}

(* From the answer on: the credential is written over whatever the row     *)
(* holds by now, or the refusal is thrown.                                 *)
AnswerArrives(t) ==
  /\ InFlight(t) /\ answer[t] # NoCred
  /\ Forget(t)
  /\ IF Answered(t)
     THEN /\ Write(answer[t])
          /\ undone' = (undone \/ t \in overtaken)
          /\ Returns(answer[t])
     ELSE UNCHANGED <<rowVars, undone, held>>
  /\ UNCHANGED <<loginVars, issuerVars, lastWord>>

(* Some answers never arrive.                                              *)
LoseAnswers(turns) ==
  /\ lost' = (lost \/ \E t \in turns : Answered(t) /\ asked[t].refresh = store.refresh)
  /\ UNCHANGED <<store, expired>>

(* The request or its answer is lost: fetch rejects.                       *)
AnswerLost(t) ==
  /\ "lost" \in Mishaps /\ InFlight(t)
  /\ Forget(t)
  /\ LoseAnswers({t})
  /\ UNCHANGED <<held, loginVars, issuerVars, lastWord, undone>>

(* Codex in a container refreshes the credential it was given, which       *)
(* nobody tells the host.                                                  *)
ContainerRefreshes(cred) ==
  /\ "container" \in Mishaps
  /\ Refresh(cred)
  /\ held' = (held \ {cred}) \cup {Successor(cred)}
  /\ lost' = (lost \/ cred.refresh = store.refresh)
  /\ UNCHANGED <<store, expired, asked, answer, loginVars, wordVars>>

ContainerEnds(cred) ==
  /\ held' = held \ {cred}
  /\ UNCHANGED <<rowVars, asked, answer, loginVars, issuerVars, wordVars>>

(***************************************************************************)
(* login.  One at a time in the main group, whose run it is part of, and   *)
(* one on the command line.  Only the command line can ask its user for    *)
(* the code.  The main group's user is shown the messages of a login when  *)
(* it is over.                                                             *)
(***************************************************************************)

CanPrompt(p) == p = "cli"
Shown(p) == p = "cli"

(* finally: the callback server listens no longer, and the login returns   *)
(* when the connections of the browser are gone too.                       *)
(* Mutant: only after a success.                                           *)
ClosesOnSuccess(p) == port' = IF port = p /\ granted[p] # NoCred THEN None ELSE port
Closes(p) == port' = IF port = p THEN None ELSE port

AfterEnd(p) == IF port = p THEN "closing" ELSE "none"

(* Mutant: the tokens of a login are not forgotten with it.                *)
EndsKeepingTokens(p) ==
  /\ login' = [login EXCEPT ![p] = AfterEnd(p)]
  /\ UNCHANGED granted
  /\ Closes(p)
Ends(p) ==
  /\ login' = [login EXCEPT ![p] = AfterEnd(p)]
  /\ granted' = [granted EXCEPT ![p] = NoCred]
  /\ Closes(p)
Goes(p, phase) ==
  /\ login' = [login EXCEPT ![p] = phase]
  /\ UNCHANGED <<granted, port>>

(* Without a code the user is asked for one, or the login has failed.      *)
NoCode(p) == IF CanPrompt(p) THEN Goes(p, "prompting") ELSE Ends(p)

(* The preflight succeeded.  OAuth listens on a fixed port, if it is free, *)
(* and waits for the command that opens the browser; a device polls.       *)
LoginStarts(p) ==
  /\ login[p] = "none"
  /\ \/ /\ login' = [login EXCEPT ![p] = "opening"]
        /\ port' = IF port = None THEN p ELSE port
     \/ login' = [login EXCEPT ![p] = "polling"] /\ port' = port
  /\ UNCHANGED granted

BrowserOpened(p) ==
  \/ login[p] = "called" /\ Goes(p, "exchanging")
  \/ login[p] = "opening" /\ port = p /\ Goes(p, "waiting")
  \/ login[p] = "opening" /\ port # p /\ NoCode(p)

(* A request at /auth/callback with the code of this login, perhaps before *)
(* the command that opened the browser returns.  Once the wait is over it  *)
(* is welcomed and ignored.                                                *)
GoodCallback(p) ==
  /\ port = p
  /\ \/ login[p] = "opening" /\ Goes(p, "called")
     \/ login[p] = "waiting" /\ Goes(p, "exchanging")

(* One with an error, without a code or of another login.                  *)
BadCallback(p) == port = p /\ login[p] = "waiting" /\ NoCode(p)

(* After five minutes.  Mutant: the wait has no end.                       *)
NeverTimesOut(p) == FALSE /\ UNCHANGED loginVars
CallbackTimeout(p) == login[p] = "waiting" /\ NoCode(p)

(* The user pastes the code, or something that is not one.                 *)
Pasted(p) == login[p] = "prompting" /\ (Goes(p, "exchanging") \/ Ends(p))

(* A poll that finds the user has entered the code they were shown; one    *)
(* that is told that the code has expired or was denied.                   *)
DeviceConfirmed(p) == login[p] = "polling" /\ Shown(p) /\ Goes(p, "exchanging")
DeviceExpired(p) == login[p] = "polling" /\ Ends(p)

(* The code is exchanged for tokens, or the exchange fails.                *)
Exchanged(p) ==
  /\ login[p] = "exchanging"
  /\ \/ /\ Issue
        /\ live' = live \cup {issued'}
        /\ \E a \in AccountsOf[p] :
             granted' = [granted EXCEPT ![p] = [refresh |-> issued', account |-> a]]
        /\ login' = [login EXCEPT ![p] = "granted"]
        /\ UNCHANGED <<port, rotates>>
     \/ Ends(p) /\ UNCHANGED issuerVars

Closed(p) == login[p] = "closing" /\ Goes(p, "none")

(* The last word is spoken on whose credential is stored.                  *)
Word(account) ==
  /\ lastWord' = account
  /\ overtaken' = {t \in Turns : InFlight(t)}
  /\ undone' = FALSE

(* setOAuthCredential and the return of login.  Mutant: what the row says  *)
(* of the account is kept, as a refresh does when its answer is silent.    *)
StoredKeepingAccount(p) ==
  IF store = NoCred THEN granted[p] ELSE [granted[p] EXCEPT !.account = store.account]
Stored(p) == granted[p]
LoggedIn(p) ==
  /\ login[p] = "granted"
  /\ Write(Stored(p))
  /\ Word(granted[p].account)
  /\ Ends(p)

Logout ==
  /\ store # NoCred
  /\ Write(NoCred)
  /\ Word(None)
  /\ UNCHANGED <<turnVars, loginVars, issuerVars>>

(* What the code does by itself, and what users, browsers and issuer add.  *)
LoginProceeds(p) ==
  \/ CallbackTimeout(p) /\ UNCHANGED <<rowVars, issuerVars, wordVars>>
  \/ LoggedIn(p) /\ UNCHANGED issuerVars
LoginStep(p) ==
  /\ \/ LoginProceeds(p)
     \/ /\ \/ LoginStarts(p) \/ BrowserOpened(p) \/ GoodCallback(p) \/ BadCallback(p)
           \/ Pasted(p) \/ DeviceConfirmed(p) \/ DeviceExpired(p) \/ Closed(p)
        /\ UNCHANGED <<rowVars, issuerVars, wordVars>>
     \/ Exchanged(p) /\ UNCHANGED <<rowVars, wordVars>>
  /\ UNCHANGED turnVars

(***************************************************************************)
(* The end of a process: a crash, or a bad callback before anybody awaits  *)
(* the code, a rejection without a handler.  Containers live on.           *)
(***************************************************************************)

ProcessEnds(p) ==
  /\ \/ "crash" \in Mishaps
     \/ port = p /\ login[p] = "opening"
  /\ login' = [login EXCEPT ![p] = "none"]
  /\ granted' = [granted EXCEPT ![p] = NoCred]
  /\ Closes(p)
  /\ IF p = "server"
     THEN /\ asked' = [t \in Turns |-> NoCred]
          /\ answer' = [t \in Turns |-> NoCred]
          /\ overtaken' = {}
          /\ LoseAnswers(Turns)
     ELSE UNCHANGED <<rowVars, asked, answer, overtaken>>
  /\ UNCHANGED <<held, issuerVars, lastWord, undone>>

CredNext ==
  \/ \E t \in Turns : Call(t) \/ IssuerAnswers(t) \/ AnswerArrives(t) \/ AnswerLost(t)
  \/ \E c \in held : ContainerRefreshes(c) \/ ContainerEnds(c)
  \/ \E p \in Processes : LoginStep(p) \/ ProcessEnds(p)
  \/ Logout \/ AccessExpires
CredSpec == CredInit /\ [][CredNext]_credVars

(* The code goes on by itself: the timer of the callback fires, granted    *)
(* tokens are stored.  Nothing is assumed of users, browsers and issuer.   *)
CredFairSpec == CredSpec /\ \A p \in Processes : WF_credVars(LoginStep(p) /\ LoginProceeds(p))
-----------------------------------------------------------------------------

(* The row and everything on its way to it is a credential of the issuer.  *)
CredTypeOK ==
  /\ store \in Credential \cup {NoCred}
  /\ asked \in [Turns -> Credential \cup {NoCred}]
  /\ answer \in [Turns -> Credential \cup {NoCred, Refused}]
  /\ held \subseteq Credential
  /\ login \in [Processes -> {"none", "opening", "called", "waiting", "prompting",
                              "polling", "exchanging", "granted", "closing"}]
  /\ granted \in [Processes -> Credential \cup {NoCred}]
  /\ \A p \in Processes : granted[p] # NoCred <=> login[p] = "granted"
  /\ port \in Processes \cup {None}
  /\ issued \in 0 .. MaxIssued
  /\ live \subseteq 1 .. issued
  /\ {expired, lost, rotates, undone} \subseteq BOOLEAN
  /\ lastWord \in Accounts \cup {None}
  /\ overtaken \subseteq Turns

(* However many turns refresh at once, and whatever logins and logouts     *)
(* come in between, the refresh token in the row is one the issuer still   *)
(* accepts, unless its successor is on its way to the row or was lost.     *)
NotStranded ==
  store # NoCred /\ ~lost =>
    store.refresh \in live \cup {asked[t].refresh : t \in {u \in Turns : Answered(u)}}

(* The row has the credential of the last login, none after a logout, or   *)
(* what was refreshed from it, unless a turn that had asked before that    *)
(* login or logout wrote its answer after it.                              *)
LastWordCounts == ~undone => store.account = lastWord

(* The port is held only by a login that is under way and listens, so the  *)
(* next login can have it.                                                 *)
PortFreed ==
  port # None =>
    login[port] \in {"opening", "called", "waiting", "prompting", "exchanging", "granted"}

(* The awaits of a login that the code gives no limit: the command that    *)
(* opens the browser, the user's code, the polls of a device, the exchange *)
(* of the code, the closing of the browser's connections.                  *)
Unlimited == {"opening", "called", "prompting", "polling", "exchanging", "closing"}

(* A login comes to its end, or is kept up for good by the awaits          *)
(* without a limit: neither a browser that is closed without a callback,   *)
(* nor callbacks that are refused, nor a failed exchange leave it or its   *)
(* process anything else to wait for.                                      *)
LoginEnds ==
  \A p \in Processes :
    login[p] # "none" ~> login[p] = "none" \/ [](login[p] \in Unlimited)
=============================================================================
