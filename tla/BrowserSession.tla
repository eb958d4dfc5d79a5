---------------------------- MODULE BrowserSession ----------------------------
(****************************************************************************)
(* One browser tab: its session store, the screens that call it, and the    *)
(* consent provider that depends on it, against a server that keeps the     *)
(* session and the log of consents.  A request is sent, handled (or lost)   *)
(* and answered in steps of its own; a full page load drops the page's      *)
(* state and its interest in answers, not the requests already sent.        *)
(****************************************************************************)
EXTENDS Naturals, FiniteSets

CONSTANTS
    Reads,          \* loads of the consents that may be in flight at once
    MaxOutstanding  \* consent requests, loads and saves, in flight at once

VARIABLES
    cookie,         \* whether the server has a live session for the tab's cookie
    decision,       \* the newest personalization row of the consents table
    path,           \* the screen: "home" (public), "trip" (private), or an auth screen
    saved,          \* sessionStorage: where to return to after signing in
    session,        \* the session store: loading, authenticated, anonymous, expired, unavailable
    call,           \* its requests: probe (refresh), callback (completeAuth), signOut
    consent,        \* the consent provider
    read,           \* its loads
    save,           \* its saves, from the settings toggle and the first-login card
    crossed         \* history: a save overlapped another save or a load

sessionVars == <<path, saved, session, call>>
consentVars == <<consent, read, save, crossed>>
tabVars == <<cookie, decision, sessionVars, consentVars>>

Choices == {"unset", "granted", "declined"}
Calls == {"probe", "callback", "signOut"}
Savers == {"toggle", "card"}

\* A request is idle, sent, answered, or the orphan of a page that is gone; its
\* answer is none yet, yes, no, lost, expired, or a choice.
Idle == [stage |-> "idle", live |-> FALSE, answer |-> "none"]
Sent == [stage |-> "sent", live |-> TRUE, answer |-> "none"]
NoSave == [stage |-> "idle", choice |-> "unset", answer |-> "none"]

\* live: the request's revision (or id) is still the newest.
Outdated(reqs) == [k \in DOMAIN reqs |-> [reqs[k] EXCEPT !.live = FALSE]]

InFlight(req) == req.stage # "idle"
SaveInFlight == \E s \in Savers : InFlight(save[s])
HasRoom(reads) ==
    Cardinality({r \in Reads : InFlight(reads[r])} \cup {s \in Savers : InFlight(save[s])})
        < MaxOutstanding

-----------------------------------------------------------------------------
\* A page load at a screen.  React runs the effects of the screen before those
\* of the provider around it: completeAuth takes its revision, then refresh.

FreshSession == [status |-> "loading", redirect |-> "none"]
FreshConsent == [status |-> "idle", choice |-> "unset", saving |-> FALSE]

\* The wrong order: the provider's probe first.
MountProbeFirst(p, refused) ==
    LET returning == IF refused THEN [Sent EXCEPT !.stage = "answered", !.answer = "lost"] ELSE Sent
    IN  [probe    |-> [Sent EXCEPT !.live = p # "callback"],
         callback |-> IF p = "callback" THEN returning ELSE Idle]

MountTab(p, refused) ==
    LET returning == IF refused THEN [Sent EXCEPT !.stage = "answered", !.answer = "lost"] ELSE Sent
    IN  [probe    |-> Sent,
         callback |-> IF p = "callback" THEN [returning EXCEPT !.live = FALSE] ELSE Idle]

PageLoad(p, refused) ==
    /\ path' = p
    /\ session' = FreshSession
    /\ consent' = FreshConsent
    /\ LET mounted == MountTab(p, refused) IN
       call' = [k \in Calls |->
           IF k # "signOut" THEN mounted[k]
           ELSE IF call[k].stage \in {"sent", "orphan"} THEN [Idle EXCEPT !.stage = "orphan"] ELSE Idle]
    /\ read' = [r \in Reads |-> Idle]
    /\ save' = [s \in Savers |->
          IF save[s].stage \in {"sent", "orphan"} THEN [save[s] EXCEPT !.stage = "orphan"] ELSE NoSave]
    /\ UNCHANGED <<saved, crossed, decision>>

TabInit ==
    /\ cookie \in {"none", "alive"}
    /\ decision \in Choices
    /\ path \in {"home", "trip"}
    /\ saved = "none"
    /\ session = FreshSession
    /\ call = [k \in Calls |-> IF k = "probe" THEN Sent ELSE Idle]
    /\ consent = FreshConsent
    /\ read = [r \in Reads |-> Idle]
    /\ save = [s \in Savers |-> NoSave]
    /\ crossed = FALSE

Reload ==
    /\ PageLoad(path, FALSE)
    /\ UNCHANGED cookie

\* A magic link or OAuth, in this tab: the server's callback sets the cookie
\* (or refuses) and sends the browser to /auth/callback.
SignIn ==
    /\ path = "signin"
    /\ \E refused \in BOOLEAN :
         /\ PageLoad("callback", refused)
         /\ cookie' = IF refused THEN cookie ELSE "alive"

SessionEnds ==
    /\ cookie = "alive"
    /\ cookie' = "none"
    /\ UNCHANGED <<decision, sessionVars, consentVars>>

-----------------------------------------------------------------------------
\* The session store.

\* A load, in an idle slot (the slots are alike); older ones are outdated.
LoadChoice(reads) ==
    /\ HasRoom(reads)
    /\ \E r \in Reads : ~InFlight(reads[r])
    /\ read' = [Outdated(reads) EXCEPT ![CHOOSE r \in Reads : ~InFlight(reads[r])] = Sent]
    /\ consent' = [consent EXCEPT !.status = "loading"]
    /\ crossed' = SaveInFlight

\* The provider's effect on the session's status, given its loads.  It runs
\* with the render the store's change forces, before any other answer.
Follow(reads) ==
    IF session'.status = session.status
    THEN read' = reads /\ UNCHANGED <<consent, crossed>>
    ELSE IF session'.status = "authenticated"
    THEN LoadChoice(reads)
    ELSE /\ read' = Outdated(reads)
         /\ consent' = [consent EXCEPT !.status = "idle", !.choice = "unset"]
         /\ UNCHANGED crossed

\* refresh
Probe ==
    /\ call' = [Outdated(call) EXCEPT !["probe"] = Sent]
    /\ session' = [session EXCEPT !.status = "loading"]
    /\ UNCHANGED <<path, saved>>

\* Back to where the page is, unless it is an auth screen.
ReturnTarget ==
    IF path \in {"home", "trip"} THEN path
    ELSE CASE session.redirect # "none" -> session.redirect
           [] saved # "none"            -> saved
           [] OTHER                     -> "home"

\* reportExpired
Expire(calls) ==
    /\ call' = Outdated(calls)
    /\ saved' = ReturnTarget
    /\ session' = [session EXCEPT !.status = "expired", !.redirect = ReturnTarget]
    /\ path' = "signin"

\* beginAuth, from a page's gate.  The action to replay stays in the page's
\* memory beside the return path and is left out.
BeginAuth ==
    /\ saved' = path
    /\ session' = [session EXCEPT !.redirect = path]
    /\ path' = "signin"
    /\ UNCHANGED call

\* requireAuth: an action of a public page, such as saving a trip.
Gate ==
    /\ path = "home"
    /\ session.status # "authenticated"
    /\ BeginAuth
    /\ UNCHANGED <<cookie, decision, consentVars>>

\* RequireAuth around the private pages.
RequireAuth ==
    /\ path = "trip"
    /\ session.status \in {"anonymous", "expired"}
    /\ BeginAuth
    /\ UNCHANGED <<cookie, decision, consentVars>>

ProbeAgain ==
    /\ path = "trip"
    /\ session.status = "unavailable"
    /\ Probe
    /\ Follow(read)
    /\ UNCHANGED <<cookie, decision, save>>

SignOut ==
    /\ path = "trip"
    /\ session.status = "authenticated"
    /\ ~InFlight(call["signOut"])
    /\ call' = [Outdated(call) EXCEPT !["signOut"] = Sent]
    /\ UNCHANGED <<cookie, decision, path, saved, session, consentVars>>

\* The user's own navigation.
Go ==
    /\ \E p \in {"home", "trip", "signin"} \ {path} : path' = p
    /\ UNCHANGED <<cookie, decision, saved, session, call, consentVars>>

\* GET /profile, or POST /signout: the answer, or the request, may be lost.
Handle(k) ==
    /\ call[k].stage \in {"sent", "orphan"}
    /\ \E lost, done \in BOOLEAN :
         /\ ~lost => done
         /\ cookie' = IF k = "signOut" /\ done THEN "none" ELSE cookie
         /\ LET answer == IF lost THEN "lost" ELSE IF cookie = "alive" \/ k = "signOut" THEN "yes" ELSE "no"
            IN  call' = [call EXCEPT ![k] =
                    IF @.stage = "orphan" THEN Idle
                    ELSE [@ EXCEPT !.stage = "answered", !.answer = answer]]
    /\ UNCHANGED <<decision, path, saved, session, consentVars>>

HasAnswer(k) == call[k].stage = "answered"
Taken(k) == [call EXCEPT ![k] = Idle]

\* An answer of an earlier revision is dropped; a failure makes the session
\* 'unavailable' (reconcileSessionOnMount).
ProbeAnswers ==
    /\ HasAnswer("probe")
    /\ call' = Taken("probe")
    /\ session' = IF ~call["probe"].live THEN session
                  ELSE [session EXCEPT !.status =
                          CASE call["probe"].answer = "yes"  -> "authenticated"
                            [] call["probe"].answer = "no"   -> "anonymous"
                            [] call["probe"].answer = "lost" -> "unavailable"]
    /\ Follow(read)
    /\ UNCHANGED <<cookie, decision, path, saved, save>>

\* completeAuth replays the return path and the stashed action.
Resume(calls) ==
    /\ call' = calls
    /\ session' = [status |-> "authenticated", redirect |-> "none"]
    /\ path' = CASE session.redirect # "none" -> session.redirect
                 [] saved # "none"            -> saved
                 [] OTHER                     -> "home"
    /\ saved' = "none"

\* The wrong answer: completeAuth does not ask whether it is still current.
CallbackAnswersLate ==
    /\ HasAnswer("callback")
    /\ IF call["callback"].answer = "yes" THEN Resume(Taken("callback"))
       ELSE path' = "error" /\ call' = Taken("callback") /\ UNCHANGED <<saved, session>>
    /\ Follow(read)
    /\ UNCHANGED <<cookie, decision, save>>

CallbackAnswers ==
    /\ HasAnswer("callback")
    /\ LET c == call["callback"] IN
       IF c.answer = "lost"
       THEN path' = "error" /\ call' = Taken("callback") /\ UNCHANGED <<saved, session>>
       ELSE IF ~c.live
       THEN call' = Taken("callback") /\ UNCHANGED <<path, saved, session>>
       ELSE IF c.answer = "yes" THEN Resume(Taken("callback")) ELSE Expire(Taken("callback"))
    /\ Follow(read)
    /\ UNCHANGED <<cookie, decision, save>>

\* The control leaves for the home page even when an expiry came first.
SignOutAnswers ==
    /\ HasAnswer("signOut")
    /\ call' = Taken("signOut")
    /\ LET c == call["signOut"] IN
       /\ path' = IF c.answer = "yes" THEN "home" ELSE path
       /\ IF c.answer = "yes" /\ c.live
          THEN /\ session' = [status |-> "anonymous", redirect |-> "none"]
               /\ saved' = "none"
          ELSE UNCHANGED <<saved, session>>
    /\ Follow(read)
    /\ UNCHANGED <<cookie, decision, save>>

-----------------------------------------------------------------------------
\* The consent provider.

\* 'Try again': without a session it does nothing.
Refresh ==
    /\ consent.status = "error"
    /\ session.status = "authenticated"
    /\ LoadChoice(read)
    /\ UNCHANGED <<cookie, decision, sessionVars, save>>

\* The settings toggle flips the choice shown and is disabled while 'saving';
\* the first-login card shows while there is no choice and knows only its own
\* save.
Offered(s, choice) ==
    /\ consent.status = "ready"
    /\ IF s = "toggle"
       THEN /\ path = "trip" /\ session.status = "authenticated" /\ ~consent.saving
            /\ choice = IF consent.choice = "granted" THEN "declined" ELSE "granted"
       ELSE consent.choice = "unset"
    /\ ~InFlight(save[s])

SetPersonalization(s) ==
    /\ HasRoom(read)
    /\ \E c \in Choices \ {"unset"} :
         /\ Offered(s, c)
         /\ save' = [save EXCEPT ![s] = [stage |-> "sent", choice |-> c, answer |-> "none"]]
    /\ consent' = [consent EXCEPT !.saving = TRUE]
    /\ crossed' = (crossed \/ SaveInFlight \/ \E r \in Reads : InFlight(read[r]))
    /\ UNCHANGED <<cookie, decision, sessionVars, read>>

\* GET /consents
HandleRead(r) ==
    /\ read[r].stage = "sent"
    /\ \E answer \in {"lost", IF cookie = "alive" THEN decision ELSE "expired"} :
         read' = [read EXCEPT ![r].stage = "answered", ![r].answer = answer]
    /\ UNCHANGED <<cookie, decision, sessionVars, consent, save, crossed>>

\* PUT /consents appends a row; the newest decides.
HandleSave(s) ==
    /\ save[s].stage \in {"sent", "orphan"}
    /\ \E lost, done \in BOOLEAN :
         /\ ~lost => done
         /\ decision' = IF done /\ cookie = "alive" THEN save[s].choice ELSE decision
         /\ save' = [save EXCEPT ![s] =
                IF @.stage = "orphan" THEN NoSave
                ELSE [@ EXCEPT !.stage = "answered",
                               !.answer = IF lost THEN "lost"
                                          ELSE IF cookie = "alive" THEN "yes" ELSE "expired"]]
    /\ UNCHANGED <<cookie, sessionVars, consent, read, crossed>>

ChoiceShown(r) ==
    IF read[r].answer \in Choices
    THEN [consent EXCEPT !.status = "ready", !.choice = read[r].answer]
    ELSE [consent EXCEPT !.status = "error"]

\* A 401 expires the session, whoever asked.
ReadExpired(r) ==
    /\ read[r].answer = "expired"
    /\ Expire(call)
    /\ Follow([read EXCEPT ![r] = Idle])

\* The wrong load: its id is not compared.
ReadAnswersLate(r) ==
    /\ read[r].stage = "answered"
    /\ \/ ReadExpired(r)
       \/ /\ read[r].answer # "expired"
          /\ read' = [read EXCEPT ![r] = Idle]
          /\ consent' = ChoiceShown(r)
          /\ UNCHANGED <<sessionVars, crossed>>
    /\ UNCHANGED <<cookie, decision, save>>

\* Anything else an outdated load answers is dropped.
ReadAnswers(r) ==
    /\ read[r].stage = "answered"
    /\ \/ ReadExpired(r)
       \/ /\ read[r].answer # "expired"
          /\ read' = [read EXCEPT ![r] = Idle]
          /\ consent' = IF read[r].live THEN ChoiceShown(r) ELSE consent
          /\ UNCHANGED <<sessionVars, crossed>>
    /\ UNCHANGED <<cookie, decision, save>>

\* The answer of a save is applied whatever has happened since; after a 401
\* the catch block runs when the expiry's own effect has.
SaveAnswers(s) ==
    /\ save[s].stage = "answered"
    /\ save' = [save EXCEPT ![s] = NoSave]
    /\ \/ /\ save[s].answer = "yes"
          /\ consent' = [status |-> "ready", choice |-> save[s].choice, saving |-> FALSE]
          /\ UNCHANGED <<sessionVars, read>>
       \/ /\ save[s].answer = "lost"
          /\ consent' = [consent EXCEPT !.status = "error", !.saving = FALSE]
          /\ UNCHANGED <<sessionVars, read>>
       \/ /\ save[s].answer = "expired"
          /\ Expire(call)
          /\ IF session.status = "expired"
             THEN /\ consent' = [consent EXCEPT !.status = "error", !.saving = FALSE]
                  /\ UNCHANGED read
             ELSE /\ consent' = [status |-> "error", choice |-> "unset", saving |-> FALSE]
                  /\ read' = Outdated(read)
    /\ UNCHANGED <<cookie, decision, crossed>>

-----------------------------------------------------------------------------
\* What the browser and the server do by themselves.
Progress ==
    \/ \E k \in Calls : Handle(k)
    \/ ProbeAnswers \/ CallbackAnswers \/ SignOutAnswers
    \/ RequireAuth
    \/ \E r \in Reads : HandleRead(r) \/ ReadAnswers(r)
    \/ \E s \in Savers : HandleSave(s) \/ SaveAnswers(s)

User ==
    \/ Reload \/ SignIn \/ Gate \/ ProbeAgain \/ SignOut \/ Go \/ Refresh
    \/ \E s \in Savers : SetPersonalization(s)

TabNext == Progress \/ User \/ SessionEnds

TabSpec == TabInit /\ [][TabNext]_tabVars

\* Every request is answered or fails in the end, every answer is delivered.
TabFairness ==
    /\ \A k \in Calls : WF_tabVars(Handle(k))
    /\ WF_tabVars(ProbeAnswers) /\ WF_tabVars(CallbackAnswers) /\ WF_tabVars(SignOutAnswers)
    /\ \A r \in Reads : WF_tabVars(HandleRead(r)) /\ WF_tabVars(ReadAnswers(r))
    /\ \A s \in Savers : WF_tabVars(HandleSave(s)) /\ WF_tabVars(SaveAnswers(s))

FairTabSpec == TabSpec /\ TabFairness

-----------------------------------------------------------------------------
\* The choice a signed-in user is shown, once nothing is in flight, is the one
\* the server acts on, whatever was lost, reordered or outdated before, unless
\* saves overlapped and no load has been started since.
ChoiceAgrees ==
    /\ session.status = "authenticated"
    /\ consent.status = "ready"
    /\ ~SaveInFlight /\ ~crossed
    /\ \A r \in Reads : ~(InFlight(read[r]) /\ read[r].live)
    => consent.choice = decision

\* Once a page has learned that nobody is signed in, no late answer signs
\* anybody in again: it takes a new page load or a new probe.
LeftStaysLeft ==
    [][session.status \in {"anonymous", "expired"} => session'.status # "authenticated"]_tabVars

\* No page waits for the session, or for the choice, for ever, unless the user
\* keeps loading pages for ever.
WaitsEnd ==
    <>[][~(Reload \/ SignIn)]_tabVars =>
        /\ session.status = "loading" ~> session.status # "loading"
        /\ consent.status = "loading" ~> consent.status # "loading"

==============================================================================
