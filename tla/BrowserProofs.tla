---------------------------- MODULE BrowserProofs -----------------------------
(****************************************************************************)
(* What a tab shows of the session and of the choice, and what a page shows *)
(* of the profiles, for any number of loads and requests in flight, any     *)
(* columns and values.                                                      *)
(*                                                                          *)
(* The session.  Only a probe can sign anybody in, because the callback of  *)
(* a page load is outdated by that load's own probe; and whatever makes the *)
(* session 'anonymous' or 'expired' is the probe itself or outdates it.     *)
(*                                                                          *)
(* The choice.  As long as nothing is crossed, a save is alone in flight,   *)
(* among saves and loads; so what a load that still counts, or a save, was  *)
(* answered is what the server last wrote.                                  *)
(*                                                                          *)
(* The routes.  Only the holder of the user's lock is between its read and  *)
(* its commit, and an erasure waits for whoever has written: so what a      *)
(* request has read is still there when it writes, and what it has written  *)
(* is the merge over the row that its commit replaces.                      *)
(*                                                                          *)
(* The page.  Of either profile at most one save is the newest.  Once it is *)
(* answered its answer is what the server keeps, and no save that it has    *)
(* outdated can still take effect; when it has been shown, or there is      *)
(* none, the page shows what the server keeps.  An erasure that has been    *)
(* answered but not shown overrides all this: nobody can write any more,    *)
(* and showing it outdates the saves whose answers are still to come.       *)
(****************************************************************************)
EXTENDS BrowserSession, ProfilePage, TLAPS

-----------------------------------------------------------------------------
(* The session and the choice *)

TabStages == {"idle", "sent", "answered", "orphan"}
Answers == {"none", "yes", "no", "lost", "expired"} \cup Choices

Request == [stage : TabStages, live : BOOLEAN, answer : Answers]
Saving == [stage : TabStages, choice : Choices, answer : Answers]
Consent == [status : {"idle", "loading", "ready", "error"}, choice : Choices, saving : BOOLEAN]

TypeInv ==
    /\ decision \in Choices
    /\ DOMAIN session = {"status", "redirect"}
    /\ call \in [Calls -> Request]
    /\ consent \in Consent
    /\ read \in [Reads -> Request]
    /\ save \in [Savers -> Saving]
    /\ crossed \in BOOLEAN

Gone == session.status \in {"anonymous", "expired"}

\* No answer under way can sign anybody in on a page that knows it is nobody.
LeftInv ==
    /\ ~call["callback"].live
    /\ Gone => ~call["probe"].live
    /\ call["signOut"].live => ~call["probe"].live

\* While nothing is crossed: a save is alone in flight, and what is shown, or
\* about to be shown, is what the server has.
Agreed(shown, reads, saves, choice) ==
    /\ shown.status = "ready" /\ (\A s \in Savers : ~InFlight(saves[s])) => shown.choice = choice
    /\ \A s \in Savers :
          saves[s].stage = "answered" /\ saves[s].answer = "yes" => saves[s].choice = choice
    /\ \A s, t \in Savers : InFlight(saves[s]) /\ InFlight(saves[t]) => s = t
    /\ (\E s \in Savers : InFlight(saves[s])) => \A r \in Reads : ~InFlight(reads[r])
    /\ \A s \in Savers : saves[s].stage = "orphan" => shown.status # "ready"
    /\ \A r \in Reads :
          reads[r].stage = "answered" /\ reads[r].live /\ reads[r].answer \in Choices
              => reads[r].answer = choice

AgreeInv == ~crossed => Agreed(consent, read, save, decision)

TabInv == TypeInv /\ LeftInv /\ AgreeInv

USE DEF Choices, Calls, Savers, InFlight

-----------------------------------------------------------------------------
(* Requests *)

LEMMA Constants ==
    /\ Idle \in Request /\ Sent \in Request /\ NoSave \in Saving
    /\ ~InFlight(Idle) /\ ~Idle.live /\ ~InFlight(NoSave) /\ Sent.stage = "sent"
BY DEF Idle, Sent, NoSave, Request, Saving, TabStages, Answers

LEMMA OutdatedType ==
    ASSUME NEW K, NEW reqs \in [K -> Request]
    PROVE  /\ Outdated(reqs) \in [K -> Request]
           /\ \A k \in K : /\ Outdated(reqs)[k].stage = reqs[k].stage
                           /\ ~Outdated(reqs)[k].live
BY DEF Outdated, Request

\* A load outdates the reads before it.
LEMMA LoadType ==
    ASSUME NEW reads \in [Reads -> Request], NEW slot, NEW next,
           next = [Outdated(reads) EXCEPT ![slot] = Sent]
    PROVE  /\ next \in [Reads -> Request]
           /\ \A r \in Reads : next[r].live => next[r].stage = "sent"
<1> DEFINE old == Outdated(reads)
<1>1. old \in [Reads -> Request] /\ \A r \in Reads : ~old[r].live
  BY OutdatedType
<1>2. Sent \in Request /\ Sent.stage = "sent"
  BY Constants
<1>3. next = [old EXCEPT ![slot] = Sent]
  OBVIOUS
<1> HIDE DEF old
<1>4. \A r \in Reads : next[r] = IF r = slot THEN Sent ELSE old[r]
  BY <1>1, <1>3
<1>5. next \in [Reads -> Request]
  BY <1>1, <1>2, <1>3
<1>6. QED  BY <1>1, <1>2, <1>4, <1>5

LEMMA TabAnswerType ==
    ASSUME NEW q \in Request, NEW a \in Answers
    PROVE  /\ [q EXCEPT !.stage = "answered", !.answer = a] \in Request
           /\ [q EXCEPT !.stage = "answered", !.answer = a].live = q.live
           /\ [q EXCEPT !.stage = "answered", !.answer = a].answer = a
BY DEF Request, TabStages

\* The provider's effect keeps what is shown in step with the server.
LEMMA FollowKeeps ==
    ASSUME NEW reads \in [Reads -> Request], TypeInv,
           ~crossed => Agreed(consent, reads, save, decision),
           Follow(reads), UNCHANGED <<decision, save>>
    PROVE  /\ read' \in [Reads -> Request] /\ consent' \in Consent /\ crossed' \in BOOLEAN
           /\ AgreeInv'
<1> USE DEF TypeInv
<1>1. CASE session'.status = session.status
  BY <1>1 DEF Follow, AgreeInv
<1>2. CASE session'.status # session.status /\ session'.status = "authenticated"
  <2>1. PICK slot : read' = [Outdated(reads) EXCEPT ![slot] = Sent]
    BY <1>2 DEF Follow, LoadChoice
  <2>2. consent' = [consent EXCEPT !.status = "loading"] /\ crossed' = SaveInFlight
    BY <1>2 DEF Follow, LoadChoice
  <2>3. /\ read' \in [Reads -> Request]
        /\ \A r \in Reads : read'[r].live => read'[r].stage = "sent"
    BY <2>1, LoadType
  <2>4. consent' \in Consent /\ consent'.status = "loading"
    BY <2>2 DEF Consent
  <2>5. crossed' \in BOOLEAN
    BY <2>2 DEF SaveInFlight
  <2>6. ASSUME ~crossed' PROVE Agreed(consent, read, save, decision)'
    <3>1. \A s \in Savers : ~InFlight(save[s])
      BY <2>2, <2>6 DEF SaveInFlight
    <3>2. QED  BY <2>3, <2>4, <3>1 DEF Agreed
  <2>7. QED  BY <2>3, <2>4, <2>5, <2>6 DEF AgreeInv
<1>3. CASE session'.status # session.status /\ session'.status # "authenticated"
  <2>1. /\ read' = Outdated(reads) /\ crossed' = crossed
        /\ consent' = [consent EXCEPT !.status = "idle", !.choice = "unset"]
    BY <1>3 DEF Follow
  <2>2. /\ read' \in [Reads -> Request]
        /\ \A r \in Reads : ~read'[r].live /\ read'[r].stage = reads[r].stage
    BY <2>1, OutdatedType
  <2>3. consent' \in Consent /\ consent'.status = "idle"
    BY <2>1 DEF Consent
  <2>4. ~crossed => Agreed(consent, read, save, decision)'
    BY <2>2, <2>3 DEF Agreed
  <2>5. QED  BY <2>1, <2>2, <2>3, <2>4 DEF AgreeInv
<1>4. QED  BY <1>1, <1>2, <1>3

LEMMA PageLoadKeeps ==
    ASSUME TabInv, NEW p, NEW refused \in BOOLEAN, PageLoad(p, refused)
    PROVE  TabInv' /\ session'.status = "loading"
<1> USE DEF TabInv, TypeInv
<1>1. session' = FreshSession /\ consent' = FreshConsent
      /\ UNCHANGED <<crossed, decision>>
  BY DEF PageLoad
<1>2. session'.status = "loading" /\ DOMAIN session' = {"status", "redirect"}
      /\ consent' \in Consent /\ consent'.status = "idle"
  BY <1>1 DEF FreshSession, FreshConsent, Consent
<1>3. /\ call' \in [Calls -> Request]
      /\ ~call'["callback"].live /\ ~call'["signOut"].live
  <2>1. /\ MountTab(p, refused)["probe"] \in Request
        /\ MountTab(p, refused)["callback"] \in Request
        /\ ~MountTab(p, refused)["callback"].live
    BY DEF MountTab, Sent, Idle, Request, TabStages, Answers
  <2>2. [Idle EXCEPT !.stage = "orphan"] \in Request
        /\ ~[Idle EXCEPT !.stage = "orphan"].live
    BY DEF Idle, Request, TabStages, Answers
  <2>3. call' = [k \in Calls |->
           IF k # "signOut" THEN MountTab(p, refused)[k]
           ELSE IF call[k].stage \in {"sent", "orphan"} THEN [Idle EXCEPT !.stage = "orphan"] ELSE Idle]
    BY DEF PageLoad
  <2>4. QED  BY <2>1, <2>2, <2>3, Constants
<1>4. read' \in [Reads -> Request] /\ \A r \in Reads : ~InFlight(read'[r])
  BY Constants DEF PageLoad
<1>5. /\ save' \in [Savers -> Saving]
      /\ \A s \in Savers : /\ save'[s].stage \in {"idle", "orphan"}
                           /\ InFlight(save'[s]) => InFlight(save[s])
  BY Constants DEF PageLoad, Saving, TabStages, NoSave
<1>6. AgreeInv'
  BY <1>1, <1>2, <1>4, <1>5 DEF AgreeInv, Agreed
<1>7. LeftInv'
  BY <1>2, <1>3 DEF LeftInv, Gone
<1>8. QED  BY <1>1, <1>2, <1>3, <1>4, <1>5, <1>6, <1>7

\* Back at the same screen, with nobody signed in: no request counts any more.
LEMMA ExpireEffect ==
    ASSUME TypeInv, NEW calls \in [Calls -> Request], Expire(calls)
    PROVE  /\ call' \in [Calls -> Request] /\ DOMAIN session' = {"status", "redirect"}
           /\ session'.status = "expired" /\ LeftInv'
<1>1. call' = Outdated(calls)
  BY DEF Expire
<1>2. call' \in [Calls -> Request] /\ \A k \in Calls : ~call'[k].live
  BY <1>1, OutdatedType
<1>3. session'.status = "expired" /\ DOMAIN session' = {"status", "redirect"}
  BY DEF Expire, TypeInv
<1>4. LeftInv'
  BY <1>2 DEF LeftInv
<1>5. QED  BY <1>2, <1>3, <1>4

\* A step of the session store that the consent provider follows.
LEMMA FollowedKeeps ==
    ASSUME TabInv, Follow(read), UNCHANGED <<decision, save>>,
           call' \in [Calls -> Request], DOMAIN session' = {"status", "redirect"}, LeftInv'
    PROVE  TabInv'
BY FollowKeeps DEF TabInv, TypeInv, AgreeInv

\* A step that touches only the session store's part.
LEMMA ApartKeeps ==
    ASSUME TabInv, UNCHANGED <<decision, consentVars>>,
           call' \in [Calls -> Request], DOMAIN session' = {"status", "redirect"}, LeftInv'
    PROVE  TabInv'
BY DEF TabInv, TypeInv, AgreeInv, consentVars

\* The session store keeps the invariant, and signs nobody in who is gone.
LEMMA SessionKeeps ==
    ASSUME TabInv,
           \/ Reload \/ SignIn \/ SessionEnds \/ Gate \/ RequireAuth \/ ProbeAgain
           \/ SignOut \/ Go \/ (\E k \in Calls : Handle(k))
           \/ ProbeAnswers \/ CallbackAnswers \/ SignOutAnswers
    PROVE  TabInv' /\ (Gone => session'.status # "authenticated")
<1> USE DEF TabInv, TypeInv
<1>1. CASE Reload \/ SignIn
  BY <1>1, PageLoadKeeps DEF Reload, SignIn
<1>2. CASE SessionEnds \/ Go
  <2>1. LeftInv' /\ UNCHANGED <<session, call, decision, consentVars>>
    BY <1>2 DEF SessionEnds, Go, LeftInv, Gone, sessionVars
  <2>2. QED  BY <2>1, ApartKeeps DEF Gone
<1>3. CASE Gate \/ RequireAuth
  <2>1. /\ session' = [session EXCEPT !.redirect = path]
        /\ UNCHANGED <<call, decision, consentVars>>
    BY <1>3 DEF Gate, RequireAuth, BeginAuth
  <2>2. DOMAIN session' = {"status", "redirect"} /\ session'.status = session.status
    BY <2>1
  <2>3. LeftInv'
    BY <2>1, <2>2 DEF LeftInv, Gone
  <2>4. QED  BY <2>1, <2>2, <2>3, ApartKeeps DEF Gone
<1>4. CASE ProbeAgain
  <2>1. call' = [Outdated(call) EXCEPT !["probe"] = Sent]
    BY <1>4 DEF ProbeAgain, Probe
  <2>2. /\ call' \in [Calls -> Request]
        /\ ~call'["callback"].live /\ ~call'["signOut"].live
    BY <2>1, OutdatedType, Constants
  <2>3. session'.status = "loading" /\ DOMAIN session' = {"status", "redirect"}
    BY <1>4 DEF ProbeAgain, Probe
  <2>4. LeftInv'
    BY <2>2, <2>3 DEF LeftInv, Gone
  <2>5. QED  BY <1>4, <2>2, <2>3, <2>4, FollowedKeeps DEF ProbeAgain
<1>5. CASE SignOut
  <2>1. call' = [Outdated(call) EXCEPT !["signOut"] = Sent]
    BY <1>5 DEF SignOut
  <2>2. /\ call' \in [Calls -> Request]
        /\ ~call'["callback"].live /\ ~call'["probe"].live
    BY <2>1, OutdatedType, Constants
  <2>3. UNCHANGED <<session, decision, consentVars>> /\ session.status = "authenticated"
    BY <1>5 DEF SignOut
  <2>4. LeftInv'
    BY <2>2 DEF LeftInv
  <2>5. QED  BY <2>2, <2>3, <2>4, ApartKeeps DEF Gone
<1>6. ASSUME NEW k \in Calls, Handle(k)
      PROVE  TabInv' /\ (Gone => session'.status # "authenticated")
  <2>1. PICK answer \in Answers :
            call' = [call EXCEPT ![k] = IF @.stage = "orphan" THEN Idle
                                        ELSE [@ EXCEPT !.stage = "answered", !.answer = answer]]
    BY <1>6 DEF Handle, Answers
  <2>2. /\ call' \in [Calls -> Request]
        /\ \A j \in Calls : call'[j].live => call[j].live
    <3> DEFINE q == [call[k] EXCEPT !.stage = "answered", !.answer = answer]
    <3>1. q \in Request /\ q.live = call[k].live
      BY TabAnswerType
    <3>2. call' = [call EXCEPT ![k] = IF call[k].stage = "orphan" THEN Idle ELSE q]
      BY <2>1
    <3> HIDE DEF q
    <3>3. QED  BY <3>1, <3>2, Constants
  <2>3. UNCHANGED <<session, decision, consentVars>>
    BY <1>6 DEF Handle
  <2>4. LeftInv'
    BY <2>2, <2>3 DEF LeftInv, Gone
  <2>5. QED  BY <2>2, <2>3, <2>4, ApartKeeps DEF Gone
<1>7. ASSUME NEW k \in Calls
      PROVE  /\ Taken(k) \in [Calls -> Request] /\ ~Taken(k)[k].live
             /\ \A j \in Calls : Taken(k)[j].live => call[j].live
  BY Constants DEF Taken
<1>8. CASE ProbeAnswers
  <2>1. call' = Taken("probe") /\ Follow(read) /\ UNCHANGED <<decision, save>>
    BY <1>8 DEF ProbeAnswers
  <2>2. /\ DOMAIN session' = {"status", "redirect"}
        /\ ~call["probe"].live => session' = session
    BY <1>8 DEF ProbeAnswers
  <2>3. LeftInv'
    BY <1>7, <2>1 DEF LeftInv
  <2>4. Gone => session'.status # "authenticated"
    BY <2>2 DEF LeftInv, Gone
  <2>5. QED  BY <1>7, <2>1, <2>2, <2>3, <2>4, FollowedKeeps
<1>9. CASE CallbackAnswers
  <2>1. /\ call' = Taken("callback") /\ session' = session
        /\ Follow(read) /\ UNCHANGED <<decision, save>>
    BY <1>9 DEF CallbackAnswers, LeftInv
  <2>2. LeftInv'
    BY <1>7, <2>1 DEF LeftInv, Gone
  <2>3. QED  BY <1>7, <2>1, <2>2, FollowedKeeps DEF Gone
<1>10. CASE SignOutAnswers
  <2>1. call' = Taken("signOut") /\ Follow(read) /\ UNCHANGED <<decision, save>>
    BY <1>10 DEF SignOutAnswers
  <2>2. \/ session' = session
        \/ /\ call["signOut"].live
           /\ session' = [status |-> "anonymous", redirect |-> "none"]
    BY <1>10 DEF SignOutAnswers
  <2>3. DOMAIN session' = {"status", "redirect"} /\ (Gone => session'.status # "authenticated")
    BY <2>2 DEF Gone
  <2>4. LeftInv'
    BY <1>7, <2>1, <2>2 DEF LeftInv, Gone
  <2>5. QED  BY <1>7, <2>1, <2>3, <2>4, FollowedKeeps
<1>11. QED  BY <1>1, <1>2, <1>3, <1>4, <1>5, <1>6, <1>8, <1>9, <1>10

-----------------------------------------------------------------------------
(* The consent provider *)

\* A step of the provider that leaves the session alone.
LEMMA ProviderKeeps ==
    ASSUME TabInv, UNCHANGED <<session, call>>, decision' \in Choices, consent' \in Consent,
           read' \in [Reads -> Request], save' \in [Savers -> Saving], crossed' \in BOOLEAN,
           AgreeInv'
    PROVE  TabInv' /\ (Gone => session'.status # "authenticated")
BY DEF TabInv, TypeInv, LeftInv, Gone

LEMMA RefreshKeeps ==
    ASSUME TabInv, Refresh
    PROVE  TabInv' /\ (Gone => session'.status # "authenticated")
<1> USE DEF TabInv, TypeInv
<1>1. PICK slot : read' = [Outdated(read) EXCEPT ![slot] = Sent]
  BY DEF Refresh, LoadChoice
<1>2. /\ consent' = [consent EXCEPT !.status = "loading"] /\ crossed' = SaveInFlight
      /\ UNCHANGED <<session, call, decision, save>>
  BY DEF Refresh, LoadChoice, sessionVars
<1>3. /\ read' \in [Reads -> Request]
      /\ \A r \in Reads : read'[r].live => read'[r].stage = "sent"
  BY <1>1, LoadType
<1>4. consent' \in Consent /\ consent'.status = "loading" /\ crossed' \in BOOLEAN
  BY <1>2 DEF Consent, SaveInFlight
<1>5. AgreeInv'
  <2>1. SUFFICES ASSUME ~crossed' PROVE Agreed(consent, read, save, decision)'
    BY DEF AgreeInv
  <2>2. \A s \in Savers : ~InFlight(save[s])
    BY <1>2, <2>1 DEF SaveInFlight
  <2>3. QED  BY <1>2, <1>3, <1>4, <2>2 DEF Agreed
<1>6. QED  BY <1>2, <1>3, <1>4, <1>5, ProviderKeeps

\* A save that starts alone may muddle nothing; any other does.
LEMMA SetKeeps ==
    ASSUME TabInv, NEW s \in Savers, SetPersonalization(s)
    PROVE  TabInv' /\ (Gone => session'.status # "authenticated")
<1> USE DEF TabInv, TypeInv
<1>1. PICK c \in Choices :
          save' = [save EXCEPT ![s] = [stage |-> "sent", choice |-> c, answer |-> "none"]]
  BY DEF SetPersonalization
<1>2. /\ consent' = [consent EXCEPT !.saving = TRUE]
      /\ crossed' = (crossed \/ SaveInFlight \/ \E r \in Reads : InFlight(read[r]))
      /\ UNCHANGED <<session, call, decision, read>>
  BY DEF SetPersonalization, sessionVars
<1>3. /\ save' \in [Savers -> Saving] /\ save'[s].stage = "sent"
      /\ \A t \in Savers \ {s} : save'[t] = save[t]
  BY <1>1 DEF Saving, TabStages, Answers
<1>4. consent' \in Consent /\ consent'.status = consent.status /\ consent'.choice = consent.choice
  BY <1>2 DEF Consent
<1>5. crossed' \in BOOLEAN
  BY <1>2 DEF SaveInFlight
<1>6. AgreeInv'
  <2>1. SUFFICES ASSUME ~crossed' PROVE Agreed(consent, read, save, decision)'
    BY DEF AgreeInv
  <2>2. /\ \A t \in Savers : ~InFlight(save[t])
        /\ \A r \in Reads : ~InFlight(read[r])
    BY <1>2, <2>1 DEF SaveInFlight
  <2>3. QED  BY <1>2, <1>3, <1>4, <2>2 DEF Agreed
<1>7. QED  BY <1>2, <1>3, <1>4, <1>5, <1>6, ProviderKeeps

LEMMA HandleReadKeeps ==
    ASSUME TabInv, NEW r \in Reads, HandleRead(r)
    PROVE  TabInv' /\ (Gone => session'.status # "authenticated")
<1> USE DEF TabInv, TypeInv
<1>1. PICK answer \in {"lost", IF cookie = "alive" THEN decision ELSE "expired"} :
          read' = [read EXCEPT ![r].stage = "answered", ![r].answer = answer]
  BY DEF HandleRead
<1>2. UNCHANGED <<session, call, decision, consent, save, crossed>>
  BY DEF HandleRead, sessionVars
<1>3. answer \in Answers /\ (answer \in Choices => answer = decision)
  BY DEF Answers
<1>4. /\ read' \in [Reads -> Request]
      /\ \A q \in Reads \ {r} : read'[q] = read[q]
      /\ read'[r].answer = answer
  <2> DEFINE next == [read[r] EXCEPT !.stage = "answered", !.answer = answer]
  <2>1. next \in Request /\ next.answer = answer
    BY <1>3, TabAnswerType
  <2>2. read' = [read EXCEPT ![r] = next]
    BY <1>1
  <2> HIDE DEF next
  <2>3. QED  BY <2>1, <2>2
<1>5. InFlight(read[r])
  BY DEF HandleRead
<1>6. AgreeInv'
  BY <1>2, <1>3, <1>4, <1>5 DEF AgreeInv, Agreed
<1>7. QED  BY <1>2, <1>4, <1>6, ProviderKeeps

LEMMA HandleSaveKeeps ==
    ASSUME TabInv, NEW s \in Savers, HandleSave(s)
    PROVE  TabInv' /\ (Gone => session'.status # "authenticated")
<1> USE DEF TabInv, TypeInv
<1>1. PICK lost \in BOOLEAN, done \in BOOLEAN :
          /\ ~lost => done
          /\ decision' = IF done /\ cookie = "alive" THEN save[s].choice ELSE decision
          /\ save' = [save EXCEPT ![s] =
                IF @.stage = "orphan" THEN NoSave
                ELSE [@ EXCEPT !.stage = "answered",
                               !.answer = IF lost THEN "lost"
                                          ELSE IF cookie = "alive" THEN "yes" ELSE "expired"]]
  BY DEF HandleSave
<1> DEFINE answer == IF lost THEN "lost" ELSE IF cookie = "alive" THEN "yes" ELSE "expired"
           q == [save[s] EXCEPT !.stage = "answered", !.answer = answer]
<1>2. /\ q \in Saving /\ q.stage = "answered" /\ q.choice = save[s].choice
      /\ q.answer = "yes" => ~lost /\ cookie = "alive"
  BY DEF Saving, TabStages, Answers
<1>3. save' = [save EXCEPT ![s] = IF save[s].stage = "orphan" THEN NoSave ELSE q]
  BY <1>1
<1> HIDE DEF q
<1>4. /\ save' \in [Savers -> Saving] /\ \A t \in Savers \ {s} : save'[t] = save[t]
      /\ save[s].stage = "orphan" => ~InFlight(save'[s])
      /\ save[s].stage # "orphan" => save'[s] = q
  BY <1>2, <1>3, Constants
<1>5. decision' \in Choices
  BY <1>1 DEF Saving
<1>6. UNCHANGED <<session, call, consent, read, crossed>> /\ InFlight(save[s])
  BY DEF HandleSave, sessionVars
<1>7. AgreeInv'
  <2>1. SUFFICES ASSUME ~crossed PROVE Agreed(consent, read, save, decision)'
    BY <1>6 DEF AgreeInv
  <2>2. /\ \A t \in Savers \ {s} : ~InFlight(save[t])
        /\ \A r \in Reads : ~InFlight(read[r])
    BY <1>6, <2>1 DEF AgreeInv, Agreed
  <2>3. CASE save[s].stage = "orphan"
    <3>1. consent.status # "ready"
      BY <2>1, <2>3 DEF AgreeInv, Agreed
    <3>2. QED  BY <1>4, <1>6, <2>2, <2>3, <3>1 DEF Agreed
  <2>4. CASE save[s].stage # "orphan"
    <3>1. InFlight(save'[s]) /\ (save'[s].answer = "yes" => save'[s].choice = decision')
      BY <1>1, <1>2, <1>4, <2>4
    <3>2. QED  BY <1>2, <1>4, <1>6, <2>2, <2>4, <3>1 DEF Agreed
  <2>5. QED  BY <2>3, <2>4
<1>8. QED  BY <1>4, <1>5, <1>6, <1>7, ProviderKeeps

LEMMA ReadAnswersKeeps ==
    ASSUME TabInv, NEW r \in Reads, ReadAnswers(r)
    PROVE  TabInv' /\ (Gone => session'.status # "authenticated")
<1> USE DEF TabInv, TypeInv
<1> DEFINE reads == [read EXCEPT ![r] = Idle]
<1>1. /\ reads \in [Reads -> Request]
      /\ ~InFlight(reads[r]) /\ \A q \in Reads \ {r} : reads[q] = read[q]
  BY Constants
<1>2. UNCHANGED <<decision, save>>
  BY DEF ReadAnswers
<1>3. CASE ReadExpired(r)
  <2>1. Expire(call) /\ Follow(reads)
    BY <1>3 DEF ReadExpired
  <2> HIDE DEF reads
  <2>2. ~crossed => Agreed(consent, reads, save, decision)
    BY <1>1 DEF AgreeInv, Agreed
  <2>3. QED  BY <1>1, <1>2, <2>1, <2>2, ExpireEffect, FollowKeeps DEF Gone
<1>4. CASE ~ReadExpired(r)
  <2>1. /\ read' = reads /\ UNCHANGED <<session, call, crossed>>
        /\ consent' = IF read[r].live THEN ChoiceShown(r) ELSE consent
        /\ read[r].stage = "answered"
    BY <1>4 DEF ReadAnswers, sessionVars
  <2> HIDE DEF reads
  <2>2. consent' \in Consent
    BY <2>1 DEF ChoiceShown, Consent
  <2>3. AgreeInv'
    <3>1. SUFFICES ASSUME ~crossed PROVE Agreed(consent, read, save, decision)'
      BY <2>1 DEF AgreeInv
    <3>2. \A s \in Savers : ~InFlight(save[s])
      BY <2>1, <3>1 DEF AgreeInv, Agreed
    <3>3. consent'.status = "ready" => consent'.choice = decision
      BY <2>1, <3>1, <3>2 DEF AgreeInv, Agreed, ChoiceShown, Consent
    <3>4. QED  BY <1>1, <1>2, <2>1, <3>1, <3>2, <3>3 DEF AgreeInv, Agreed
  <2>4. QED  BY <1>1, <1>2, <2>1, <2>2, <2>3, ProviderKeeps
<1>5. QED  BY <1>3, <1>4

LEMMA SaveAnswersKeeps ==
    ASSUME TabInv, NEW s \in Savers, SaveAnswers(s)
    PROVE  TabInv' /\ (Gone => session'.status # "authenticated")
<1> USE DEF TabInv, TypeInv
<1>1. /\ save' = [save EXCEPT ![s] = NoSave] /\ save[s].stage = "answered"
      /\ UNCHANGED <<decision, crossed>>
  BY DEF SaveAnswers
<1>2. /\ save' \in [Savers -> Saving]
      /\ ~InFlight(save'[s]) /\ \A t \in Savers \ {s} : save'[t] = save[t]
  BY <1>1, Constants
<1>3. ASSUME consent' \in Consent, read' \in [Reads -> Request],
             \A r \in Reads : read'[r].stage = read[r].stage,
             \/ consent'.status = "error"
             \/ consent'.choice = save[s].choice /\ save[s].answer = "yes"
      PROVE  AgreeInv'
  <2>1. SUFFICES ASSUME ~crossed PROVE Agreed(consent, read, save, decision)'
    BY <1>1 DEF AgreeInv
  <2>2. /\ \A t \in Savers : ~InFlight(save'[t])
        /\ \A r \in Reads : ~InFlight(read[r])
    BY <1>1, <1>2, <2>1 DEF AgreeInv, Agreed
  <2>3. consent'.status = "ready" => consent'.choice = decision
    BY <1>1, <1>3, <2>1 DEF AgreeInv, Agreed
  <2>4. QED  BY <1>1, <1>3, <2>2, <2>3 DEF Agreed
<1>4. CASE save[s].answer = "yes"
  <2>1. /\ consent' = [status |-> "ready", choice |-> save[s].choice, saving |-> FALSE]
        /\ UNCHANGED <<session, call, read>>
    BY <1>4 DEF SaveAnswers, sessionVars
  <2>2. consent' \in Consent
    BY <2>1 DEF Consent, Saving
  <2>3. AgreeInv'
    BY <1>3, <1>4, <2>1, <2>2
  <2>4. QED  BY <1>1, <1>2, <2>1, <2>2, <2>3, ProviderKeeps
<1>5. CASE save[s].answer = "lost"
  <2>1. /\ consent' = [consent EXCEPT !.status = "error", !.saving = FALSE]
        /\ UNCHANGED <<session, call, read>>
    BY <1>5 DEF SaveAnswers, sessionVars
  <2>2. consent' \in Consent /\ consent'.status = "error"
    BY <2>1 DEF Consent
  <2>3. AgreeInv'
    BY <1>3, <2>1, <2>2
  <2>4. QED  BY <1>1, <1>2, <2>1, <2>2, <2>3, ProviderKeeps
<1>6. CASE save[s].answer = "expired"
  <2>1. Expire(call)
    BY <1>6 DEF SaveAnswers
  <2>2. /\ \/ consent' = [consent EXCEPT !.status = "error", !.saving = FALSE]
           \/ consent' = [status |-> "error", choice |-> "unset", saving |-> FALSE]
        /\ read' = read \/ read' = Outdated(read)
    BY <1>6 DEF SaveAnswers
  <2>3. consent' \in Consent /\ consent'.status = "error"
    <3>1. CASE consent' = [consent EXCEPT !.status = "error", !.saving = FALSE]
      BY <3>1 DEF Consent
    <3>2. CASE consent' = [status |-> "error", choice |-> "unset", saving |-> FALSE]
      BY <3>2 DEF Consent
    <3>3. QED  BY <2>2, <3>1, <3>2
  <2>4. read' \in [Reads -> Request] /\ \A r \in Reads : read'[r].stage = read[r].stage
    BY <2>2, OutdatedType
  <2>5. AgreeInv'
    BY <1>3, <2>3, <2>4
  <2>6. QED  BY <1>1, <1>2, <2>1, <2>3, <2>4, <2>5, ExpireEffect DEF Gone
<1>7. QED  BY <1>4, <1>5, <1>6 DEF SaveAnswers

-----------------------------------------------------------------------------
LEMMA Initially == TabInit => TabInv
<1> SUFFICES ASSUME TabInit PROVE TabInv
  OBVIOUS
<1>1. TypeInv
  BY Constants DEF TabInit, TypeInv, FreshSession, FreshConsent, Consent
<1>2. LeftInv
  BY DEF TabInit, LeftInv, Gone, FreshSession, Idle, Sent
<1>3. AgreeInv
  BY Constants DEF TabInit, AgreeInv, Agreed, FreshConsent, NoSave, Idle
<1>4. QED  BY <1>1, <1>2, <1>3 DEF TabInv

LEMMA StepKeeps ==
    TabInv /\ [TabNext]_tabVars =>
        TabInv' /\ (Gone => session'.status # "authenticated")
<1> SUFFICES ASSUME TabInv, [TabNext]_tabVars
             PROVE  TabInv' /\ (Gone => session'.status # "authenticated")
  OBVIOUS
<1>1. CASE UNCHANGED tabVars
  BY <1>1 DEF tabVars, sessionVars, consentVars, TabInv, TypeInv, LeftInv, AgreeInv, Agreed, Gone
<1>2. CASE TabNext
  BY <1>2, SessionKeeps, RefreshKeeps, SetKeeps, HandleReadKeeps, HandleSaveKeeps,
     ReadAnswersKeeps, SaveAnswersKeeps DEF TabNext, Progress, User
<1>3. QED  BY <1>1, <1>2

\* Which requests still count, and what a load or a save under way is bound to
\* show, in every reachable state of a tab.
THEOREM TabInvariance == TabSpec => []TabInv
<1>1. TabInv /\ [TabNext]_tabVars => TabInv'
  BY StepKeeps
<1>2. QED  BY <1>1, Initially, PTL DEF TabSpec

\* Whatever answers come late, however many requests are in flight: a page that
\* has learned that nobody is signed in does not sign anybody in by itself.
THEOREM LeftIsLeft == TabSpec => LeftStaysLeft
<1>1. TabInv /\ [TabNext]_tabVars =>
          [session.status \in {"anonymous", "expired"} => session'.status # "authenticated"]_tabVars
  BY StepKeeps DEF Gone
<1>2. QED  BY <1>1, TabInvariance, PTL DEF TabSpec, LeftStaysLeft

\* Whatever is lost or reordered: the choice shown is the one the server acts
\* on, once nothing is in flight, unless saves overlapped.
THEOREM ChoiceSettles == TabSpec => []ChoiceAgrees
<1>1. TabInv => ChoiceAgrees
  BY DEF TabInv, AgreeInv, Agreed, ChoiceAgrees, SaveInFlight
<1>2. QED  BY <1>1, TabInvariance, PTL

HIDE DEF Choices, Calls, Savers, InFlight

-----------------------------------------------------------------------------
(* The routes *)

Holding == {"locked", "read", "written"}

LockHeld == \A r \in Requests :
    req[r].stage \in Holding => lock = r /\ req[r].kind \in Puts

ReadIsCurrent == \A r \in Requests :
    req[r].stage = "read" =>
        req[r].kind = "traveler" /\ (alive => req[r].row = traveler)

WriteIsCurrent == \A r \in Requests :
    req[r].stage = "written" =>
        /\ alive
        /\ req[r].kind = "traveler" =>
             /\ Log!Complete(Log!Merge(traveler, req[r].body))
             /\ req[r].row = Log!Merge(traveler, req[r].body)
        /\ req[r].kind = "taste" => req[r].version = versions + 1

IInv == ServerTypeOK /\ LockHeld /\ ReadIsCurrent /\ WriteIsCurrent

USE ConstantsAssumption DEF Stages, Puts, Kinds, Outcomes

-----------------------------------------------------------------------------
\* Merging a body over a row gives a row.
LEMMA MergeType ==
    ASSUME NEW row \in Log!Rows, NEW body \in Log!Bodies
    PROVE  Log!Merge(row, body) \in Log!Rows
BY DEF Log!Merge, Log!Rows, Log!Bodies

LEMMA NoRowType == Log!NoRow \in Log!Rows /\ Log!NoRow \in Log!Bodies
BY DEF Log!NoRow, Log!Rows, Log!Bodies

\* The slot of an answered request is well typed.
LEMMA AnswerType ==
    ASSUME ServerTypeOK, NEW r \in Requests, NEW outcome \in Outcomes,
           NEW row \in Log!Rows, NEW version \in Nat, Answer(r, outcome, row, version)
    PROVE  /\ req' \in [Requests -> Requested]
           /\ req'[r].stage = "answered"
           /\ \A q \in Requests \ {r} : req'[q] = req[q]
BY NoRowType DEF ServerTypeOK, Answer, Fresh, Requested

\* No request, no lock: the invariant holds at the start.
THEOREM Initial == Init => IInv
BY NoRowType DEF Init, IInv, ServerTypeOK, LockHeld, ReadIsCurrent, WriteIsCurrent,
                 Fresh, Requested, Holding

-----------------------------------------------------------------------------
\* Every step of the server, and of its clients, keeps the invariant.

\* A request that is answered without having changed the tables.
LEMMA AnswerKeeps ==
    ASSUME IInv, NEW r \in Requests, NEW outcome \in Outcomes,
           NEW row \in Log!Rows, NEW version \in Nat, Answer(r, outcome, row, version),
           lock' = lock \/ Release(r), req[r].stage \in Holding => Release(r),
           UNCHANGED <<alive, traveler, versions>>
    PROVE  IInv'
<1>1. /\ req' \in [Requests -> Requested]
      /\ req'[r].stage = "answered"
      /\ \A q \in Requests \ {r} : req'[q] = req[q]
  BY AnswerType DEF IInv
<1>2. ServerTypeOK'
  BY <1>1 DEF IInv, ServerTypeOK, Release
<1>3. LockHeld'
  <2>1. \A q \in Requests \ {r} : req[q].stage \in Holding => lock # r
    BY DEF IInv, LockHeld
  <2>2. QED  BY <1>1, <2>1 DEF IInv, LockHeld, Release, Holding
<1>4. ReadIsCurrent' /\ WriteIsCurrent'
  BY <1>1 DEF IInv, ReadIsCurrent, WriteIsCurrent
<1>5. QED  BY <1>2, <1>3, <1>4 DEF IInv

\* A request that goes on, none of whose tables has changed.
LEMMA GotoKeeps ==
    ASSUME IInv, NEW r \in Requests, NEW stage \in Stages \ Holding,
           req[r].stage \notin Holding, Goto(r, stage),
           UNCHANGED <<alive, traveler, versions, lock>>
    PROVE  IInv'
<1>1. req' = [req EXCEPT ![r].stage = stage]
  BY DEF Goto
<1>2. ServerTypeOK'
  BY <1>1 DEF IInv, ServerTypeOK, Requested
<1>3. QED
  BY <1>1, <1>2 DEF IInv, ServerTypeOK, LockHeld, ReadIsCurrent, WriteIsCurrent, Holding, Requested

LEMMA ClientKeeps ==
    ASSUME IInv, NEW r \in Requests, Client(r)
    PROVE  IInv'
<1>1. ASSUME NEW kind \in Kinds \ {"none"}, NEW body \in Log!Bodies, Send(r, kind, body)
      PROVE  IInv'
  <2>1. [Fresh EXCEPT !.stage = "sent", !.kind = kind, !.body = body] \in Requested
    BY NoRowType DEF Fresh, Requested
  <2>2. req' \in [Requests -> Requested] /\ req'[r].stage = "sent"
    BY <1>1, <2>1 DEF Send, IInv, ServerTypeOK, Fresh
  <2>3. \A q \in Requests \ {r} : req'[q] = req[q]
    BY <1>1 DEF Send, IInv, ServerTypeOK
  <2>4. QED
    BY <1>1, <2>2, <2>3 DEF Send, IInv, ServerTypeOK, LockHeld, ReadIsCurrent, WriteIsCurrent, Holding
<1>2. CASE Forget(r)
  <2>1. Fresh \in Requested /\ Fresh.stage = "idle"
    BY NoRowType DEF Fresh, Requested
  <2>2. req' \in [Requests -> Requested] /\ req'[r].stage = "idle"
    BY <1>2, <2>1 DEF Forget, IInv, ServerTypeOK
  <2>3. \A q \in Requests \ {r} : req'[q] = req[q]
    BY <1>2 DEF Forget, IInv, ServerTypeOK
  <2>4. QED
    BY <1>2, <2>2, <2>3 DEF Forget, IInv, ServerTypeOK, LockHeld, ReadIsCurrent, WriteIsCurrent, Holding
<1>3. QED  BY <1>1, <1>2 DEF Client

LEMMA ServeKeeps ==
    ASSUME IInv, NEW r \in Requests, Serve(r)
    PROVE  IInv'
<1> USE DEF At
<1>1. CASE Admit(r)
  <2>1. CASE alive
    BY <1>1, <2>1, GotoKeeps DEF Admit, Holding
  <2>2. CASE ~alive
    BY <1>1, <2>2, NoRowType, AnswerKeeps DEF Admit, Holding
  <2>3. QED  BY <2>1, <2>2
<1>2. CASE GetTraveler(r) \/ GetTaste(r)
  <2>1. traveler \in Log!Rows /\ versions \in Nat
    BY DEF IInv, ServerTypeOK
  <2>2. CASE GetTraveler(r)
    BY <2>1, <2>2, AnswerKeeps DEF GetTraveler, Holding
  <2>3. CASE GetTaste(r)
    BY <2>1, <2>3, NoRowType, AnswerKeeps DEF GetTaste, Holding
  <2>4. QED  BY <1>2, <2>2, <2>3
<1>3. CASE LockUser(r)
  <2>1. req' = [req EXCEPT ![r].stage = "locked"]
    BY <1>3 DEF LockUser, Goto
  <2>2. ServerTypeOK'
    BY <1>3, <2>1 DEF LockUser, IInv, ServerTypeOK, Requested
  <2>3. \A q \in Requests : req[q].stage \notin Holding
    BY <1>3 DEF LockUser, IInv, LockHeld
  <2>4. QED
    BY <1>3, <2>1, <2>2, <2>3
    DEF LockUser, IInv, ServerTypeOK, Requested, LockHeld, ReadIsCurrent, WriteIsCurrent, Holding
<1>4. CASE ReadTraveler(r)
  <2>1. req' = [req EXCEPT ![r].stage = "read", ![r].row = traveler]
    BY <1>4 DEF ReadTraveler
  <2>2. ServerTypeOK'
    <3>1. req[r] \in Requested /\ traveler \in Log!Rows
      BY DEF IInv, ServerTypeOK
    <3>2. [req[r] EXCEPT !.stage = "read", !.row = traveler] \in Requested
      BY <3>1 DEF Requested
    <3>3. req' = [req EXCEPT ![r] = [req[r] EXCEPT !.stage = "read", !.row = traveler]]
      BY <2>1, <3>1 DEF IInv, ServerTypeOK, Requested
    <3>4. QED  BY <1>4, <3>2, <3>3 DEF ReadTraveler, IInv, ServerTypeOK
  <2>3. QED
    BY <1>4, <2>1, <2>2
    DEF ReadTraveler, IInv, ServerTypeOK, Requested, LockHeld, ReadIsCurrent, WriteIsCurrent, Holding
<1>5. CASE Refuse(r)
  BY <1>5, NoRowType, AnswerKeeps DEF Refuse
<1>6. CASE WriteTraveler(r)
  <2> DEFINE merged == Log!Merge(req[r].row, req[r].body)
  <2>1. req' = [req EXCEPT ![r].stage = "written", ![r].row = merged]
    BY <1>6 DEF WriteTraveler
  <2>2. merged \in Log!Rows
    BY MergeType DEF IInv, ServerTypeOK, Requested
  <2>3. ServerTypeOK'
    <3> HIDE DEF merged
    <3>1. req[r] \in Requested
      BY DEF IInv, ServerTypeOK
    <3>2. [req[r] EXCEPT !.stage = "written", !.row = merged] \in Requested
      BY <2>2, <3>1 DEF Requested
    <3>3. req' = [req EXCEPT ![r] = [req[r] EXCEPT !.stage = "written", !.row = merged]]
      BY <2>1, <3>1 DEF IInv, ServerTypeOK, Requested
    <3>4. QED  BY <1>6, <3>2, <3>3 DEF WriteTraveler, IInv, ServerTypeOK
  <2>4. req[r].row = traveler /\ alive /\ Log!Complete(merged)
    BY <1>6 DEF WriteTraveler, IInv, ReadIsCurrent
  <2>5. \A q \in Requests : q # r => req'[q] = req[q]
    BY <2>1 DEF IInv, ServerTypeOK
  <2>6. /\ req'[r].stage = "written" /\ req'[r].row = merged
        /\ req'[r].kind = "traveler" /\ req'[r].body = req[r].body
    BY <1>6, <2>1 DEF WriteTraveler, IInv, ServerTypeOK, Requested
  <2>7. LockHeld'
    BY <1>6, <2>5, <2>6 DEF WriteTraveler, IInv, LockHeld, Holding
  <2>8. UNCHANGED <<alive, traveler, versions>>
    BY <1>6 DEF WriteTraveler
  <2>9. ReadIsCurrent'
    BY <2>5, <2>6, <2>8 DEF IInv, ReadIsCurrent
  <2>10. merged = Log!Merge(traveler, req[r].body)
    BY <2>4
  <2>11. WriteIsCurrent'
    <3> HIDE DEF merged
    <3> QED  BY <2>4, <2>5, <2>6, <2>8, <2>10 DEF IInv, WriteIsCurrent
  <2>12. QED  BY <2>3, <2>7, <2>9, <2>11 DEF IInv
<1>7. CASE WriteTaste(r)
  <2>1. req' = [req EXCEPT ![r].stage = "written", ![r].version = versions + 1]
    BY <1>7 DEF WriteTaste
  <2>2. ServerTypeOK'
    <3>1. req[r] \in Requested /\ versions + 1 \in Nat
      BY DEF IInv, ServerTypeOK
    <3>2. [req[r] EXCEPT !.stage = "written", !.version = versions + 1] \in Requested
      BY <3>1 DEF Requested
    <3>3. req' = [req EXCEPT ![r] = [req[r] EXCEPT !.stage = "written", !.version = versions + 1]]
      BY <2>1, <3>1 DEF IInv, ServerTypeOK, Requested
    <3>4. QED  BY <1>7, <3>2, <3>3 DEF WriteTaste, IInv, ServerTypeOK
  <2>3. QED
    BY <1>7, <2>1, <2>2
    DEF WriteTaste, IInv, ServerTypeOK, Requested, LockHeld, ReadIsCurrent, WriteIsCurrent, Holding
<1>8. CASE Commit(r)
  <2>1. req[r].row \in Log!Rows /\ req[r].version \in Nat
    BY DEF IInv, ServerTypeOK, Requested
  <2>2. /\ req' \in [Requests -> Requested]
        /\ req'[r].stage = "answered"
        /\ \A q \in Requests \ {r} : req'[q] = req[q]
    BY <1>8, <2>1, AnswerType DEF Commit, IInv
  <2>3. \A q \in Requests \ {r} : req'[q].stage \notin Holding
    BY <1>8, <2>2 DEF Commit, IInv, LockHeld, Holding
  <2>4. ServerTypeOK'
    BY <1>8, <2>1, <2>2 DEF Commit, IInv, ServerTypeOK, Release
  <2>5. QED
    BY <2>2, <2>3, <2>4 DEF IInv, LockHeld, ReadIsCurrent, WriteIsCurrent, Holding
<1>9. CASE Erase(r)
  <2>1. /\ req' \in [Requests -> Requested]
        /\ req'[r].stage = "answered"
        /\ \A q \in Requests \ {r} : req'[q] = req[q]
    BY <1>9, NoRowType, AnswerType DEF Erase, IInv
  <2>2. ServerTypeOK'
    BY <1>9, <2>1, NoRowType DEF Erase, IInv, ServerTypeOK
  <2>3. QED
    BY <1>9, <2>1, <2>2 DEF Erase, IInv, LockHeld, ReadIsCurrent, WriteIsCurrent, Holding
<1>10. CASE Fail(r)
  BY <1>10, NoRowType, AnswerKeeps DEF Fail
<1>11. QED
  BY <1>1, <1>2, <1>3, <1>4, <1>5, <1>6, <1>7, <1>8, <1>9, <1>10 DEF Serve

LEMMA StutterKeeps == IInv /\ UNCHANGED serverVars => IInv'
BY DEF serverVars, IInv, ServerTypeOK, LockHeld, ReadIsCurrent, WriteIsCurrent

\* In every reachable state the lock has one holder, and what it has read or
\* written is current.
THEOREM Invariance == Spec => []IInv
<1>1. IInv /\ [Next]_serverVars => IInv'
  BY ServeKeeps, ClientKeeps, StutterKeeps DEF Next
<1>2. QED  BY <1>1, Initial, PTL DEF Spec

\* The types are part of the invariant.
THEOREM TypeCorrect == Spec => []ServerTypeOK
<1>1. IInv => ServerTypeOK
  BY DEF IInv
<1>2. QED  BY <1>1, Invariance, PTL

-----------------------------------------------------------------------------
\* The promise: every step is a step of ProfileLog, or changes nothing of it.

Wanted == [r \in Requests |-> Wish(r)]

LEMMA OneWish ==
    ASSUME NEW r \in Requests, \A q \in Requests \ {r} : req'[q] = req[q]
    PROVE  Wanted' = [Wanted EXCEPT ![r] = Wish(r)']
BY DEF Wanted, Wish, Open

\* A request whose wish is as before leaves the promise alone.
LEMMA SameWish ==
    ASSUME NEW r \in Requests, \A q \in Requests \ {r} : req'[q] = req[q],
           Wish(r)' = Wish(r), UNCHANGED <<alive, traveler, versions>>
    PROVE  UNCHANGED Log!vars
<1>1. Wanted' = Wanted
  BY DEF Wanted, Wish, Open
<1>2. QED  BY <1>1 DEF Log!vars, Wanted

\* Whoever is answered has no wish any more.
LEMMA Answered ==
    ASSUME IInv, NEW r \in Requests, NEW outcome \in Outcomes,
           NEW row \in Log!Rows, NEW version \in Nat, Answer(r, outcome, row, version)
    PROVE  Log!Served(r)
<1>1. /\ req'[r].stage = "answered"
      /\ \A q \in Requests \ {r} : req'[q] = req[q]
  BY AnswerType DEF IInv
<1>2. Wish(r)' = Log!NoWish
  BY <1>1 DEF Wish, Open, Log!NoWish, Log!NoRow
<1>3. QED  BY <1>1, <1>2, OneWish DEF Log!Served, Wanted

LEMMA Withdrawn ==
    ASSUME IInv, NEW r \in Requests, NEW outcome \in Outcomes,
           NEW row \in Log!Rows, NEW version \in Nat, Answer(r, outcome, row, version),
           UNCHANGED <<alive, traveler, versions>>
    PROVE  Log!Next
BY Answered DEF Log!Next, Log!Withdraw

\* What the request has done so far is invisible.
LEMMA Underway ==
    ASSUME IInv, NEW r \in Requests, Open(r), Open(r)',
           \A q \in Requests \ {r} : req'[q] = req[q],
           req'[r].kind = req[r].kind, req'[r].body = req[r].body,
           UNCHANGED <<alive, traveler, versions>>
    PROVE  UNCHANGED Log!vars
<1>1. Wish(r)' = Wish(r)
  BY DEF Wish
<1>2. QED  BY <1>1, SameWish

LEMMA ClientMaps ==
    ASSUME IInv, NEW r \in Requests, Client(r)
    PROVE  [Log!Next]_(Log!vars)
<1>1. ASSUME NEW kind \in Kinds \ {"none"}, NEW body \in Log!Bodies, Send(r, kind, body)
      PROVE  [Log!Next]_(Log!vars)
  <2>1. /\ req'[r].kind = kind /\ req'[r].body = body /\ req'[r].stage = "sent"
        /\ \A q \in Requests \ {r} : req'[q] = req[q]
    BY <1>1 DEF Send, Fresh, IInv, ServerTypeOK
  <2>2. Wish(r) = Log!NoWish
    BY <1>1 DEF Send, Wish, Open, Log!NoWish, Log!NoRow
  <2>3. CASE kind \in Puts \cup {"erase"}
    <3>1. Wish(r)' = [kind |-> kind, body |-> body]
      BY <2>1, <2>3 DEF Wish, Open
    <3>2. Wish(r)' \in Log!Wishes
      BY <2>3, <3>1 DEF Log!Wishes
    <3>3. Wanted' = [Wanted EXCEPT ![r] = Wish(r)'] /\ Wanted[r] = Log!NoWish
      BY <2>1, <2>2, OneWish DEF Wanted
    <3>4. Log!Ask(r)
      BY <1>1, <3>2, <3>3 DEF Log!Ask, Wanted, Send
    <3>5. QED  BY <3>4 DEF Log!Next
  <2>4. CASE kind \notin Puts \cup {"erase"}
    <3>1. Wish(r)' = Log!NoWish
      BY <2>1, <2>4 DEF Wish, Open, Log!NoWish, Log!NoRow
    <3>2. QED  BY <1>1, <2>1, <2>2, <3>1, SameWish DEF Send
  <2>5. QED  BY <2>3, <2>4
<1>2. CASE Forget(r)
  <2>1. req'[r].stage = "idle" /\ \A q \in Requests \ {r} : req'[q] = req[q]
    BY <1>2 DEF Forget, Fresh, IInv, ServerTypeOK
  <2>2. Wish(r)' = Wish(r)
    BY <1>2, <2>1 DEF Forget, Wish, Open
  <2>3. QED  BY <1>2, <2>1, <2>2, SameWish DEF Forget
<1>3. QED  BY <1>1, <1>2 DEF Client

LEMMA ServeMaps ==
    ASSUME IInv, NEW r \in Requests, Serve(r)
    PROVE  [Log!Next]_(Log!vars)
<1> USE DEF At
<1>a. /\ req \in [Requests -> Requested]
      /\ traveler \in Log!Rows /\ versions \in Nat
      /\ req[r].row \in Log!Rows /\ req[r].version \in Nat
  BY DEF IInv, ServerTypeOK, Requested
<1>1. CASE Admit(r)
  <2>1. CASE alive
    <3>1. /\ Open(r) /\ Open(r)' /\ req'[r].kind = req[r].kind /\ req'[r].body = req[r].body
          /\ \A q \in Requests \ {r} : req'[q] = req[q]
      BY <1>a, <1>1, <2>1 DEF Admit, Goto, Open, Requested
    <3>2. QED  BY <1>1, <3>1, Underway DEF Admit
  <2>2. CASE ~alive
    BY <1>1, <2>2, NoRowType, Withdrawn DEF Admit
  <2>3. QED  BY <2>1, <2>2
<1>2. CASE GetTraveler(r) \/ GetTaste(r)
  <2>1. CASE GetTraveler(r)
    BY <1>a, <2>1, Withdrawn DEF GetTraveler
  <2>2. CASE GetTaste(r)
    BY <1>a, <2>2, NoRowType, Withdrawn DEF GetTaste
  <2>3. QED  BY <1>2, <2>1, <2>2
<1>3. CASE LockUser(r)
  <2>1. /\ Open(r) /\ Open(r)' /\ req'[r].kind = req[r].kind /\ req'[r].body = req[r].body
        /\ \A q \in Requests \ {r} : req'[q] = req[q]
    BY <1>a, <1>3 DEF LockUser, Goto, Open, Requested
  <2>2. QED  BY <1>3, <2>1, Underway DEF LockUser
<1>4. CASE ReadTraveler(r)
  <2>1. /\ Open(r) /\ Open(r)' /\ req'[r].kind = req[r].kind /\ req'[r].body = req[r].body
        /\ \A q \in Requests \ {r} : req'[q] = req[q]
    BY <1>a, <1>4 DEF ReadTraveler, Open, Requested
  <2>2. QED  BY <1>4, <2>1, Underway DEF ReadTraveler
<1>5. CASE Refuse(r)
  BY <1>5, NoRowType, Withdrawn DEF Refuse
<1>6. CASE WriteTraveler(r)
  <2>1. /\ Open(r) /\ Open(r)' /\ req'[r].kind = req[r].kind /\ req'[r].body = req[r].body
        /\ \A q \in Requests \ {r} : req'[q] = req[q]
    BY <1>a, <1>6 DEF WriteTraveler, Open, Requested
  <2>2. QED  BY <1>6, <2>1, Underway DEF WriteTraveler
<1>7. CASE WriteTaste(r)
  <2>1. /\ Open(r) /\ Open(r)' /\ req'[r].kind = req[r].kind /\ req'[r].body = req[r].body
        /\ \A q \in Requests \ {r} : req'[q] = req[q]
    BY <1>a, <1>7 DEF WriteTaste, Open, Requested
  <2>2. QED  BY <1>7, <2>1, Underway DEF WriteTaste
<1>8. CASE Commit(r)
  <2>1. Log!Served(r)
    BY <1>a, <1>8, Answered DEF Commit
  <2>2. Wanted[r].kind = req[r].kind /\ Wanted[r].body = req[r].body
    BY <1>8 DEF Commit, Wanted, Wish, Open
  <2>3. CASE req[r].kind = "traveler"
    <3>1. /\ alive /\ Log!Complete(Log!Merge(traveler, req[r].body))
          /\ traveler' = Log!Merge(traveler, req[r].body) /\ UNCHANGED <<alive, versions>>
      BY <1>8, <2>3 DEF Commit, IInv, WriteIsCurrent
    <3>2. Log!PutTraveler(r)
      BY <2>1, <2>2, <2>3, <3>1 DEF Log!PutTraveler, Wanted
    <3>3. QED  BY <3>2 DEF Log!Next
  <2>4. CASE req[r].kind = "taste"
    <3>1. alive /\ versions' = versions + 1 /\ UNCHANGED <<alive, traveler>>
      BY <1>8, <2>4 DEF Commit, IInv, WriteIsCurrent
    <3>2. Log!PutTaste(r)
      BY <2>1, <2>2, <2>4, <3>1 DEF Log!PutTaste, Wanted
    <3>3. QED  BY <3>2 DEF Log!Next
  <2>5. QED  BY <1>8, <2>3, <2>4 DEF Commit
<1>9. CASE Erase(r)
  <2>1. Log!Served(r)
    BY <1>9, NoRowType, Answered DEF Erase
  <2>2. Wanted[r].kind = "erase"
    BY <1>9 DEF Erase, Wanted, Wish, Open
  <2>3. Log!Erase(r)
    BY <1>9, <2>1, <2>2 DEF Erase, Log!Erase, Wanted
  <2>4. QED  BY <2>3 DEF Log!Next
<1>10. CASE Fail(r)
  BY <1>10, NoRowType, Withdrawn DEF Fail
<1>11. QED
  BY <1>1, <1>2, <1>3, <1>4, <1>5, <1>6, <1>7, <1>8, <1>9, <1>10 DEF Serve

\* Whatever requests of one user overlap, each successful write takes effect
\* whole, at its commit, over the rows that are there at that moment.
THEOREM KeepsThePromise == Spec => Serial
<1>1. Init => Log!Init
  BY DEF Init, Log!Init, Fresh, Wish, Open, Log!NoWish, Log!NoRow
<1>2. IInv /\ [Next]_serverVars => [Log!Next]_(Log!vars)
  <2>1. UNCHANGED serverVars => UNCHANGED Log!vars
    BY DEF serverVars, Log!vars, Wish, Open
  <2>2. QED  BY <2>1, ServeMaps, ClientMaps DEF Next
<1>3. QED  BY <1>1, <1>2, Invariance, PTL DEF Spec, Serial, Log!Spec

-----------------------------------------------------------------------------
(* The page *)

Roles == {"none", "other", "load", "save", "stale", "erase"}
Done(r) == req[r].stage = "answered" /\ req[r].outcome = "done"

PageTypeOK ==
    /\ page \in [status : {"away", "loading", "ready", "error"},
                 traveler : Log!Rows, versions : Nat]
    /\ role \in [Requests -> Roles]
    /\ muddled \in BOOLEAN

\* A role says what the request is for; none is free of one.
RolesFit == \A r \in Requests :
    /\ role[r] = "none" <=> req[r].stage = "idle"
    /\ role[r] = "load" => req[r].kind \in {"getTraveler", "getTaste"}
    /\ role[r] \in {"save", "stale"} => req[r].kind \in Puts
    /\ role[r] = "erase" => req[r].kind = "erase"

\* A page saves when it is ready, and loads when it is loading.
RolesInPhase == \A r \in Requests :
    /\ role[r] \in {"save", "stale", "erase"} => page.status = "ready"
    /\ role[r] = "load" => page.status = "loading"

OneOfEach == \A q, r \in Requests :
    role[q] = role[r] /\ role[r] \in {"load", "save"} /\ req[q].kind = req[r].kind => q = r

\* An erasure is for good.
ErasedIsGone ==
    /\ ~alive => traveler = Log!NoRow /\ versions = 0
    /\ \A r \in Requests : req[r].kind = "erase" /\ Done(r) => ~alive

AnswerIsKept(r) ==
    /\ req[r].kind \in {"getTraveler", "traveler"} => req[r].row = traveler
    /\ req[r].kind \in {"getTaste", "taste"} => req[r].version = versions

LoadIsCurrent ==
    page.status = "loading" /\ ~muddled =>
        \A r \in Requests : role[r] = "load" /\ Done(r) => AnswerIsKept(r)

ShownIsKept(kind) ==
    /\ kind = "traveler" => page.traveler = traveler
    /\ kind = "taste" => page.versions = versions

Newest(r, kind) == role[r] = "save" /\ req[r].kind = kind

\* No save that a newer one has outdated can take effect any more.
Overtaken(kind) == alive =>
    \A q \in Requests : role[q] = "stale" /\ req[q].kind = kind => ~Open(q)

Agrees(kind) ==
    /\ \A r \in Requests : Newest(r, kind) /\ Done(r) => AnswerIsKept(r) /\ Overtaken(kind)
    /\ (\A r \in Requests : ~Newest(r, kind)) => ShownIsKept(kind) /\ Overtaken(kind)

ErasurePending == \E r \in Requests : role[r] = "erase" /\ Done(r)

Agreement ==
    page.status = "ready" /\ ~muddled =>
        ErasurePending \/ (\A kind \in Puts : Agrees(kind))

PageShape == PageTypeOK /\ RolesFit /\ RolesInPhase /\ OneOfEach /\ ErasedIsGone
PagePart == PageShape /\ LoadIsCurrent /\ Agreement
PageInv == IInv /\ PagePart

USE DEF Roles

-----------------------------------------------------------------------------
\* What a step of the server does to the tables and to the request it serves.

LEMMA AnswerEffect ==
    ASSUME NEW r \in Requests, NEW outcome, NEW row, NEW version, req \in [Requests -> Requested],
           Answer(r, outcome, row, version)
    PROVE  /\ req'[r].stage = "answered" /\ req'[r].outcome = outcome
           /\ req'[r].row = row /\ req'[r].version = version
           /\ req'[r].kind = req[r].kind
           /\ \A q \in Requests \ {r} : req'[q] = req[q]
BY DEF Answer, Fresh

TablesKept == UNCHANGED <<alive, traveler, versions>>

\* The server serves whoever waits, and goes on or answers.
Serves(r) ==
    /\ Open(r) /\ req'[r].stage # "idle" /\ req'[r].kind = req[r].kind
    /\ \A q \in Requests \ {r} : req'[q] = req[q]

\* It writes nothing, and what it answers with success is a read.
ServesQuietly(r) ==
    /\ TablesKept
    /\ Done(r)' => req[r].kind \in {"getTraveler", "getTaste"} /\ AnswerIsKept(r)'

ServesSave(r) ==
    /\ req[r].kind \in Puts /\ alive /\ UNCHANGED alive
    /\ Done(r)' /\ AnswerIsKept(r)'
    /\ req[r].kind # "traveler" => UNCHANGED traveler
    /\ req[r].kind # "taste" => UNCHANGED versions

ServesErasure(r) ==
    /\ req[r].kind = "erase" /\ Done(r)'
    /\ ~alive' /\ traveler' = Log!NoRow /\ versions' = 0

LEMMA ServeEffect ==
    ASSUME IInv, NEW r \in Requests, Serve(r)
    PROVE  Serves(r) /\ (ServesQuietly(r) \/ ServesSave(r) \/ ServesErasure(r))
<1> USE DEF At, Serves, Open
<1>a. req \in [Requests -> Requested] /\ req[r] \in Requested
  BY DEF IInv, ServerTypeOK
<1>1. CASE Admit(r)
  <2>1. CASE alive
    BY <1>a, <1>1, <2>1 DEF Admit, Goto, ServesQuietly, TablesKept, Done, Requested
  <2>2. CASE ~alive
    BY <1>a, <1>1, <2>2, AnswerEffect DEF Admit, ServesQuietly, TablesKept, Done
  <2>3. QED  BY <2>1, <2>2
<1>2. CASE GetTraveler(r)
  BY <1>a, <1>2, AnswerEffect DEF GetTraveler, ServesQuietly, TablesKept, Done, AnswerIsKept
<1>3. CASE GetTaste(r)
  BY <1>a, <1>3, AnswerEffect DEF GetTaste, ServesQuietly, TablesKept, Done, AnswerIsKept
<1>4. CASE LockUser(r)
  BY <1>a, <1>4 DEF LockUser, Goto, ServesQuietly, TablesKept, Done, Requested
<1>5. CASE ReadTraveler(r)
  BY <1>a, <1>5 DEF ReadTraveler, ServesQuietly, TablesKept, Done, Requested
<1>6. CASE Refuse(r)
  BY <1>a, <1>6, AnswerEffect DEF Refuse, ServesQuietly, TablesKept, Done
<1>7. CASE WriteTraveler(r)
  BY <1>a, <1>7 DEF WriteTraveler, ServesQuietly, TablesKept, Done, Requested
<1>8. CASE WriteTaste(r)
  BY <1>a, <1>8 DEF WriteTaste, ServesQuietly, TablesKept, Done, Requested
<1>9. CASE Commit(r)
  <2>1. /\ req'[r].stage = "answered" /\ req'[r].outcome = "done" /\ req'[r].kind = req[r].kind
        /\ req'[r].row = req[r].row /\ req'[r].version = req[r].version
        /\ \A q \in Requests \ {r} : req'[q] = req[q]
    BY <1>a, <1>9, AnswerEffect DEF Commit
  <2>2. alive /\ UNCHANGED alive
    BY <1>9 DEF Commit, IInv, WriteIsCurrent
  <2>3. QED  BY <1>9, <2>1, <2>2 DEF Commit, ServesSave, Done, AnswerIsKept
<1>10. CASE Erase(r)
  BY <1>a, <1>10, AnswerEffect DEF Erase, ServesErasure, Done
<1>11. CASE Fail(r)
  BY <1>a, <1>11, AnswerEffect DEF Fail, ServesQuietly, TablesKept, Done
<1>12. QED
  BY <1>1, <1>2, <1>3, <1>4, <1>5, <1>6, <1>7, <1>8, <1>9, <1>10, <1>11 DEF Serve

-----------------------------------------------------------------------------
\* The pages are clients of the server, but for two steps that touch two
\* requests at once.

LEMMA SendIsClient ==
    ASSUME NEW r \in Requests, NEW kind \in Kinds \ {"none"}, NEW body \in Log!Bodies,
           Send(r, kind, body)
    PROVE  Client(r)
BY DEF Client

\* Two requests that hold no lock are sent, or two answers are taken.
LEMMA TwoKeep ==
    ASSUME IInv, NEW a \in Requests, NEW b \in Requests,
           NEW x \in Requested, NEW y \in Requested,
           req' = [req EXCEPT ![a] = x, ![b] = y],
           req[a].stage \notin Holding, req[b].stage \notin Holding,
           x.stage \in {"idle", "sent"}, y.stage \in {"idle", "sent"},
           UNCHANGED <<alive, traveler, versions, lock>>
    PROVE  IInv'
<1>1. req' \in [Requests -> Requested]
  BY DEF IInv, ServerTypeOK
<1>2. \A q \in Requests : req'[q] = req[q] \/ req'[q].stage \in {"idle", "sent"}
  BY DEF IInv, ServerTypeOK
<1>3. ServerTypeOK'
  BY <1>1 DEF IInv, ServerTypeOK
<1>4. LockHeld'
  BY <1>2 DEF IInv, LockHeld, Holding
<1>5. ReadIsCurrent'
  BY <1>2 DEF IInv, ReadIsCurrent
<1>6. WriteIsCurrent'
  BY <1>2 DEF IInv, WriteIsCurrent
<1>7. QED  BY <1>3, <1>4, <1>5, <1>6 DEF IInv

\* What a load sends for one of the resources.
Query(kind) == [Fresh EXCEPT !.stage = "sent", !.kind = kind]

LEMMA QueryType ==
    ASSUME NEW kind \in Kinds
    PROVE  Query(kind) \in Requested /\ Query(kind).stage = "sent" /\ Query(kind).kind = kind
BY NoRowType DEF Query, Fresh, Requested

Queries(a, b) ==
    /\ a # b /\ req[a].stage = "idle" /\ req[b].stage = "idle"
    /\ req'[a].stage = "sent" /\ req'[a].kind = "getTraveler" /\ role'[a] = "load"
    /\ req'[b].stage = "sent" /\ req'[b].kind = "getTaste" /\ role'[b] = "load"
    /\ \A q \in Requests \ {a, b} : req'[q] = req[q] /\ role'[q] = role[q]

LEMMA LoadEffect ==
    ASSUME IInv, role \in [Requests -> Roles], Load
    PROVE  /\ role' \in [Requests -> Roles] /\ TablesKept
           /\ \E a, b \in Requests : Queries(a, b)
<1>1. PICK a, b \in Requests :
        /\ a # b /\ req[a].stage = "idle" /\ req[b].stage = "idle"
        /\ req' = [req EXCEPT ![a] = Query("getTraveler"), ![b] = Query("getTaste")]
        /\ role' = [role EXCEPT ![a] = "load", ![b] = "load"]
  BY DEF Load, Query
<1>2. /\ req'[a] = Query("getTraveler") /\ req'[b] = Query("getTaste")
      /\ \A q \in Requests \ {a, b} : req'[q] = req[q]
  BY <1>1 DEF IInv, ServerTypeOK
<1>3. /\ role'[a] = "load" /\ role'[b] = "load" /\ role' \in [Requests -> Roles]
      /\ \A q \in Requests \ {a, b} : role'[q] = role[q]
  BY <1>1
<1>4. /\ req'[a].stage = "sent" /\ req'[a].kind = "getTraveler"
      /\ req'[b].stage = "sent" /\ req'[b].kind = "getTaste"
  BY <1>2, QueryType
<1>5. Queries(a, b)
  BY <1>1, <1>2, <1>3, <1>4 DEF Queries
<1>6. TablesKept
  BY DEF Load, TablesKept
<1>7. QED  BY <1>3, <1>5, <1>6

LEMMA SendEffect ==
    ASSUME IInv, NEW r \in Requests, NEW kind, NEW body, Send(r, kind, body)
    PROVE  /\ req[r].stage = "idle" /\ req'[r].stage = "sent" /\ req'[r].kind = kind
           /\ \A q \in Requests \ {r} : req'[q] = req[q]
           /\ TablesKept
BY DEF Send, IInv, ServerTypeOK, Fresh, TablesKept

LEMMA ForgetEffect ==
    ASSUME IInv, NEW r \in Requests, Forget(r)
    PROVE  /\ req[r].stage = "answered" /\ req'[r] = Fresh
           /\ req'[r].stage = "idle" /\ req'[r].kind = "none"
           /\ \A q \in Requests \ {r} : req'[q] = req[q]
           /\ TablesKept
BY DEF Forget, IInv, ServerTypeOK, Fresh, TablesKept

\* Whatever the pages do, the server's invariant is kept.
LEMMA ServerKeeps ==
    ASSUME IInv, [PageNext]_vars
    PROVE  IInv'
<1>1. CASE Load
  <2>1. PICK a, b \in Requests :
          /\ req[a].stage = "idle" /\ req[b].stage = "idle"
          /\ req' = [req EXCEPT ![a] = Query("getTraveler"), ![b] = Query("getTaste")]
    BY <1>1 DEF Load, Query
  <2>2. UNCHANGED <<alive, traveler, versions, lock>>
    BY <1>1 DEF Load
  <2>3. /\ Query("getTraveler") \in Requested /\ Query("getTraveler").stage = "sent"
        /\ Query("getTaste") \in Requested /\ Query("getTaste").stage = "sent"
    BY QueryType
  <2>4. req[a].stage \notin Holding /\ req[b].stage \notin Holding
    BY <2>1 DEF Holding
  <2>5. QED  BY <2>1, <2>2, <2>3, <2>4, TwoKeep
<1>2. CASE TakeLoad
  <2>1. PICK a, b \in Requests :
          /\ req[a].stage = "answered" /\ req[b].stage = "answered"
          /\ req' = [req EXCEPT ![a] = Fresh, ![b] = Fresh]
          /\ UNCHANGED <<alive, traveler, versions, lock>>
    BY <1>2 DEF TakeLoad, At
  <2>2. Fresh \in Requested /\ Fresh.stage = "idle"
    BY NoRowType DEF Fresh, Requested
  <2>3. QED  BY <2>1, <2>2, TwoKeep DEF Holding
<1>3. CASE Leave \/ UNCHANGED vars
  BY <1>3, StutterKeeps DEF Leave, vars
<1>4. CASE SaveTraveler \/ SaveTaste \/ EraseAccount \/ Elsewhere
  <2>1. [Fields -> Values] \subseteq Log!Bodies
    BY DEF Log!Bodies
  <2>2. QED
    BY <1>4, <2>1, NoRowType, SendIsClient, ClientKeeps
    DEF SaveTraveler, SaveTaste, Save, EraseAccount, Elsewhere
<1>5. CASE ServerStep
  BY <1>5, ServeKeeps DEF ServerStep
<1>6. ASSUME NEW r \in Requests,
             TakeExpired(r) \/ TakeFailure(r) \/ TakeSave(r) \/ TakeErase(r) \/ Drop(r)
      PROVE  IInv'
  BY <1>6, ClientKeeps DEF TakeExpired, TakeFailure, TakeSave, TakeErase, Drop, Client
<1>7. QED
  BY <1>1, <1>2, <1>3, <1>4, <1>5, <1>6 DEF PageNext, Mount, TryAgain

-----------------------------------------------------------------------------
\* Every step of the page keeps the invariant.

LEMMA RowsFit ==
    ASSUME IInv
    PROVE  /\ traveler \in Log!Rows /\ versions \in Nat /\ req \in [Requests -> Requested]
           /\ \A r \in Requests : req[r].row \in Log!Rows /\ req[r].version \in Nat
BY DEF IInv, ServerTypeOK, Requested

LEMMA PageInitially == PageInit => PagePart
<1> SUFFICES ASSUME PageInit PROVE PagePart
  OBVIOUS
<1>1. /\ page = NoProfile /\ role = [r \in Requests |-> "none"] /\ muddled = FALSE
      /\ alive = TRUE /\ req = [r \in Requests |-> Fresh]
  BY DEF PageInit, Init
<1>2. PageTypeOK
  BY <1>1, NoRowType DEF PageTypeOK, NoProfile
<1>3. \A r \in Requests : req[r].stage = "idle" /\ role[r] = "none"
  BY <1>1 DEF Fresh
<1>4. RolesFit /\ RolesInPhase /\ OneOfEach
  BY <1>3 DEF RolesFit, RolesInPhase, OneOfEach
<1>5. ErasedIsGone
  BY <1>1, <1>3 DEF ErasedIsGone, Done
<1>6. page.status = "away"
  BY <1>1 DEF NoProfile
<1>7. QED
  BY <1>2, <1>4, <1>5, <1>6 DEF PagePart, PageShape, LoadIsCurrent, Agreement

\* Of one kind, nothing is new: the same newest save, with the same answer if it
\* has one, no outdated save more, the same rows here and there.
LEMMA AgreesStays ==
    ASSUME NEW kind \in Puts, Agrees(kind), TablesKept,
           page'.traveler = page.traveler, page'.versions = page.versions,
           \A q \in Requests : Newest(q, kind)' <=> Newest(q, kind),
           \A q \in Requests : Newest(q, kind) /\ Done(q)' => req'[q] = req[q],
           \A q \in Requests :
              role'[q] = "stale" /\ req'[q].kind = kind /\ Open(q)' =>
                role[q] = "stale" /\ req[q].kind = kind /\ Open(q)
    PROVE  Agrees(kind)'
<1>1. Overtaken(kind) => Overtaken(kind)'
  BY DEF Overtaken, TablesKept
<1>2. ShownIsKept(kind) => ShownIsKept(kind)'
  BY DEF ShownIsKept, TablesKept
<1>3. \A q \in Requests : req'[q] = req[q] =>
         /\ Done(q)' <=> Done(q)
         /\ AnswerIsKept(q) => AnswerIsKept(q)'
  BY DEF Done, AnswerIsKept, TablesKept
<1>4. QED  BY <1>1, <1>2, <1>3 DEF Agrees

\* Mount and TryAgain: the page holds no request of its own yet.
LEMMA LoadKeeps ==
    ASSUME PageInv, Load, page.status \in {"away", "error"}
    PROVE  PagePart'
<1>0. IInv /\ PageTypeOK /\ RolesFit /\ RolesInPhase /\ OneOfEach /\ ErasedIsGone
  BY DEF PageInv, PagePart, PageShape
<1>1. PICK a, b \in Requests : Queries(a, b)
  BY <1>0, LoadEffect DEF PageTypeOK
<1>2. role' \in [Requests -> Roles] /\ TablesKept
  BY <1>0, LoadEffect DEF PageTypeOK
<1>3. \A r \in Requests : role[r] \in {"none", "other"}
  BY <1>0 DEF RolesInPhase, PageTypeOK
<1>4. page' = [page EXCEPT !.status = "loading"] /\ muddled' \in BOOLEAN
  BY DEF Load
<1>5. PageTypeOK' /\ page'.status = "loading"
  BY <1>0, <1>2, <1>4 DEF PageTypeOK
<1>6. RolesFit'
  BY <1>0, <1>1, <1>3 DEF RolesFit, Queries
<1>7. RolesInPhase'
  BY <1>1, <1>3, <1>5 DEF RolesInPhase, Queries
<1>8. OneOfEach'
  BY <1>1, <1>3 DEF OneOfEach, Queries
<1>9. ErasedIsGone'
  BY <1>0, <1>1, <1>2 DEF ErasedIsGone, Queries, TablesKept, Done
<1>10. LoadIsCurrent'
  BY <1>1, <1>3 DEF LoadIsCurrent, Queries, Done
<1>11. Agreement'
  BY <1>5 DEF Agreement
<1>12. QED
  BY <1>5, <1>6, <1>7, <1>8, <1>9, <1>10, <1>11 DEF PagePart, PageShape

\* Leave: the requests go on, but nobody waits for them.
LEMMA LeaveKeeps ==
    ASSUME PageInv, Leave
    PROVE  PagePart'
<1>0. IInv /\ PageTypeOK /\ RolesFit /\ RolesInPhase /\ OneOfEach /\ ErasedIsGone
  BY DEF PageInv, PagePart, PageShape
<1>1. /\ page' = NoProfile /\ role' = Abandoned(role)
      /\ UNCHANGED <<alive, traveler, versions, req, muddled>>
  BY DEF Leave, serverVars
<1>2. \A r \in Requests : role'[r] = IF role[r] = "none" THEN "none" ELSE "other"
  BY <1>1 DEF Abandoned
<1>3. PageTypeOK' /\ page'.status = "away"
  BY <1>0, <1>1, NoRowType DEF PageTypeOK, NoProfile, Abandoned
<1>4. RolesFit' /\ RolesInPhase' /\ OneOfEach'
  BY <1>0, <1>1, <1>2 DEF RolesFit, RolesInPhase, OneOfEach
<1>5. ErasedIsGone'
  BY <1>0, <1>1 DEF ErasedIsGone, Done
<1>6. QED
  BY <1>3, <1>4, <1>5 DEF PagePart, PageShape, LoadIsCurrent, Agreement

\* SaveTraveler and SaveTaste: the new save is the newest of its kind.
LEMMA SaveKeeps ==
    ASSUME PageInv, NEW r \in Requests, NEW kind \in Puts, NEW body, Save(r, kind, body)
    PROVE  PagePart'
<1>0. IInv /\ PageTypeOK /\ RolesFit /\ RolesInPhase /\ OneOfEach /\ ErasedIsGone
  BY DEF PageInv, PagePart, PageShape
<1>1. /\ req[r].stage = "idle" /\ req'[r].stage = "sent" /\ req'[r].kind = kind
      /\ \A q \in Requests \ {r} : req'[q] = req[q]
      /\ TablesKept
  BY <1>0, SendEffect DEF Save
<1>2. page.status = "ready" /\ page' = page /\ muddled' = muddled
  BY DEF Save
<1>3. /\ role' \in [Requests -> Roles] /\ role'[r] = "save"
      /\ \A q \in Requests \ {r} :
           role'[q] = IF role[q] = "save" /\ req[q].kind = kind THEN "stale" ELSE role[q]
  BY <1>0 DEF Save, PageTypeOK
<1>4. PageTypeOK'
  BY <1>0, <1>2, <1>3 DEF PageTypeOK
<1>5. RolesFit'
  BY <1>0, <1>1, <1>3 DEF RolesFit
<1>6. RolesInPhase'
  BY <1>0, <1>2, <1>3 DEF RolesInPhase
<1>7. OneOfEach'
  BY <1>0, <1>1, <1>3 DEF OneOfEach
<1>8. ErasedIsGone'
  BY <1>0, <1>1 DEF ErasedIsGone, TablesKept, Done
<1>9. LoadIsCurrent'
  BY <1>2 DEF LoadIsCurrent
<1>10. Agreement'
  <2> SUFFICES ASSUME ~muddled PROVE ErasurePending' \/ (\A k \in Puts : Agrees(k)')
    BY <1>2 DEF Agreement
  <2>1. CASE ErasurePending
    BY <1>1, <1>3, <2>1 DEF ErasurePending, Done
  <2>2. CASE \A k \in Puts : Agrees(k)
    <3> SUFFICES ASSUME NEW k \in Puts PROVE Agrees(k)'
      OBVIOUS
    <3>1. CASE k = kind
      BY <1>1, <1>3, <1>7, <3>1 DEF Agrees, Newest, Done, OneOfEach
    <3>2. CASE k # kind
      <4>1. \A q \in Requests : Newest(q, k)' <=> Newest(q, k)
        <5>1. ~Newest(r, k)' /\ ~Newest(r, k)
          BY <1>0, <1>1, <3>2 DEF Newest, RolesFit
        <5>2. \A q \in Requests \ {r} : Newest(q, k)' <=> Newest(q, k)
          BY <1>1, <1>3, <3>2 DEF Newest
        <5>3. QED  BY <5>1, <5>2
      <4>2. \A q \in Requests : Newest(q, k) => q # r /\ req'[q] = req[q]
        BY <1>0, <1>1 DEF Newest, RolesFit
      <4>3. \A q \in Requests :
              role'[q] = "stale" /\ req'[q].kind = k /\ Open(q)' =>
                role[q] = "stale" /\ req[q].kind = k /\ Open(q)
        BY <1>1, <1>3, <3>2 DEF Open
      <4>4. Agrees(k) /\ TablesKept
        BY <1>1, <2>2
      <4>5. QED  BY <1>2, <4>1, <4>2, <4>3, <4>4, AgreesStays
    <3>3. QED  BY <3>1, <3>2
  <2>3. QED  BY <1>2, <2>1, <2>2 DEF PageInv, PagePart, Agreement
<1>11. QED
  BY <1>4, <1>5, <1>6, <1>7, <1>8, <1>9, <1>10 DEF PagePart, PageShape

\* EraseAccount, and another device: neither has to do with a save of the page.
LEMMA OtherKeeps ==
    ASSUME PageInv, NEW r \in Requests, NEW kind \in Kinds, NEW body, NEW as \in {"erase", "other"},
           Send(r, kind, body), role' = [role EXCEPT ![r] = as],
           as = "erase" => kind = "erase" /\ page.status = "ready",
           UNCHANGED <<page, muddled>>
    PROVE  PagePart'
<1>0. IInv /\ PageTypeOK /\ RolesFit /\ RolesInPhase /\ OneOfEach /\ ErasedIsGone
  BY DEF PageInv, PagePart, PageShape
<1>1. /\ req[r].stage = "idle" /\ req'[r].stage = "sent" /\ req'[r].kind = kind
      /\ \A q \in Requests \ {r} : req'[q] = req[q]
      /\ TablesKept
  BY <1>0, SendEffect
<1>2. /\ role' \in [Requests -> Roles] /\ role'[r] = as
      /\ \A q \in Requests \ {r} : role'[q] = role[q]
  BY <1>0 DEF PageTypeOK
<1>3. role[r] = "none"
  BY <1>0, <1>1 DEF RolesFit
<1>4. /\ page' = page
      /\ (as = "erase" /\ kind = "erase" /\ page.status = "ready") \/ as = "other"
  OBVIOUS
<1>5. PageTypeOK'
  BY <1>0, <1>2 DEF PageTypeOK
<1>6. \/ role'[r] = "erase" /\ req'[r].kind = "erase" /\ page'.status = "ready"
      \/ role'[r] = "other"
  BY <1>1, <1>2, <1>4
<1>7. \A q \in Requests : q = r \/ (role'[q] = role[q] /\ req'[q] = req[q])
  BY <1>1, <1>2
<1>8. RolesFit'
  <2> SUFFICES ASSUME NEW q \in Requests
               PROVE  /\ role'[q] = "none" <=> req'[q].stage = "idle"
                      /\ role'[q] = "load" => req'[q].kind \in {"getTraveler", "getTaste"}
                      /\ role'[q] \in {"save", "stale"} => req'[q].kind \in Puts
                      /\ role'[q] = "erase" => req'[q].kind = "erase"
    BY DEF RolesFit
  <2>1. CASE q = r
    BY <1>1, <1>6, <2>1
  <2>2. CASE q # r
    BY <1>0, <1>7, <2>2 DEF RolesFit
  <2>3. QED BY <2>1, <2>2
<1>9. \A q \in Requests : role'[q] \in {"load", "save"} =>
         role[q] = role'[q] /\ req[q] = req'[q]
  BY <1>6, <1>7
<1>10. RolesInPhase'
  <2>1. \A q \in Requests \ {r} : role'[q] = role[q] /\ page' = page
    BY <1>4, <1>7
  <2>2. QED  BY <1>0, <1>6, <2>1 DEF RolesInPhase
<1>11. OneOfEach'
  <2> SUFFICES ASSUME NEW p \in Requests, NEW q \in Requests, role'[p] = role'[q],
                      role'[p] \in {"load", "save"}, req'[p].kind = req'[q].kind
               PROVE  p = q
    BY DEF OneOfEach
  <2>1. role[p] = role'[p] /\ req[p] = req'[p] /\ role[q] = role'[q] /\ req[q] = req'[q]
    BY <1>9
  <2>2. QED  BY <1>0, <2>1 DEF OneOfEach
<1>12. ErasedIsGone'
  BY <1>0, <1>1 DEF ErasedIsGone, TablesKept, Done
<1>13. LoadIsCurrent'
  <2> SUFFICES ASSUME page.status = "loading", ~muddled,
                      NEW q \in Requests, role'[q] = "load", Done(q)'
               PROVE  AnswerIsKept(q)'
    BY <1>4 DEF LoadIsCurrent
  <2>1. role[q] = "load" /\ req'[q] = req[q] /\ Done(q)
    BY <1>9 DEF Done
  <2>2. AnswerIsKept(q)
    BY <2>1 DEF PageInv, PagePart, LoadIsCurrent
  <2>3. QED  BY <1>1, <2>1, <2>2 DEF AnswerIsKept, TablesKept
<1>14. Agreement'
  <2>1. ErasurePending => ErasurePending'
    BY <1>1, <1>2, <1>3 DEF ErasurePending, Done
  <2>2. ASSUME NEW k \in Puts, Agrees(k) PROVE Agrees(k)'
    <3>1. \A q \in Requests : Newest(q, k)' <=> Newest(q, k)
      BY <1>1, <1>2, <1>3 DEF Newest
    <3>2. \A q \in Requests : Newest(q, k) => req'[q] = req[q]
      BY <1>1, <1>3 DEF Newest
    <3>3. \A q \in Requests :
            role'[q] = "stale" /\ req'[q].kind = k /\ Open(q)' =>
              role[q] = "stale" /\ req[q].kind = k /\ Open(q)
      BY <1>1, <1>2 DEF Open
    <3>4. QED  BY <1>1, <2>2, <3>1, <3>2, <3>3, AgreesStays
  <2>3. QED  BY <2>1, <2>2 DEF PageInv, PagePart, Agreement
<1>15. QED
  BY <1>5, <1>8, <1>10, <1>11, <1>12, <1>13, <1>14 DEF PagePart, PageShape

\* A step of the server, whoever it serves.
LEMMA ServerStepKeeps ==
    ASSUME PageInv, ServerStep
    PROVE  PagePart'
<1>0. IInv /\ PageTypeOK /\ RolesFit /\ RolesInPhase /\ OneOfEach /\ ErasedIsGone
  BY DEF PageInv, PagePart, PageShape
<1>1. PICK r \in Requests :
        Serve(r) /\ muddled' = (muddled \/ (TookEffect(r) /\ Unordered(r)))
  BY DEF ServerStep
<1>2. page' = page /\ role' = role
  BY DEF ServerStep
<1>3. Serves(r) /\ (ServesQuietly(r) \/ ServesSave(r) \/ ServesErasure(r))
  BY <1>0, <1>1, ServeEffect
<1>4. /\ Open(r) /\ req'[r].stage # "idle" /\ req'[r].kind = req[r].kind
      /\ \A q \in Requests \ {r} : req'[q] = req[q]
      /\ req[r].stage # "idle"
  BY <1>3 DEF Serves, Open
<1>5. PageTypeOK'
  BY <1>0, <1>1, <1>2 DEF PageTypeOK
<1>6. RolesFit' /\ RolesInPhase' /\ OneOfEach'
  BY <1>0, <1>2, <1>4 DEF RolesFit, RolesInPhase, OneOfEach
<1>7. ErasedIsGone'
  <2>1. CASE ServesQuietly(r)
    BY <1>0, <1>4, <2>1 DEF ErasedIsGone, ServesQuietly, TablesKept, Done
  <2>2. CASE ServesSave(r)
    BY <1>0, <1>4, <2>2 DEF ErasedIsGone, ServesSave, Done
  <2>3. CASE ServesErasure(r)
    BY <1>0, <1>4, <2>3 DEF ErasedIsGone, ServesErasure, Done
  <2>4. QED  BY <1>3, <2>1, <2>2, <2>3
<1>8. ServesSave(r) \/ ServesErasure(r) => TookEffect(r)
  BY DEF ServesSave, ServesErasure, TookEffect, Done
<1>9. \* While the page loads, whoever writes is of another device.
      LoadIsCurrent'
  <2> SUFFICES ASSUME page.status = "loading", ~muddled',
                      NEW q \in Requests, role[q] = "load", Done(q)'
               PROVE  AnswerIsKept(q)'
    BY <1>2 DEF LoadIsCurrent
  <2>1. ~muddled /\ ~(TookEffect(r) /\ Unordered(r))
    BY <1>1
  <2>2. ServesQuietly(r)
    <3>1. ASSUME ServesSave(r) \/ ServesErasure(r) PROVE FALSE
      <4>1. role[r] \notin {"none", "load"}
        BY <1>0, <1>4, <3>1 DEF RolesFit, ServesSave, ServesErasure
      <4>2. role[r] = "other"
        BY <1>0, <4>1 DEF RolesInPhase, PageTypeOK
      <4>3. QED  BY <1>8, <2>1, <3>1, <4>2 DEF Unordered
    <3>2. QED  BY <1>3, <3>1
  <2>3. CASE q = r
    BY <2>2, <2>3 DEF ServesQuietly
  <2>4. CASE q # r
    BY <1>4, <2>1, <2>2, <2>4 DEF PageInv, PagePart, LoadIsCurrent, ServesQuietly, TablesKept, Done, AnswerIsKept
  <2>5. QED  BY <2>3, <2>4
<1>10. Agreement'
  <2> SUFFICES ASSUME page.status = "ready", ~muddled'
               PROVE  ErasurePending' \/ (\A kind \in Puts : Agrees(kind)')
    BY <1>2 DEF Agreement
  <2>1. ~muddled /\ ~(TookEffect(r) /\ Unordered(r))
    BY <1>1
  <2>2. ErasurePending \/ \A kind \in Puts : Agrees(kind)
    BY <2>1 DEF PageInv, PagePart, Agreement
  <2>3. CASE ErasurePending
    BY <1>2, <1>4, <2>3 DEF ErasurePending, Done, Open
  <2>4. CASE ServesErasure(r)
    <3>1. role[r] = "erase"
      <4>1. role[r] \notin {"none", "load", "save", "stale"}
        BY <1>0, <1>4, <2>4 DEF RolesFit, ServesErasure
      <4>2. role[r] # "other"
        BY <1>8, <2>1, <2>4 DEF Unordered
      <4>3. QED  BY <1>0, <4>1, <4>2 DEF PageTypeOK
    <3>2. QED  BY <1>2, <2>4, <3>1 DEF ErasurePending, ServesErasure
  <2>5. CASE ServesQuietly(r) /\ \A kind \in Puts : Agrees(kind)
    <3> SUFFICES ASSUME NEW kind \in Puts PROVE Agrees(kind)'
      OBVIOUS
    <3>1. \A q \in Requests : Newest(q, kind)' <=> Newest(q, kind)
      BY <1>2, <1>4 DEF Newest
    <3>2. \A q \in Requests : Newest(q, kind) /\ Done(q)' => req'[q] = req[q]
      BY <1>4, <2>5 DEF Newest, ServesQuietly
    <3>3. \A q \in Requests :
            role'[q] = "stale" /\ req'[q].kind = kind /\ Open(q)' =>
              role[q] = "stale" /\ req[q].kind = kind /\ Open(q)
      BY <1>2, <1>4 DEF Open
    <3>4. TablesKept
      BY <2>5 DEF ServesQuietly
    <3>5. QED  BY <1>2, <2>5, <3>1, <3>2, <3>3, <3>4, AgreesStays
  <2>6. CASE ServesSave(r) /\ \A kind \in Puts : Agrees(kind)
    <3>1. role[r] # "other" /\ ~Unordered(r)
      BY <1>8, <2>1, <2>6 DEF Unordered
    <3>2. role[r] \in {"save", "stale"}
      BY <1>0, <1>4, <2>6, <3>1 DEF RolesFit, PageTypeOK, ServesSave
    <3> SUFFICES ASSUME NEW kind \in Puts PROVE Agrees(kind)'
      OBVIOUS
    <3>3. CASE kind # req[r].kind
      <4>1. \A q \in Requests : q # r \/ ~Newest(q, kind)
        BY <3>3 DEF Newest
      <4>2. \A q \in Requests : Newest(q, kind)' <=> Newest(q, kind)
        BY <1>2, <1>4 DEF Newest
      <4>3. \A q \in Requests : Newest(q, kind) => req'[q] = req[q]
        BY <1>4, <4>1
      <4>4. Overtaken(kind) => Overtaken(kind)'
        BY <1>2, <1>4, <2>6 DEF Overtaken, Open, ServesSave
      <4>5. ShownIsKept(kind) => ShownIsKept(kind)'
        BY <1>2, <2>6, <3>3 DEF ShownIsKept, ServesSave
      <4>6. \A q \in Requests : Newest(q, kind) =>
              /\ Done(q)' <=> Done(q)
              /\ AnswerIsKept(q) => AnswerIsKept(q)'
        BY <2>6, <3>3, <4>3 DEF Done, AnswerIsKept, Newest, ServesSave
      <4>7. Agrees(kind)
        BY <2>6
      <4>8. QED  BY <4>2, <4>4, <4>5, <4>6, <4>7 DEF Agrees
    <3>4. CASE kind = req[r].kind /\ role[r] = "save"
      <4>1. \A q \in Requests : Newest(q, kind)' <=> q = r
        BY <1>0, <1>2, <1>4, <3>4 DEF Newest, OneOfEach
      <4>2. AnswerIsKept(r)'
        BY <2>6 DEF ServesSave
      <4>3. Overtaken(kind)'
        BY <1>2, <1>4, <3>1, <3>4 DEF Overtaken, Unordered, Open
      <4>4. QED  BY <4>1, <4>2, <4>3 DEF Agrees
    <3>5. CASE kind = req[r].kind /\ role[r] = "stale"
      <4>1. alive /\ ~Overtaken(kind)
        BY <1>4, <2>6, <3>5 DEF Overtaken, ServesSave
      <4>2. PICK s \in Requests : Newest(s, kind)
        BY <2>6, <4>1 DEF Agrees
      <4>3. ~Done(s) /\ s # r
        BY <2>6, <3>5, <4>1, <4>2 DEF Agrees, Newest
      <4>4. \A q \in Requests : Newest(q, kind)' => q = s
        BY <1>0, <1>2, <1>4, <4>2, <4>3 DEF Newest, OneOfEach
      <4>5. Newest(s, kind)' /\ ~Done(s)'
        BY <1>2, <1>4, <4>2, <4>3 DEF Newest, Done
      <4>6. QED  BY <4>4, <4>5 DEF Agrees
    <3>6. QED  BY <3>2, <3>3, <3>4, <3>5
  <2>7. QED  BY <1>3, <2>2, <2>3, <2>4, <2>5, <2>6
<1>11. QED
  BY <1>5, <1>6, <1>7, <1>9, <1>10 DEF PagePart, PageShape

\* handleSessionError: nothing is waited for, and nothing claimed, any more.
LEMMA TakeExpiredKeeps ==
    ASSUME PageInv, NEW r \in Requests, TakeExpired(r)
    PROVE  PagePart'
<1>0. IInv /\ PageTypeOK /\ RolesFit /\ RolesInPhase /\ OneOfEach /\ ErasedIsGone
  BY DEF PageInv, PagePart, PageShape
<1>1. /\ req'[r].stage = "idle" /\ req'[r].kind = "none"
      /\ \A q \in Requests \ {r} : req'[q] = req[q]
      /\ TablesKept
  BY <1>0, ForgetEffect DEF TakeExpired
<1>2. page' = NoProfile /\ muddled' = TRUE
  BY DEF TakeExpired
<1>3. /\ role' \in [Requests -> Roles] /\ role'[r] = "none"
      /\ \A q \in Requests \ {r} : role'[q] = IF role[q] = "none" THEN "none" ELSE "other"
  BY <1>0 DEF TakeExpired, Abandoned, PageTypeOK
<1>4. PageTypeOK' /\ page'.status = "away"
  BY <1>0, <1>2, <1>3, NoRowType DEF PageTypeOK, NoProfile
<1>5. RolesFit'
  BY <1>0, <1>1, <1>3 DEF RolesFit
<1>6. RolesInPhase' /\ OneOfEach'
  BY <1>3 DEF RolesInPhase, OneOfEach
<1>7. ErasedIsGone'
  BY <1>0, <1>1 DEF ErasedIsGone, TablesKept, Done
<1>8. QED
  BY <1>4, <1>5, <1>6, <1>7 DEF PagePart, PageShape, LoadIsCurrent, Agreement

\* A failed load fails whole; of a failed save nothing is claimed.
LEMMA TakeFailureKeeps ==
    ASSUME PageInv, NEW r \in Requests, TakeFailure(r)
    PROVE  PagePart'
<1>0. IInv /\ PageTypeOK /\ RolesFit /\ RolesInPhase /\ OneOfEach /\ ErasedIsGone
  BY DEF PageInv, PagePart, PageShape
<1>1. /\ req'[r].stage = "idle" /\ req'[r].kind = "none"
      /\ \A q \in Requests \ {r} : req'[q] = req[q]
      /\ TablesKept
  BY <1>0, ForgetEffect DEF TakeFailure
<1>2. ErasedIsGone'
  BY <1>0, <1>1 DEF ErasedIsGone, TablesKept, Done
<1>3. CASE Loading(r)
  <2>1. page' = [page EXCEPT !.status = "error"] /\ muddled' = muddled
    BY <1>0, <1>3 DEF TakeFailure, PageTypeOK
  <2>2. /\ role' \in [Requests -> Roles] /\ role'[r] = "none"
        /\ \A q \in Requests \ {r} : role'[q] = IF role[q] = "load" THEN "other" ELSE role[q]
    BY <1>0, <1>3 DEF TakeFailure, NoLoad, PageTypeOK
  <2>3. PageTypeOK' /\ page'.status = "error"
    BY <1>0, <2>1, <2>2 DEF PageTypeOK
  <2>4. RolesFit'
    BY <1>0, <1>1, <2>2 DEF RolesFit
  <2>5. \A q \in Requests : role[q] \notin {"save", "stale", "erase"}
    BY <1>0, <1>3 DEF Loading, RolesInPhase
  <2>6. RolesInPhase' /\ OneOfEach'
    BY <2>2, <2>5 DEF RolesInPhase, OneOfEach
  <2>7. QED
    BY <1>2, <2>3, <2>4, <2>6 DEF PagePart, PageShape, LoadIsCurrent, Agreement
<1>4. CASE ~Loading(r)
  <2>1. page' = page /\ muddled' = TRUE
    BY <1>4 DEF TakeFailure
  <2>2. /\ role' \in [Requests -> Roles] /\ role'[r] = "none"
        /\ \A q \in Requests \ {r} : role'[q] = role[q]
    BY <1>0, <1>4 DEF TakeFailure, PageTypeOK
  <2>3. PageTypeOK'
    BY <1>0, <2>1, <2>2 DEF PageTypeOK
  <2>4. RolesFit'
    BY <1>0, <1>1, <2>2 DEF RolesFit
  <2>5. RolesInPhase' /\ OneOfEach'
    BY <1>0, <1>1, <2>1, <2>2 DEF RolesInPhase, OneOfEach
  <2>6. QED
    BY <1>2, <2>1, <2>3, <2>4, <2>5 DEF PagePart, PageShape, LoadIsCurrent, Agreement
<1>5. QED  BY <1>3, <1>4

\* Both answers are current: so is what the page shows of them.
LEMMA TakeLoadKeeps ==
    ASSUME PageInv, TakeLoad
    PROVE  PagePart'
<1>0. IInv /\ PageTypeOK /\ RolesFit /\ RolesInPhase /\ OneOfEach /\ ErasedIsGone
  BY DEF PageInv, PagePart, PageShape
<1>1. PICK a, b \in Requests :
        /\ role[a] = "load" /\ req[a].kind = "getTraveler" /\ Done(a)
        /\ role[b] = "load" /\ req[b].kind = "getTaste" /\ Done(b)
        /\ page' = [status |-> "ready", traveler |-> req[a].row, versions |-> req[b].version]
        /\ req' = [req EXCEPT ![a] = Fresh, ![b] = Fresh]
        /\ role' = [role EXCEPT ![a] = "none", ![b] = "none"]
  BY DEF TakeLoad, At, Done
<1>2. TablesKept /\ muddled' = muddled
  BY DEF TakeLoad, TablesKept
<1>3. /\ req'[a].stage = "idle" /\ req'[a].kind = "none"
      /\ req'[b].stage = "idle" /\ req'[b].kind = "none"
      /\ \A q \in Requests \ {a, b} : req'[q] = req[q]
  BY <1>0, <1>1, RowsFit DEF Fresh
<1>4. /\ role' \in [Requests -> Roles] /\ role'[a] = "none" /\ role'[b] = "none"
      /\ \A q \in Requests \ {a, b} : role'[q] = role[q]
  BY <1>0, <1>1 DEF PageTypeOK
<1>5. page.status = "loading"
  BY <1>0, <1>1 DEF RolesInPhase
<1>6. \A q \in Requests : role'[q] \in {"none", "other"}
  <2> SUFFICES ASSUME NEW q \in Requests \ {a, b} PROVE role[q] \in {"none", "other"}
    BY <1>4
  <2>1. role[q] \notin {"save", "stale", "erase"}
    BY <1>0, <1>5 DEF RolesInPhase
  <2>2. role[q] # "load"
    BY <1>0, <1>1 DEF OneOfEach, RolesFit
  <2>3. QED  BY <1>0, <2>1, <2>2 DEF PageTypeOK
<1>7. PageTypeOK' /\ page'.status = "ready"
  BY <1>0, <1>1, <1>2, <1>4, RowsFit DEF PageTypeOK
<1>8. RolesFit'
  BY <1>0, <1>3, <1>4, <1>6 DEF RolesFit
<1>9. RolesInPhase' /\ OneOfEach'
  BY <1>6 DEF RolesInPhase, OneOfEach
<1>10. ErasedIsGone'
  BY <1>0, <1>2, <1>3 DEF ErasedIsGone, TablesKept, Done
<1>11. Agreement'
  <2> SUFFICES ASSUME ~muddled, NEW kind \in Puts PROVE Agrees(kind)'
    BY <1>2 DEF Agreement
  <2>1. AnswerIsKept(a) /\ AnswerIsKept(b)
    BY <1>1, <1>5 DEF PageInv, PagePart, LoadIsCurrent
  <2>2. page'.traveler = traveler /\ page'.versions = versions
    BY <1>1, <2>1 DEF AnswerIsKept
  <2>3. ShownIsKept(kind)'
    BY <1>2, <2>2 DEF ShownIsKept, TablesKept
  <2>4. QED  BY <1>6, <2>3 DEF Agrees, Newest, Overtaken
<1>12. QED
  BY <1>7, <1>8, <1>9, <1>10, <1>11 DEF PagePart, PageShape, LoadIsCurrent

\* A save is answered: if it is still the newest of its kind, the page shows it.
LEMMA TakeSaveKeeps ==
    ASSUME PageInv, NEW r \in Requests, TakeSave(r)
    PROVE  PagePart'
<1>0. IInv /\ PageTypeOK /\ RolesFit /\ RolesInPhase /\ OneOfEach /\ ErasedIsGone
  BY DEF PageInv, PagePart, PageShape
<1>1. /\ req'[r].stage = "idle" /\ req'[r].kind = "none" /\ Done(r)
      /\ \A q \in Requests \ {r} : req'[q] = req[q]
      /\ TablesKept
  BY <1>0, ForgetEffect DEF TakeSave, Done
<1>2. role[r] \in {"save", "stale"} /\ req[r].kind \in Puts /\ muddled' = muddled
  BY <1>0 DEF TakeSave, RolesFit
<1>3. /\ role' \in [Requests -> Roles] /\ role'[r] = "none"
      /\ \A q \in Requests \ {r} : role'[q] = role[q]
  BY <1>0 DEF TakeSave, PageTypeOK
<1>4. page.status = "ready"
  BY <1>0, <1>2 DEF RolesInPhase
<1>5. /\ PageTypeOK' /\ page'.status = "ready"
      /\ role[r] = "stale" => page' = page
      /\ role[r] = "save" /\ req[r].kind = "traveler" =>
           page'.traveler = req[r].row /\ page'.versions = page.versions
      /\ role[r] = "save" /\ req[r].kind = "taste" =>
           page'.versions = req[r].version /\ page'.traveler = page.traveler
  <2>1. CASE role[r] = "stale"
    BY <1>0, <1>2, <1>3, <1>4, <2>1 DEF TakeSave, PageTypeOK
  <2>2. CASE role[r] = "save" /\ req[r].kind = "traveler"
    <3>1. page' = [page EXCEPT !.traveler = req[r].row]
      BY <2>2 DEF TakeSave, Shown
    <3>2. QED  BY <1>0, <1>2, <1>3, <1>4, <2>2, <3>1, RowsFit DEF PageTypeOK
  <2>3. CASE role[r] = "save" /\ req[r].kind = "taste"
    <3>1. page' = [page EXCEPT !.versions = req[r].version]
      BY <2>3 DEF TakeSave, Shown
    <3>2. QED  BY <1>0, <1>2, <1>3, <1>4, <2>3, <3>1, RowsFit DEF PageTypeOK
  <2>4. QED  BY <1>2, <2>1, <2>2, <2>3
<1>6. RolesFit'
  BY <1>0, <1>1, <1>3 DEF RolesFit
<1>7. RolesInPhase' /\ OneOfEach'
  BY <1>0, <1>1, <1>3, <1>4, <1>5 DEF RolesInPhase, OneOfEach
<1>8. ErasedIsGone'
  BY <1>0, <1>1 DEF ErasedIsGone, TablesKept, Done
<1>9. Agreement'
  <2>1. ErasurePending => ErasurePending'
    BY <1>1, <1>2, <1>3 DEF ErasurePending, Done
  <2>2. ASSUME \A k \in Puts : Agrees(k), NEW kind \in Puts PROVE Agrees(kind)'
    <3>1. CASE kind = req[r].kind /\ role[r] = "save"
      <4>1. AnswerIsKept(r) /\ Overtaken(kind)
        BY <1>1, <2>2, <3>1 DEF Agrees, Newest
      <4>2. ShownIsKept(kind)'
        BY <1>1, <1>5, <3>1, <4>1 DEF ShownIsKept, AnswerIsKept, TablesKept
      <4>3. Overtaken(kind)'
        BY <1>1, <1>3, <4>1 DEF Overtaken, TablesKept, Open
      <4>4. \A q \in Requests : ~Newest(q, kind)'
        BY <1>0, <1>1, <1>3, <3>1 DEF Newest, OneOfEach
      <4>5. QED  BY <4>2, <4>3, <4>4 DEF Agrees
    <3>2. CASE kind # req[r].kind \/ role[r] = "stale"
      <4>1. ~Newest(r, kind) /\ ~Newest(r, kind)'
        BY <1>3, <3>2 DEF Newest
      <4>2. \A q \in Requests : Newest(q, kind)' <=> Newest(q, kind)
        BY <1>1, <1>3, <4>1 DEF Newest
      <4>3. Overtaken(kind) => Overtaken(kind)'
        BY <1>1, <1>3 DEF Overtaken, TablesKept, Open
      <4>4. ShownIsKept(kind) => ShownIsKept(kind)'
        BY <1>1, <1>2, <1>5, <3>2 DEF ShownIsKept, TablesKept
      <4>5. \A q \in Requests \ {r} :
              /\ Done(q)' <=> Done(q)
              /\ AnswerIsKept(q) => AnswerIsKept(q)'
        BY <1>1 DEF Done, AnswerIsKept, TablesKept
      <4>6. Agrees(kind)
        BY <2>2
      <4>7. QED  BY <4>1, <4>2, <4>3, <4>4, <4>5, <4>6 DEF Agrees
    <3>3. QED  BY <1>2, <3>1, <3>2
  <2>3. QED  BY <1>2, <1>4, <2>1, <2>2 DEF PageInv, PagePart, Agreement
<1>10. QED
  BY <1>5, <1>6, <1>7, <1>8, <1>9 DEF PagePart, PageShape, LoadIsCurrent

\* The erasure is shown: the page is empty, and no save is the newest any more.
LEMMA TakeEraseKeeps ==
    ASSUME PageInv, NEW r \in Requests, TakeErase(r)
    PROVE  PagePart'
<1>0. IInv /\ PageTypeOK /\ RolesFit /\ RolesInPhase /\ OneOfEach /\ ErasedIsGone
  BY DEF PageInv, PagePart, PageShape
<1>1. /\ req'[r].stage = "idle" /\ req'[r].kind = "none" /\ Done(r)
      /\ \A q \in Requests \ {r} : req'[q] = req[q]
      /\ TablesKept
  BY <1>0, ForgetEffect DEF TakeErase, Done
<1>2. role[r] = "erase" /\ muddled' = muddled
  BY DEF TakeErase
<1>3. /\ role' \in [Requests -> Roles] /\ role'[r] = "none"
      /\ \A q \in Requests \ {r} : role'[q] = IF role[q] = "save" THEN "stale" ELSE role[q]
  BY <1>0 DEF TakeErase, PageTypeOK
<1>4. page.status = "ready"
  BY <1>0, <1>2 DEF RolesInPhase
<1>5. page' = [page EXCEPT !.traveler = Log!NoRow, !.versions = 0]
  BY DEF TakeErase
<1>6. /\ PageTypeOK' /\ page'.status = "ready"
      /\ page'.traveler = Log!NoRow /\ page'.versions = 0
  BY <1>0, <1>2, <1>3, <1>4, <1>5, NoRowType DEF PageTypeOK
<1>7. RolesFit'
  BY <1>0, <1>1, <1>3 DEF RolesFit
<1>8. RolesInPhase' /\ OneOfEach'
  BY <1>0, <1>1, <1>3, <1>4, <1>6 DEF RolesInPhase, OneOfEach
<1>9. ErasedIsGone'
  BY <1>0, <1>1 DEF ErasedIsGone, TablesKept, Done
<1>10. Agreement'
  <2> SUFFICES ASSUME NEW kind \in Puts PROVE Agrees(kind)'
    BY DEF Agreement
  <2>1. ~alive' /\ traveler' = Log!NoRow /\ versions' = 0
    BY <1>0, <1>1, <1>2 DEF ErasedIsGone, RolesFit, TablesKept
  <2>2. ShownIsKept(kind)' /\ Overtaken(kind)'
    BY <1>6, <2>1 DEF ShownIsKept, Overtaken
  <2>3. \A q \in Requests : ~Newest(q, kind)'
    BY <1>3 DEF Newest
  <2>4. QED  BY <2>2, <2>3 DEF Agrees
<1>11. QED
  BY <1>6, <1>7, <1>8, <1>9, <1>10 DEF PagePart, PageShape, LoadIsCurrent

\* Drop: nobody waited for the answer.
LEMMA DropKeeps ==
    ASSUME PageInv, NEW r \in Requests, Drop(r)
    PROVE  PagePart'
<1>0. IInv /\ PageTypeOK /\ RolesFit /\ RolesInPhase /\ OneOfEach /\ ErasedIsGone
  BY DEF PageInv, PagePart, PageShape
<1>1. /\ req'[r].stage = "idle" /\ req'[r].kind = "none"
      /\ \A q \in Requests \ {r} : req'[q] = req[q]
      /\ TablesKept
  BY <1>0, ForgetEffect DEF Drop
<1>2. role[r] = "other" /\ page' = page /\ muddled' = muddled
  BY DEF Drop
<1>3. /\ role' \in [Requests -> Roles] /\ role'[r] = "none"
      /\ \A q \in Requests \ {r} : role'[q] = role[q]
  BY <1>0 DEF Drop, PageTypeOK
<1>4. PageTypeOK'
  BY <1>0, <1>2, <1>3 DEF PageTypeOK
<1>5. RolesFit'
  BY <1>0, <1>1, <1>3 DEF RolesFit
<1>6. RolesInPhase' /\ OneOfEach'
  BY <1>0, <1>1, <1>2, <1>3 DEF RolesInPhase, OneOfEach
<1>7. ErasedIsGone'
  BY <1>0, <1>1 DEF ErasedIsGone, TablesKept, Done
<1>8. LoadIsCurrent'
  BY <1>1, <1>2, <1>3 DEF PageInv, PagePart, LoadIsCurrent, TablesKept, Done, AnswerIsKept
<1>9. Agreement'
  <2>1. ErasurePending => ErasurePending'
    BY <1>1, <1>2, <1>3 DEF ErasurePending, Done
  <2>2. ASSUME NEW k \in Puts, Agrees(k) PROVE Agrees(k)'
    <3>1. \A q \in Requests : Newest(q, k)' <=> Newest(q, k)
      BY <1>1, <1>2, <1>3 DEF Newest
    <3>2. \A q \in Requests : Newest(q, k) => req'[q] = req[q]
      BY <1>1, <1>2 DEF Newest
    <3>3. \A q \in Requests :
            role'[q] = "stale" /\ req'[q].kind = k /\ Open(q)' =>
              role[q] = "stale" /\ req[q].kind = k /\ Open(q)
      BY <1>1, <1>3 DEF Open
    <3>4. QED  BY <1>1, <1>2, <2>2, <3>1, <3>2, <3>3, AgreesStays
  <2>3. QED  BY <1>2, <2>1, <2>2 DEF PageInv, PagePart, Agreement
<1>10. QED
  BY <1>4, <1>5, <1>6, <1>7, <1>8, <1>9 DEF PagePart, PageShape

LEMMA PageStutters == PageInv /\ UNCHANGED vars => PagePart'
<1>1. PagePart /\ UNCHANGED vars => PagePart'
  BY DEF vars, pageVars, serverVars, PagePart, PageShape, PageTypeOK, RolesFit, RolesInPhase,
         OneOfEach, ErasedIsGone, LoadIsCurrent, Agreement, ErasurePending, Agrees, Newest,
         ShownIsKept, Overtaken, AnswerIsKept, Done, Open
<1>2. QED  BY <1>1 DEF PageInv

LEMMA PageStepKeeps == PageInv /\ [PageNext]_vars => PageInv'
<1> SUFFICES ASSUME PageInv, [PageNext]_vars PROVE PageInv'
  OBVIOUS
<1>1. IInv'
  BY ServerKeeps DEF PageInv
<1> SUFFICES PagePart'
  BY <1>1 DEF PageInv
<1>2. CASE Mount \/ TryAgain
  BY <1>2, LoadKeeps DEF Mount, TryAgain
<1>3. CASE Leave
  BY <1>3, LeaveKeeps
<1>4. CASE SaveTraveler \/ SaveTaste
  BY <1>4, SaveKeeps DEF SaveTraveler, SaveTaste
<1>5. CASE EraseAccount
  <2>1. PICK r \in Requests :
          Send(r, "erase", Log!NoRow) /\ role' = [role EXCEPT ![r] = "erase"]
    BY <1>5 DEF EraseAccount
  <2>2. page.status = "ready" /\ UNCHANGED <<page, muddled>>
    BY <1>5 DEF EraseAccount
  <2>3. QED  BY <2>1, <2>2, OtherKeeps
<1>6. CASE Elsewhere
  <2>1. PICK r \in Requests, kind \in Puts, body \in Log!Bodies :
          Send(r, kind, body) /\ role' = [role EXCEPT ![r] = "other"]
    BY <1>6 DEF Elsewhere
  <2>2. UNCHANGED <<page, muddled>>
    BY <1>6 DEF Elsewhere
  <2>3. QED  BY <2>1, <2>2, OtherKeeps
<1>7. CASE ServerStep
  BY <1>7, ServerStepKeeps
<1>8. CASE TakeLoad
  BY <1>8, TakeLoadKeeps
<1>9. ASSUME NEW r \in Requests,
             TakeExpired(r) \/ TakeFailure(r) \/ TakeSave(r) \/ TakeErase(r) \/ Drop(r)
      PROVE  PagePart'
  BY <1>9, TakeExpiredKeeps, TakeFailureKeeps, TakeSaveKeeps, TakeEraseKeeps, DropKeeps
<1>10. CASE UNCHANGED vars
  BY <1>10, PageStutters
<1>11. QED
  BY <1>2, <1>3, <1>4, <1>5, <1>6, <1>7, <1>8, <1>9, <1>10 DEF PageNext

\* The invariant of the page and of the server it calls.
THEOREM PageInvariance == PageSpec => []PageInv
<1>1. PageInit => PageInv
  BY Initial, PageInitially DEF PageInit, PageInv
<1>2. QED  BY <1>1, PageStepKeeps, PTL DEF PageSpec

\* Once nothing is in flight the page shows what the server keeps, in whatever
\* order the answers of its saves, erasures and loads arrived.
THEOREM PagesAgree == PageSpec => []PageAgrees
<1>1. PageInv => PageAgrees
  <2> SUFFICES ASSUME PageInv, page.status = "ready", ~muddled,
                      \A r \in Requests : role[r] = "none"
               PROVE  page.traveler = traveler /\ page.versions = versions
    BY DEF PageAgrees
  <2>1. ~ErasurePending
    BY DEF ErasurePending
  <2>2. Agrees("traveler") /\ Agrees("taste")
    BY <2>1 DEF PageInv, PagePart, Agreement
  <2>3. ShownIsKept("traveler") /\ ShownIsKept("taste")
    BY <2>2 DEF Agrees, Newest
  <2>4. QED  BY <2>3 DEF ShownIsKept
<1>2. QED  BY <1>1, PageInvariance, PTL

-----------------------------------------------------------------------------
\* The routes keep their promise to the pages.

\* The wishes of requests that are not open before and after are none.
LEMMA NoWishes ==
    ASSUME TablesKept,
           \A q \in Requests : \/ req'[q] = req[q]
                               \/ /\ ~Open(q) \/ req[q].kind \notin Puts \cup {"erase"}
                                  /\ ~Open(q)' \/ req'[q].kind \notin Puts \cup {"erase"}
    PROVE  UNCHANGED Log!vars
<1>1. Wanted' = Wanted
  <2>1. \A q \in Requests : Wish(q)' = Wish(q)
    BY DEF Wish, Open
  <2>2. QED  BY <2>1 DEF Wanted
<1>2. QED  BY <1>1 DEF Log!vars, Wanted, TablesKept

LEMMA PageMaps ==
    ASSUME PageInv, [PageNext]_vars
    PROVE  [Log!Next]_(Log!vars)
<1>0. IInv /\ PageTypeOK
  BY DEF PageInv, PagePart, PageShape
<1>1. CASE Mount \/ TryAgain
  <2>1. Load
    BY <1>1 DEF Mount, TryAgain
  <2>2. PICK a, b \in Requests : Queries(a, b)
    BY <1>0, <2>1, LoadEffect DEF PageTypeOK
  <2>3. TablesKept
    BY <1>0, <2>1, LoadEffect DEF PageTypeOK
  <2>4. QED  BY <2>2, <2>3, NoWishes DEF Queries, Open
<1>2. CASE TakeLoad
  <2>1. PICK a, b \in Requests :
          /\ req[a].stage = "answered" /\ req[b].stage = "answered"
          /\ req' = [req EXCEPT ![a] = Fresh, ![b] = Fresh]
    BY <1>2 DEF TakeLoad, At
  <2>2. TablesKept
    BY <1>2 DEF TakeLoad, TablesKept
  <2>3. /\ req'[a].stage = "idle" /\ req'[b].stage = "idle"
        /\ \A q \in Requests \ {a, b} : req'[q] = req[q]
    BY <1>0, <2>1, RowsFit DEF Fresh
  <2>4. QED  BY <2>1, <2>2, <2>3, NoWishes DEF Open
<1>3. CASE Leave \/ UNCHANGED vars
  <2>1. TablesKept /\ req' = req
    BY <1>3 DEF Leave, vars, serverVars, TablesKept
  <2>2. QED  BY <2>1, NoWishes
<1>4. CASE SaveTraveler \/ SaveTaste \/ EraseAccount \/ Elsewhere
  <2>1. [Fields -> Values] \subseteq Log!Bodies
    BY DEF Log!Bodies
  <2>2. QED
    BY <1>0, <1>4, <2>1, NoRowType, SendIsClient, ClientMaps
    DEF SaveTraveler, SaveTaste, Save, EraseAccount, Elsewhere
<1>5. CASE ServerStep
  BY <1>0, <1>5, ServeMaps DEF ServerStep
<1>6. ASSUME NEW r \in Requests,
             TakeExpired(r) \/ TakeFailure(r) \/ TakeSave(r) \/ TakeErase(r) \/ Drop(r)
      PROVE  [Log!Next]_(Log!vars)
  BY <1>0, <1>6, ClientMaps DEF TakeExpired, TakeFailure, TakeSave, TakeErase, Drop, Client
<1>7. QED
  BY <1>1, <1>2, <1>3, <1>4, <1>5, <1>6 DEF PageNext

\* Of the pages as clients, too: each write takes effect whole, at its commit.
THEOREM PagesAreServed == PageSpec => Serial
<1>1. PageInit => Log!Init
  BY DEF PageInit, Init, Log!Init, Fresh, Wish, Open, Log!NoWish, Log!NoRow
<1>2. PageInv /\ [PageNext]_vars => [Log!Next]_(Log!vars)
  BY PageMaps
<1>3. QED  BY <1>1, <1>2, PageInvariance, PTL DEF PageSpec, Serial, Log!Spec

=============================================================================
