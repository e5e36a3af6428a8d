------------------------------- MODULE OAuthFlow -------------------------------
(***************************************************************************)
(* How `connect add` and `connect reauth` get a token: discovery, client   *)
(* registration, then either the device flow's polling or a browser that   *)
(* comes back to a one-shot listener, whose code is exchanged.  All of it  *)
(* under one timeout.                                                      *)
(*                                                                         *)
(* Time is counted in units of the five seconds that a slow_down adds.     *)
(***************************************************************************)
EXTENDS Naturals

CONSTANTS
  FlowTimeout, \* oauthFlowTimeout
  Intervals,   \* what a server may ask for between polls, 0 for nothing
  CodeLives    \* of a device code, 0 for one that is not told

ASSUME FlowAssumption ==
  /\ FlowTimeout \in Nat \ {0}
  /\ Intervals \subseteq Nat /\ CodeLives \subseteq Nat

VARIABLES
  stage,    \* of the command
  elapsed,  \* since it began, up to FlowTimeout
  device,   \* it has --device
  timer,    \* the poll loop's time.After: what is left of it
  interval, \* the loop's interval
  deadline, \* what is left of the device code's life, Never if it is not told
  wanted,    \* what the server wants between two polls
  since,    \* the time since the last poll, or since the code was issued,
            \* up to what the server wants
  tooSoon,  \* history: a poll came sooner than the server asked
  consent,  \* the user's answer at the server
  result,   \* what is in the listener's channel of one
  genuine   \* history: the token the command ended with is one

pollVars == <<timer, interval, deadline, wanted, since, tooSoon>>
flowVars == <<stage, elapsed, device, pollVars, consent, result, genuine>>

Never == FlowTimeout + 1
DefaultInterval == 1  \* five seconds

Over == {"idle", "token", "failed"}
Stages == Over \union {"discover", "register", "initiate", "poll", "browser", "listen", "exchange"}

FlowInit ==
  /\ stage = "idle" /\ elapsed = 0 /\ device = FALSE
  /\ timer = 0 /\ interval = DefaultInterval /\ deadline = Never
  /\ wanted = DefaultInterval /\ since = 0 /\ tooSoon = FALSE
  /\ consent = "none" /\ result = "none" /\ genuine = TRUE

-----------------------------------------------------------------------------
Fails == stage' = "failed"

BeginFlow(d) ==
  /\ stage = "idle"
  /\ stage' = "discover" /\ device' = d
  /\ UNCHANGED <<elapsed, pollVars, consent, result, genuine>>

(* The probe, the resource's metadata and the server's.  reauth has its    *)
(* client credentials, and so has an add that was given them.              *)
Discover ==
  /\ stage = "discover"
  /\ \/ stage' = "register"
     \/ stage' = IF device THEN "initiate" ELSE "browser"
     \/ Fails
  /\ UNCHANGED <<elapsed, device, pollVars, consent, result, genuine>>

Register ==
  /\ stage = "register"
  /\ (stage' = IF device THEN "initiate" ELSE "browser") \/ Fails
  /\ UNCHANGED <<elapsed, device, pollVars, consent, result, genuine>>

-----------------------------------------------------------------------------
(* The device flow.                                                        *)

InitiateDeviceAuth ==
  /\ stage = "initiate"
  /\ \E i \in Intervals, e \in CodeLives :
       LET n == IF i > 0 THEN i ELSE DefaultInterval
       IN /\ interval' = n /\ wanted' = n /\ timer' = n
          /\ deadline' = IF e > 0 THEN e ELSE Never
  /\ stage' = "poll" /\ since' = 0
  /\ UNCHANGED <<elapsed, device, tooSoon, consent, result, genuine>>

InitiateFails ==
  /\ stage = "initiate"
  /\ Fails
  /\ UNCHANGED <<elapsed, device, pollVars, consent, result, genuine>>

(* The timer's arm of the select: one poll.  One made after the timeout    *)
(* fails, which is CtxDone.                                                *)
Polls ==
  /\ stage = "poll" /\ timer = 0 /\ elapsed < FlowTimeout
  /\ tooSoon' = (tooSoon \/ since < wanted)
  /\ since' = 0

PollPending ==
  /\ Polls /\ consent = "none"
  /\ timer' = interval
  /\ UNCHANGED <<stage, elapsed, device, interval, deadline, wanted, consent, result, genuine>>

(* Mutant: slow_down is taken for authorization_pending.                   *)
PollSlowDownIgnored ==
  /\ Polls /\ consent = "none"
  /\ wanted' = wanted + 1
  /\ timer' = interval
  /\ UNCHANGED <<stage, elapsed, device, interval, deadline, consent, result, genuine>>

PollSlowDown ==
  /\ Polls /\ consent = "none"
  /\ wanted' = wanted + 1
  /\ interval' = interval + 1 /\ timer' = interval + 1
  /\ UNCHANGED <<stage, elapsed, device, deadline, consent, result, genuine>>

(* A 2xx, which has to have a token in it.                                 *)
PollToken ==
  /\ Polls
  /\ \/ consent = "granted" /\ stage' = "token"
     \/ Fails
  /\ UNCHANGED <<elapsed, device, timer, interval, deadline, wanted, consent, result, genuine>>

DeadlineArm ==
  /\ stage = "poll" /\ deadline = 0
  /\ Fails
  /\ UNCHANGED <<elapsed, device, pollVars, consent, result, genuine>>

-----------------------------------------------------------------------------
(* The browser.                                                            *)

OpenBrowser ==
  /\ stage = "browser"
  /\ stage' = "listen" \/ Fails
  /\ UNCHANGED <<elapsed, device, pollVars, consent, result, genuine>>

(* Requests to the listener: the server's redirect with a code or an       *)
(* error, or one that is not of this flow.                                 *)
Callbacks == {"code", "error", "stray"}

Possible(c) ==
  CASE c = "code" -> consent = "granted"
    [] c = "error" -> consent = "denied"
    [] OTHER -> TRUE

(* The channel takes the first; further ones are dropped.                  *)
Callback(c) ==
  /\ stage = "listen" /\ Possible(c) /\ result = "none"
  /\ result' = c
  /\ UNCHANGED <<stage, elapsed, device, pollVars, consent, genuine>>

TakeResult ==
  /\ stage = "listen" /\ result # "none"
  /\ stage' = IF result = "code" THEN "exchange" ELSE "failed"
  /\ UNCHANGED <<elapsed, device, pollVars, consent, result, genuine>>

(* A server that does PKCE takes no other flow's code, but there are those *)
(* that do not.                                                            *)
Exchange ==
  /\ stage = "exchange"
  /\ stage' = "token" \/ Fails
  /\ genuine' = (stage' = "token" => result = "code")
  /\ UNCHANGED <<elapsed, device, pollVars, consent, result>>

-----------------------------------------------------------------------------
Running == stage \notin Over

(* Mutant: the poll loop does not look at the context.                     *)
CtxDoneUnpolled ==
  /\ Running /\ stage # "poll" /\ elapsed = FlowTimeout
  /\ Fails
  /\ UNCHANGED <<elapsed, device, pollVars, consent, result, genuine>>

(* Whatever it waits for, the context ends it.                             *)
CtxDone ==
  /\ Running /\ elapsed = FlowTimeout
  /\ Fails
  /\ UNCHANGED <<elapsed, device, pollVars, consent, result, genuine>>

UserAnswers ==
  /\ stage \in {"poll", "listen"} /\ consent = "none"
  /\ consent' \in {"granted", "denied"}
  /\ UNCHANGED <<stage, elapsed, device, pollVars, result, genuine>>

Left(n) == IF n > 0 THEN n - 1 ELSE 0

TimePasses ==
  /\ Running /\ elapsed < FlowTimeout
  /\ elapsed' = elapsed + 1
  /\ timer' = Left(timer)
  /\ deadline' = IF deadline = Never THEN Never ELSE Left(deadline)
  /\ since' = IF since < wanted THEN since + 1 ELSE since
  /\ UNCHANGED <<stage, device, interval, wanted, tooSoon, consent, result, genuine>>

FlowAgain ==
  /\ ~Running /\ stage # "idle"
  /\ stage' = "idle" /\ elapsed' = 0 /\ device' = FALSE
  /\ timer' = 0 /\ interval' = DefaultInterval /\ deadline' = Never
  /\ wanted' = DefaultInterval /\ since' = 0
  /\ consent' = "none" /\ result' = "none" /\ genuine' = TRUE
  /\ UNCHANGED tooSoon

FlowNext ==
  \/ \E d \in BOOLEAN : BeginFlow(d)
  \/ Discover \/ Register
  \/ InitiateDeviceAuth \/ InitiateFails
  \/ PollPending \/ PollSlowDown \/ PollToken \/ DeadlineArm
  \/ OpenBrowser \/ TakeResult \/ Exchange
  \/ \E c \in Callbacks : Callback(c)
  \/ CtxDone \/ UserAnswers \/ TimePasses \/ FlowAgain

FlowFairness == WF_flowVars(TimePasses) /\ WF_flowVars(CtxDone)

FlowSpec == FlowInit /\ [][FlowNext]_flowVars /\ FlowFairness

-----------------------------------------------------------------------------
FlowTypeOK ==
  /\ stage \in Stages /\ device \in BOOLEAN
  /\ elapsed \in 0..FlowTimeout
  /\ interval \in Nat \ {0} /\ wanted \in Nat
  /\ timer \in 0..interval /\ since \in 0..wanted
  /\ deadline \in Nat
  /\ tooSoon \in BOOLEAN /\ genuine \in BOOLEAN
  /\ consent \in {"none", "granted", "denied"}
  /\ result \in Callbacks \union {"none"}

(* However often the server says slow_down, no poll comes sooner than it   *)
(* asked; and a token is what the user granted to this very flow.          *)
FlowHonest ==
  /\ ~tooSoon /\ genuine
  /\ stage = "token" => consent = "granted"

(* The command ends, with a token or without, even if the user never       *)
(* answers and the server says pending for good.                           *)
FlowEnds == Running ~> ~Running
=============================================================================
