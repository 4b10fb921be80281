------------------------------ MODULE LoginPage ------------------------------
(***************************************************************************)
(* The login page: the scripts passkey-ui.js and passkey.js in one         *)
(* document, and the two endpoints of the router they call.  A form starts *)
(* a conditional login by itself when it is bound, and a manual one at     *)
(* every click of its buttons; each is a promise chain with an             *)
(* AbortController, and WeakMap conditionalControllers holds the latest    *)
(* one of each form.                                                       *)
(*                                                                         *)
(* Code between two awaits is one step.  The signal of a controller is     *)
(* given to navigator.credentials.get only: the fetches of a login that    *)
(* was aborted go on, and their responses still set cookies.  A login asks *)
(* for options once, so its flow has the login's own number.               *)
(*                                                                         *)
(* External to src/: the browser, HTMX and the user.  The router's share   *)
(* is reduced to the cookie; PasskeyRouter has the challenges, and why one *)
(* may be refused (it expired, it was popped) is left open here.           *)
(***************************************************************************)
EXTENDS Naturals, FiniteSets, Sequences

CONSTANTS
  Forms,     \* the login forms HTMX puts into the document, one after another
  MaxLogins, \* bound on the logins ever started
  None       \* no value

ASSUME PageAssumption == MaxLogins \in Nat /\ None \notin Nat

VARIABLES
  forms,                  \* form -> whether it is in the document
  logins,                 \* the logins, in the order in which they were started
  conditionalControllers, \* form -> the login whose controller is stored, or None
  cookie                  \* the authentication challenge cookie

vars == <<forms, logins, conditionalControllers, cookie>>
-----------------------------------------------------------------------------
LoginIds == 1 .. MaxLogins

Steps == {"available", "options", "answered", "prompt", "verify", "accepted", "refused",
          "succeeded", "ended"}

(***************************************************************************)
(* A login: its form, whether it is the conditional one, the await it is   *)
(* at, whether its signal was aborted, and the cookie its verify request   *)
(* was sent with.                                                          *)
(***************************************************************************)
Login == [form : Forms, conditional : BOOLEAN, step : Steps, aborted : BOOLEAN,
          sent : LoginIds \cup {None}]

Started(form, conditional, step) ==
  [form |-> form, conditional |-> conditional, step |-> step, aborted |-> FALSE, sent |-> None]

(***************************************************************************)
(* The state space.  Only a conditional login waits to hear whether        *)
(* mediation is available.                                                 *)
(***************************************************************************)

TypeOK ==
  /\ forms \in [Forms -> {"new", "bound", "removed"}]
  /\ logins \in Seq(Login) /\ Len(logins) <= MaxLogins
  /\ conditionalControllers \in [Forms -> LoginIds \cup {None}]
  /\ \A i \in DOMAIN logins : logins[i].step = "available" => logins[i].conditional
  /\ cookie \in LoginIds \cup {None}

Init ==
  /\ forms = [f \in Forms |-> "new"]
  /\ logins = <<>>
  /\ conditionalControllers = [f \in Forms |-> None]
  /\ cookie = None
-----------------------------------------------------------------------------
\* Login i goes on at another await.
Goto(i, step) == [logins EXCEPT ![i].step = step]

\* The logins `in` once the controller stored for the form was aborted.
Aborted(in, form) ==
  [i \in DOMAIN in |->
     IF i = conditionalControllers[form] THEN [in[i] EXCEPT !.aborted = TRUE] ELSE in[i]]

\* bindPasskeyForm: startConditionalLogin asks whether mediation is available.
BindPasskeyForm(form) ==
  /\ forms[form] = "new" /\ Len(logins) < MaxLogins
  /\ forms' = [forms EXCEPT ![form] = "bound"]
  /\ logins' = Append(logins, Started(form, TRUE, "available"))
  /\ UNCHANGED <<conditionalControllers, cookie>>

\* It is: the login replaces the one whose controller is stored.
StartConditionalLogin(i) ==
  LET form == logins[i].form IN
  /\ logins[i].step = "available"
  /\ logins' = Aborted(Goto(i, "options"), form)
  /\ conditionalControllers' = [conditionalControllers EXCEPT ![form] = i]
  /\ UNCHANGED <<forms, cookie>>

\* Wrong form of ManualLogin: the manual login waits for mediation as well.
ManualLoginAsks(form) == Started(form, FALSE, "available")

\* A manual login goes straight to its options request.
ManualLogin(form) == Started(form, FALSE, "options")

\* submitLogin: abortConditionalLogin, a new controller, the options request.
SubmitLogin(form) ==
  /\ forms[form] = "bound" /\ Len(logins) < MaxLogins
  /\ logins' = Append(Aborted(logins, form), ManualLogin(form))
  /\ conditionalControllers' = [conditionalControllers EXCEPT ![form] = Len(logins) + 1]
  /\ UNCHANGED <<forms, cookie>>

\* The removalObserver: abortConditionalLogin of the form that was swapped out.
RemoveForm(form) ==
  /\ forms[form] = "bound"
  /\ forms' = [forms EXCEPT ![form] = "removed"]
  /\ logins' = Aborted(logins, form)
  /\ conditionalControllers' = [conditionalControllers EXCEPT ![form] = None]
  /\ UNCHANGED cookie

\* Wrong form of Finally: the controller is deleted whichever login stored it.
FinallyAnyway(i) == [conditionalControllers EXCEPT ![logins[i].form] = None]

\* The finally clauses: the controller is deleted if it is still this login's.
Finally(i) ==
  [conditionalControllers EXCEPT ![logins[i].form] = IF @ = i THEN None ELSE @]

\* The login's promise settles.
Settle(i, step) ==
  /\ logins' = Goto(i, step)
  /\ conditionalControllers' = Finally(i)
-----------------------------------------------------------------------------
(***************************************************************************)
(* loginPasskey and the router.                                            *)
(***************************************************************************)
\* login_options makes a flow and saves its challenge; the response is on its way.
ServeOptions(i) ==
  /\ logins[i].step = "options"
  /\ logins' = Goto(i, "answered")
  /\ UNCHANGED <<forms, conditionalControllers, cookie>>

\* Wrong form of SignalAborted: only the conditional prompt is given the signal.
SignalAbortedConditional(i) == logins[i].conditional /\ logins[i].aborted

\* The signal that navigator.credentials.get was given is aborted.
SignalAborted(i) == logins[i].aborted

\* navigator.credentials.get: it rejects at once if the signal is aborted.
Prompt(i) ==
  IF SignalAborted(i)
  THEN Settle(i, "ended")
  ELSE logins' = Goto(i, "prompt") /\ UNCHANGED conditionalControllers

\* The options arrive with the cookie of their flow.
ReceiveOptions(i) ==
  /\ logins[i].step = "answered"
  /\ cookie' = i
  /\ Prompt(i)
  /\ UNCHANGED forms

\* The prompt of an aborted login is closed, and get rejects with AbortError.
ClosePrompt(i) ==
  /\ logins[i].step = "prompt" /\ SignalAborted(i)
  /\ Settle(i, "ended")
  /\ UNCHANGED <<forms, cookie>>

\* The user dismisses the prompt.
Dismiss(i) ==
  /\ logins[i].step = "prompt"
  /\ Settle(i, "ended")
  /\ UNCHANGED <<forms, cookie>>

\* The user picks a passkey: it answers the options, the request takes the cookie.
PickPasskey(i) ==
  /\ logins[i].step = "prompt" /\ ~SignalAborted(i)
  /\ logins' = [logins EXCEPT ![i].step = "verify", ![i].sent = cookie]
  /\ UNCHANGED <<forms, conditionalControllers, cookie>>

\* login_verify: the cookie's challenge must be the one answered, and be alive.
ServeVerify(i) ==
  /\ logins[i].step = "verify"
  /\ \/ logins[i].sent = i /\ logins' = Goto(i, "accepted")
     \/ logins' = Goto(i, "refused")
  /\ UNCHANGED <<forms, conditionalControllers, cookie>>

\* handleSuccess; the response has deleted the cookie.
Succeed(i) ==
  /\ logins[i].step = "accepted"
  /\ cookie' = None
  /\ Settle(i, "succeeded")
  /\ UNCHANGED forms

\* No mediation, or postJSON throws: a request failed or was refused.
GiveUp(i) ==
  /\ logins[i].step \in {"available", "options", "refused"}
  /\ Settle(i, "ended")
  /\ UNCHANGED <<forms, cookie>>

Script(i) ==
  \/ StartConditionalLogin(i) \/ ServeOptions(i) \/ ReceiveOptions(i) \/ ClosePrompt(i)
  \/ ServeVerify(i) \/ Succeed(i) \/ GiveUp(i)

Next ==
  \/ \E form \in Forms : BindPasskeyForm(form) \/ SubmitLogin(form) \/ RemoveForm(form)
  \/ \E i \in DOMAIN logins : Script(i) \/ PickPasskey(i) \/ Dismiss(i)

(***************************************************************************)
(* Fetches are answered (or fail), promises settle, and a browser closes   *)
(* the prompt of an aborted signal.  Users need not do anything.           *)
(***************************************************************************)
Fairness == \A i \in LoginIds : WF_vars(i \in DOMAIN logins /\ Script(i))

Spec == Init /\ [][Next]_vars /\ Fairness
-----------------------------------------------------------------------------
Live(i) == logins[i].step \in {"options", "answered", "prompt"} /\ ~logins[i].aborted

(***************************************************************************)
(* A form has one login under way at most, and its controller is the one   *)
(* stored, so the next click and the removal of the form can cancel it.    *)
(* Logins that were superseded settle late and must leave the controller   *)
(* of their successor alone.                                               *)
(***************************************************************************)
OneLoginPerForm ==
  \A i \in DOMAIN logins : Live(i) => conditionalControllers[logins[i].form] = i

(***************************************************************************)
(* "Pending prompts are cancelled on manual login, HTMX replacement, and   *)
(* view removal": a login that was aborted settles, wherever it was; its   *)
(* prompt does not stay open.                                              *)
(***************************************************************************)
AbortedLoginsSettle ==
  \A i \in LoginIds :
    (i \in DOMAIN logins /\ logins[i].aborted)
      ~> (i \in DOMAIN logins /\ logins[i].step \in {"succeeded", "ended"})

(***************************************************************************)
(* "Manual and hybrid login remain available": a manual login that no      *)
(* later one replaced is verified with the cookie of its own flow.         *)
(***************************************************************************)
ManualLoginsVerified ==
  \A i \in DOMAIN logins :
    /\ logins[i].step = "verify" /\ ~logins[i].conditional
    /\ \A j \in DOMAIN logins : ~logins[j].conditional => j <= i
    => logins[i].sent = i
=============================================================================
