--------------------------- MODULE LoginPageProofs ---------------------------
(***************************************************************************)
(* The login page keeps one login per form under way, for any forms and    *)
(* any number of logins.  What makes it inductive: a stored controller is  *)
(* that of a login of the same form, so that aborting the stored one       *)
(* before another takes its place leaves no second login of the form live. *)
(***************************************************************************)
EXTENDS LoginPage, SequenceTheorems, TLAPS

\* The controller stored for a form belongs to a login of that form.
StoredForItsForm ==
  \A form \in Forms :
    conditionalControllers[form] # None =>
      /\ conditionalControllers[form] \in DOMAIN logins
      /\ logins[conditionalControllers[form]].form = form

\* The inductive invariant.
IInv == TypeOK /\ OneLoginPerForm /\ StoredForItsForm

\* The initial states satisfy the invariant.
LEMMA InitInv == Init => IInv
<1> SUFFICES ASSUME Init PROVE IInv
  OBVIOUS
<1>1. /\ logins \in Seq(Login) /\ Len(logins) = 0 /\ DOMAIN logins = {}
  BY EmptySeq, LenProperties DEF Init
<1>2. TypeOK
  BY <1>1, PageAssumption DEF Init, TypeOK
<1>3. OneLoginPerForm /\ StoredForItsForm
  BY <1>1 DEF Init, OneLoginPerForm, StoredForItsForm
<1> QED
  BY <1>2, <1>3 DEF IInv

\* A function on 1 .. n is a sequence.
LEMMA FunctionIsSeq ==
  ASSUME NEW S, NEW n \in Nat, NEW f \in [1 .. n -> S]
  PROVE  f \in Seq(S) /\ Len(f) = n
OBVIOUS

\* What the type invariant says of the logins.
LEMMA LoginsTyped ==
  ASSUME TypeOK
  PROVE  /\ Len(logins) \in Nat /\ Len(logins) <= MaxLogins
         /\ DOMAIN logins = 1 .. Len(logins)
         /\ logins \in [1 .. Len(logins) -> Login]
         /\ DOMAIN logins \subseteq LoginIds
         /\ \A i \in DOMAIN logins : logins[i] \in Login
BY LenProperties, PageAssumption DEF TypeOK, LoginIds

\* Going on at another await changes nothing else of the logins.
LEMMA GotoMoves ==
  ASSUME TypeOK, NEW i \in DOMAIN logins, NEW step \in Steps \ {"available"}
  PROVE  /\ Goto(i, step) \in [1 .. Len(logins) -> Login]
         /\ Goto(i, step)[i].form = logins[i].form
         /\ Goto(i, step)[i].conditional = logins[i].conditional
         /\ Goto(i, step)[i].step = step
         /\ Goto(i, step)[i].aborted = logins[i].aborted
         /\ \A j \in DOMAIN logins \ {i} : Goto(i, step)[j] = logins[j]
<1>1. /\ DOMAIN logins = 1 .. Len(logins) /\ logins \in [1 .. Len(logins) -> Login]
      /\ logins[i] \in Login
  BY LoginsTyped
<1>2. [logins[i] EXCEPT !.step = step] \in Login
  BY <1>1 DEF Login
<1>3. Goto(i, step) = [logins EXCEPT ![i] = [logins[i] EXCEPT !.step = step]]
  BY DEF Goto
<1> QED
  BY <1>1, <1>2, <1>3 DEF Login

\* Aborting the stored controller changes nothing but the flag of its login.
LEMMA AbortedMoves ==
  ASSUME NEW n \in Nat, NEW in \in [1 .. n -> Login], NEW form \in Forms
  PROVE  /\ Aborted(in, form) \in [1 .. n -> Login]
         /\ \A j \in 1 .. n :
              /\ Aborted(in, form)[j].form = in[j].form
              /\ Aborted(in, form)[j].conditional = in[j].conditional
              /\ Aborted(in, form)[j].step = in[j].step
              /\ Aborted(in, form)[j].aborted
                   <=> j = conditionalControllers[form] \/ in[j].aborted
<1>1. ASSUME NEW j \in 1 .. n
      PROVE  /\ [in[j] EXCEPT !.aborted = TRUE] \in Login
             /\ in[j] \in Login
             /\ [in[j] EXCEPT !.aborted = TRUE].form = in[j].form
             /\ [in[j] EXCEPT !.aborted = TRUE].conditional = in[j].conditional
             /\ [in[j] EXCEPT !.aborted = TRUE].step = in[j].step
             /\ [in[j] EXCEPT !.aborted = TRUE].aborted = TRUE
  BY DEF Login
<1>2. DOMAIN in = 1 .. n
  OBVIOUS
<1> QED
  BY <1>1, <1>2 DEF Aborted

\* A step that starts no login keeps the invariant if a login keeps its form
\* and its kind, none goes back to wait for mediation, and the controllers
\* are those of the logins that are under way and of their forms.
LEMMA LoginsMove ==
  ASSUME IInv,
         forms' \in [Forms -> {"new", "bound", "removed"}],
         logins' \in [1 .. Len(logins) -> Login],
         conditionalControllers' \in [Forms -> LoginIds \cup {None}],
         cookie' \in LoginIds \cup {None},
         \A j \in DOMAIN logins :
           /\ logins'[j].form = logins[j].form
           /\ logins'[j].conditional = logins[j].conditional
           /\ logins'[j].step = "available" => logins[j].step = "available"
           /\ logins'[j].step \in {"options", "answered", "prompt"} /\ ~logins'[j].aborted
                => conditionalControllers'[logins[j].form] = j,
         \A form \in Forms :
           \/ conditionalControllers'[form] \in {None, conditionalControllers[form]}
           \/ /\ conditionalControllers'[form] \in DOMAIN logins
              /\ logins[conditionalControllers'[form]].form = form
  PROVE  IInv'
<1>1. /\ logins' \in Seq(Login) /\ Len(logins') = Len(logins)
      /\ DOMAIN logins' = DOMAIN logins /\ Len(logins) <= MaxLogins
  BY FunctionIsSeq, LoginsTyped DEF IInv
<1>2. TypeOK'
  BY <1>1 DEF IInv, TypeOK
<1>3. OneLoginPerForm'
  BY <1>1 DEF OneLoginPerForm, Live
<1>4. StoredForItsForm'
  BY <1>1 DEF IInv, StoredForItsForm
<1> QED
  BY <1>2, <1>3, <1>4 DEF IInv

\* A login that settles leaves the controllers of the others alone.
LEMMA SettleInv ==
  ASSUME IInv, NEW i \in DOMAIN logins, NEW step \in {"ended", "succeeded"}, Settle(i, step),
         forms' = forms, cookie' \in LoginIds \cup {None}
  PROVE  IInv'
<1> DEFINE form == logins[i].form
<1>1. /\ DOMAIN logins = 1 .. Len(logins) /\ DOMAIN logins \subseteq LoginIds
      /\ \A j \in DOMAIN logins : logins[j].form \in Forms
  BY LoginsTyped DEF IInv, Login
<1>2. /\ forms \in [Forms -> {"new", "bound", "removed"}]
      /\ conditionalControllers \in [Forms -> LoginIds \cup {None}]
  BY DEF IInv, TypeOK
<1>3. /\ conditionalControllers' \in [Forms -> LoginIds \cup {None}]
      /\ \A f \in Forms :
           conditionalControllers'[f] = IF f = form /\ conditionalControllers[f] = i THEN None
                                        ELSE conditionalControllers[f]
  BY <1>1, <1>2 DEF Settle, Finally
<1>4. /\ logins' \in [1 .. Len(logins) -> Login]
      /\ logins'[i].form = logins[i].form /\ logins'[i].conditional = logins[i].conditional
      /\ logins'[i].step = step
      /\ \A j \in DOMAIN logins \ {i} : logins'[j] = logins[j]
  BY GotoMoves DEF Settle, IInv, Steps
<1>5. ASSUME NEW j \in DOMAIN logins
      PROVE  /\ logins'[j].form = logins[j].form
             /\ logins'[j].conditional = logins[j].conditional
             /\ logins'[j].step = "available" => logins[j].step = "available"
             /\ logins'[j].step \in {"options", "answered", "prompt"} /\ ~logins'[j].aborted
                  => conditionalControllers'[logins[j].form] = j
  <2>1. CASE j = i
    BY <1>4, <2>1
  <2>2. CASE j # i
    BY <1>1, <1>3, <1>4, <2>2 DEF IInv, OneLoginPerForm, Live
  <2> QED
    BY <2>1, <2>2
<1> QED
  BY <1>2, <1>3, <1>4, <1>5, LoginsMove

\* A login that goes on under the controllers it found keeps the invariant,
\* unless it enters the part the controllers are for.
LEMMA GoesOnInv ==
  ASSUME IInv, NEW i \in DOMAIN logins, NEW step \in Steps \ {"available"},
         logins' = Goto(i, step),
         step \in {"options", "answered", "prompt"}
           => logins[i].step \in {"options", "answered", "prompt"},
         UNCHANGED <<forms, conditionalControllers>>, cookie' \in LoginIds \cup {None}
  PROVE  IInv'
<1>1. /\ logins' \in [1 .. Len(logins) -> Login]
      /\ logins'[i].form = logins[i].form /\ logins'[i].conditional = logins[i].conditional
      /\ logins'[i].step = step /\ logins'[i].aborted = logins[i].aborted
      /\ \A j \in DOMAIN logins \ {i} : logins'[j] = logins[j]
  BY GotoMoves DEF IInv
<1>2. ASSUME NEW j \in DOMAIN logins
      PROVE  /\ logins'[j].form = logins[j].form
             /\ logins'[j].conditional = logins[j].conditional
             /\ logins'[j].step = "available" => logins[j].step = "available"
             /\ logins'[j].step \in {"options", "answered", "prompt"} /\ ~logins'[j].aborted
                  => conditionalControllers'[logins[j].form] = j
  <2>1. CASE j = i
    BY <1>1, <2>1 DEF IInv, OneLoginPerForm, Live
  <2>2. CASE j # i
    BY <1>1, <2>2 DEF IInv, OneLoginPerForm, Live
  <2> QED
    BY <2>1, <2>2
<1> QED
  BY <1>1, <1>2, LoginsMove DEF IInv, TypeOK
-----------------------------------------------------------------------------
\* A conditional login that replaces the stored one keeps the invariant: the
\* one it replaces was the only one of its form under way, and is aborted.
LEMMA StartConditionalLoginInv ==
  ASSUME IInv, NEW i \in DOMAIN logins, StartConditionalLogin(i)
  PROVE  IInv'
<1> DEFINE form == logins[i].form
           going == Goto(i, "options")
<1>1. /\ DOMAIN logins = 1 .. Len(logins) /\ Len(logins) \in Nat
      /\ DOMAIN logins \subseteq LoginIds
      /\ \A j \in DOMAIN logins : logins[j] \in Login /\ logins[j].form \in Forms
  BY LoginsTyped DEF IInv, Login
<1>2. /\ going \in [1 .. Len(logins) -> Login]
      /\ going[i].form = form /\ going[i].conditional = logins[i].conditional
      /\ going[i].step = "options"
      /\ \A j \in DOMAIN logins \ {i} : going[j] = logins[j]
  BY GotoMoves DEF IInv, Steps
<1>3. /\ logins' = Aborted(going, form)
      /\ conditionalControllers' = [conditionalControllers EXCEPT ![form] = i]
      /\ UNCHANGED <<forms, cookie>>
  BY DEF StartConditionalLogin
<1> HIDE DEF going
<1>4. /\ logins' \in [1 .. Len(logins) -> Login]
      /\ \A j \in 1 .. Len(logins) :
           /\ logins'[j].form = going[j].form
           /\ logins'[j].conditional = going[j].conditional
           /\ logins'[j].step = going[j].step
           /\ logins'[j].aborted <=> j = conditionalControllers[form] \/ going[j].aborted
  BY <1>1, <1>2, <1>3, AbortedMoves
<1>5. /\ conditionalControllers' \in [Forms -> LoginIds \cup {None}]
      /\ conditionalControllers'[form] = i
      /\ \A f \in Forms \ {form} : conditionalControllers'[f] = conditionalControllers[f]
  BY <1>1, <1>3 DEF IInv, TypeOK
<1>6. ASSUME NEW j \in DOMAIN logins
      PROVE  /\ logins'[j].form = logins[j].form
             /\ logins'[j].conditional = logins[j].conditional
             /\ logins'[j].step = "available" => logins[j].step = "available"
             /\ logins'[j].step \in {"options", "answered", "prompt"} /\ ~logins'[j].aborted
                  => conditionalControllers'[logins[j].form] = j
  <2>1. CASE j = i
    BY <1>1, <1>2, <1>4, <1>5, <2>1
  <2>2. CASE j # i
    BY <1>1, <1>2, <1>4, <1>5, <2>2 DEF IInv, OneLoginPerForm, Live
  <2> QED
    BY <2>1, <2>2
<1>7. \A f \in Forms :
        \/ conditionalControllers'[f] \in {None, conditionalControllers[f]}
        \/ /\ conditionalControllers'[f] \in DOMAIN logins
           /\ logins[conditionalControllers'[f]].form = f
  BY <1>5
<1> QED
  BY <1>3, <1>4, <1>5, <1>6, <1>7, LoginsMove DEF IInv, TypeOK

\* A form that is swapped out keeps the invariant: its login is aborted.
LEMMA RemoveFormInv ==
  ASSUME IInv, NEW form \in Forms, RemoveForm(form)
  PROVE  IInv'
<1>1. /\ DOMAIN logins = 1 .. Len(logins) /\ Len(logins) \in Nat
      /\ logins \in [1 .. Len(logins) -> Login]
      /\ \A j \in DOMAIN logins : logins[j].form \in Forms
  BY LoginsTyped DEF IInv, Login
<1>2. /\ forms' = [forms EXCEPT ![form] = "removed"]
      /\ logins' = Aborted(logins, form)
      /\ conditionalControllers' = [conditionalControllers EXCEPT ![form] = None]
      /\ cookie' = cookie
  BY DEF RemoveForm
<1>3. /\ logins' \in [1 .. Len(logins) -> Login]
      /\ \A j \in 1 .. Len(logins) :
           /\ logins'[j].form = logins[j].form
           /\ logins'[j].conditional = logins[j].conditional
           /\ logins'[j].step = logins[j].step
           /\ logins'[j].aborted <=> j = conditionalControllers[form] \/ logins[j].aborted
  BY <1>1, <1>2, AbortedMoves
<1>4. /\ conditionalControllers' \in [Forms -> LoginIds \cup {None}]
      /\ conditionalControllers'[form] = None
      /\ \A f \in Forms \ {form} : conditionalControllers'[f] = conditionalControllers[f]
      /\ forms' \in [Forms -> {"new", "bound", "removed"}]
  BY <1>2 DEF IInv, TypeOK
<1>5. ASSUME NEW j \in DOMAIN logins
      PROVE  /\ logins'[j].form = logins[j].form
             /\ logins'[j].conditional = logins[j].conditional
             /\ logins'[j].step = "available" => logins[j].step = "available"
             /\ logins'[j].step \in {"options", "answered", "prompt"} /\ ~logins'[j].aborted
                  => conditionalControllers'[logins[j].form] = j
  BY <1>1, <1>3, <1>4 DEF IInv, OneLoginPerForm, Live
<1>6. \A f \in Forms : conditionalControllers'[f] \in {None, conditionalControllers[f]}
  BY <1>4
<1> QED
  BY <1>2, <1>3, <1>4, <1>5, <1>6, LoginsMove DEF IInv, TypeOK

\* The logins as they are, except that some may have been aborted.
SomeAborted(olds) ==
  \A j \in DOMAIN logins :
    /\ olds[j].form = logins[j].form
    /\ olds[j].conditional = logins[j].conditional
    /\ olds[j].step = logins[j].step
    /\ logins[j].aborted => olds[j].aborted

\* The one whose controller is stored for the form is aborted.
StoredAborted(olds, form) ==
  \A j \in DOMAIN logins : j = conditionalControllers[form] => olds[j].aborted

\* A new login is not yet under way, or is the one whose controller is stored
\* and has replaced the one of its form: the invariant holds again.
LEMMA StartedInv ==
  ASSUME IInv, NEW form \in Forms, NEW login \in Login,
         Len(logins) < MaxLogins,
         login.form = form, login.step = "available" => login.conditional,
         NEW olds \in [1 .. Len(logins) -> Login],
         logins' = Append(olds, login),
         SomeAborted(olds),
         forms' \in [Forms -> {"new", "bound", "removed"}], cookie' = cookie,
         \/ /\ login.step = "available"
            /\ conditionalControllers' = conditionalControllers
         \/ /\ conditionalControllers'
                 = [conditionalControllers EXCEPT ![form] = Len(logins) + 1]
            /\ StoredAborted(olds, form)
  PROVE  IInv'
<1> DEFINE n == Len(logins)
<1>1. /\ DOMAIN logins = 1 .. n /\ n \in Nat /\ n + 1 \in LoginIds
      /\ DOMAIN logins \subseteq LoginIds
      /\ \A j \in DOMAIN logins : logins[j] \in Login /\ logins[j].form \in Forms
  BY LoginsTyped, PageAssumption DEF IInv, Login, LoginIds
<1>2. olds \in Seq(Login) /\ Len(olds) = n
  BY <1>1, FunctionIsSeq
<1>3. /\ logins' \in Seq(Login) /\ Len(logins') = n + 1 /\ DOMAIN logins' = 1 .. n + 1
      /\ \A j \in DOMAIN logins : logins'[j] = olds[j]
      /\ logins'[n + 1] = login
  BY <1>1, <1>2, AppendProperties, LenProperties
<1>4. /\ conditionalControllers' \in [Forms -> LoginIds \cup {None}]
      /\ \A f \in Forms \ {form} : conditionalControllers'[f] = conditionalControllers[f]
      /\ conditionalControllers'[form] \in {conditionalControllers[form], n + 1}
      /\ n + 1 # None
  <2>1. conditionalControllers \in [Forms -> LoginIds \cup {None}]
    BY DEF IInv, TypeOK
  <2>2. n + 1 # None
    BY <1>1, PageAssumption
  <2> HIDE DEF n
  <2>3. CASE conditionalControllers' = conditionalControllers
    BY <2>1, <2>2, <2>3
  <2>4. CASE conditionalControllers' = [conditionalControllers EXCEPT ![form] = n + 1]
    BY <1>1, <2>1, <2>2, <2>4
  <2> QED
    BY <2>3, <2>4 DEF n
<1>5. TypeOK'
  <2>1. \A j \in DOMAIN logins' : logins'[j].step = "available" => logins'[j].conditional
    BY <1>1, <1>3 DEF IInv, TypeOK, SomeAborted
  <2> QED
    BY <1>1, <1>3, <1>4, <2>1, PageAssumption DEF IInv, TypeOK
<1>6. OneLoginPerForm'
  <2>1. ASSUME NEW j \in DOMAIN logins', Live(j)'
        PROVE  conditionalControllers'[logins'[j].form] = j
    <3>1. CASE j = n + 1
      BY <1>3, <1>4, <2>1, <3>1 DEF Live, IInv, TypeOK
    <3>2. CASE j # n + 1
      <4>1. /\ j \in DOMAIN logins /\ logins'[j] = olds[j] /\ Live(j)
        BY <1>1, <1>3, <2>1, <3>2 DEF Live, Login, SomeAborted
      <4>2. conditionalControllers[logins[j].form] = j
        BY <4>1 DEF IInv, OneLoginPerForm
      <4> QED
        BY <1>1, <1>4, <2>1, <4>1, <4>2 DEF Live, SomeAborted, StoredAborted
    <3> QED
      BY <3>1, <3>2
  <2> QED
    BY <2>1 DEF OneLoginPerForm
<1>7. StoredForItsForm'
  BY <1>1, <1>3, <1>4 DEF IInv, StoredForItsForm, SomeAborted
<1> QED
  BY <1>5, <1>6, <1>7 DEF IInv
-----------------------------------------------------------------------------
\* Every step of the page keeps the invariant.
LEMMA StepInv == IInv /\ [Next]_vars => IInv'
<1> SUFFICES ASSUME IInv, [Next]_vars PROVE IInv'
  OBVIOUS
<1>1. /\ DOMAIN logins = 1 .. Len(logins) /\ Len(logins) \in Nat
      /\ logins \in [1 .. Len(logins) -> Login] /\ DOMAIN logins \subseteq LoginIds
      /\ cookie \in LoginIds \cup {None}
  BY LoginsTyped DEF IInv, TypeOK
<1>2. CASE UNCHANGED vars
  BY <1>2 DEF vars, IInv, TypeOK, OneLoginPerForm, Live, StoredForItsForm
<1>3. ASSUME NEW form \in Forms, BindPasskeyForm(form) PROVE IInv'
  <2>1. Started(form, TRUE, "available") \in Login
    BY DEF Started, Login, Steps
  <2>2. /\ Started(form, TRUE, "available").form = form
        /\ Started(form, TRUE, "available").step = "available"
        /\ Started(form, TRUE, "available").conditional
    BY DEF Started
  <2>3. /\ forms' \in [Forms -> {"new", "bound", "removed"}]
        /\ logins' = Append(logins, Started(form, TRUE, "available"))
        /\ Len(logins) < MaxLogins
        /\ UNCHANGED <<conditionalControllers, cookie>>
    BY <1>3 DEF BindPasskeyForm, IInv, TypeOK
  <2> QED
    BY <1>1, <2>1, <2>2, <2>3, StartedInv DEF SomeAborted
<1>4. ASSUME NEW form \in Forms, SubmitLogin(form) PROVE IInv'
  <2>1. ManualLogin(form) \in Login
    BY DEF ManualLogin, Started, Login, Steps
  <2>2. ManualLogin(form).form = form /\ ManualLogin(form).step = "options"
    BY DEF ManualLogin, Started
  <2>3. /\ logins' = Append(Aborted(logins, form), ManualLogin(form))
        /\ conditionalControllers' = [conditionalControllers EXCEPT ![form] = Len(logins) + 1]
        /\ Len(logins) < MaxLogins
        /\ forms' \in [Forms -> {"new", "bound", "removed"}] /\ cookie' = cookie
    BY <1>4 DEF SubmitLogin, IInv, TypeOK
  <2>4. /\ Aborted(logins, form) \in [1 .. Len(logins) -> Login]
        /\ \A j \in DOMAIN logins :
             /\ Aborted(logins, form)[j].form = logins[j].form
             /\ Aborted(logins, form)[j].conditional = logins[j].conditional
             /\ Aborted(logins, form)[j].step = logins[j].step
             /\ logins[j].aborted => Aborted(logins, form)[j].aborted
             /\ j = conditionalControllers[form] => Aborted(logins, form)[j].aborted
    BY <1>1, AbortedMoves
  <2>5. PICK olds \in [1 .. Len(logins) -> Login] : olds = Aborted(logins, form)
    BY <2>4
  <2>6. /\ logins' = Append(olds, ManualLogin(form))
        /\ SomeAborted(olds) /\ StoredAborted(olds, form)
    BY <2>3, <2>4, <2>5 DEF SomeAborted, StoredAborted
  <2>7. PICK login \in Login : login = ManualLogin(form)
    BY <2>1
  <2>8. /\ login.form = form /\ login.step # "available"
        /\ logins' = Append(olds, login)
    BY <2>2, <2>6, <2>7
  <2> QED
    BY <2>3, <2>6, <2>8, StartedInv
<1>5. ASSUME NEW form \in Forms, RemoveForm(form) PROVE IInv'
  BY <1>5, RemoveFormInv
<1>6. ASSUME NEW i \in DOMAIN logins, Script(i) \/ PickPasskey(i) \/ Dismiss(i) PROVE IInv'
  <2>1. CASE StartConditionalLogin(i)
    BY <2>1, StartConditionalLoginInv
  <2>2. CASE ServeOptions(i)
    BY <1>1, <2>2, GoesOnInv DEF ServeOptions, Steps
  <2>3. CASE ReceiveOptions(i)
    <3>1. cookie' \in LoginIds \cup {None} /\ forms' = forms
      BY <1>1, <2>3 DEF ReceiveOptions
    <3>2. CASE SignalAborted(i)
      BY <2>3, <3>1, <3>2, SettleInv DEF ReceiveOptions, Prompt
    <3>3. CASE ~SignalAborted(i)
      BY <2>3, <3>1, <3>3, GoesOnInv DEF ReceiveOptions, Prompt, Steps
    <3> QED
      BY <3>2, <3>3
  <2>4. CASE ClosePrompt(i)
    BY <1>1, <2>4, SettleInv DEF ClosePrompt
  <2>5. CASE ServeVerify(i)
    BY <1>1, <2>5, GoesOnInv DEF ServeVerify, Steps
  <2>6. CASE Succeed(i)
    BY <1>1, <2>6, SettleInv DEF Succeed
  <2>7. CASE GiveUp(i)
    BY <1>1, <2>7, SettleInv DEF GiveUp
  <2>8. CASE Dismiss(i)
    BY <1>1, <2>8, SettleInv DEF Dismiss
  <2>9. CASE PickPasskey(i)
    <3> DEFINE login == [logins[i] EXCEPT !.step = "verify", !.sent = cookie]
    <3>1. /\ login \in Login /\ login.form = logins[i].form
          /\ login.conditional = logins[i].conditional /\ login.step = "verify"
      BY <1>1 DEF Login, Steps
    <3>2. /\ logins' = [logins EXCEPT ![i] = login]
          /\ UNCHANGED <<forms, conditionalControllers, cookie>>
      BY <2>9 DEF PickPasskey
    <3> HIDE DEF login
    <3>3. /\ logins' \in [1 .. Len(logins) -> Login] /\ logins'[i] = login
          /\ \A j \in DOMAIN logins \ {i} : logins'[j] = logins[j]
      BY <1>1, <3>1, <3>2
    <3>4. ASSUME NEW j \in DOMAIN logins
          PROVE  /\ logins'[j].form = logins[j].form
                 /\ logins'[j].conditional = logins[j].conditional
                 /\ logins'[j].step = "available" => logins[j].step = "available"
                 /\ logins'[j].step \in {"options", "answered", "prompt"}
                    /\ ~logins'[j].aborted
                      => conditionalControllers'[logins[j].form] = j
      BY <3>1, <3>2, <3>3 DEF IInv, OneLoginPerForm, Live
    <3> QED
      BY <3>2, <3>3, <3>4, LoginsMove DEF IInv, TypeOK
  <2> QED
    BY <1>6, <2>1, <2>2, <2>3, <2>4, <2>5, <2>6, <2>7, <2>8, <2>9 DEF Script
<1> QED
  BY <1>2, <1>3, <1>4, <1>5, <1>6 DEF Next

\* The invariant holds in every reachable state.
LEMMA PageInvariant == Spec => []IInv
BY InitInv, StepInv, PTL DEF Spec

\* The page's forms, logins, controllers and cookie stay what they are said to
\* be: in particular a manual login never waits for mediation.
THEOREM PageTypeCorrect == Spec => []TypeOK
<1>1. IInv => TypeOK
  BY DEF IInv
<1> QED
  BY <1>1, PageInvariant, PTL

\* However clicks, swaps and late settlements interleave, a form has at most
\* one login under way, and the controller stored for the form is its own.
THEOREM LoginsOnePerForm == Spec => []OneLoginPerForm
<1>1. IInv => OneLoginPerForm
  BY DEF IInv
<1> QED
  BY <1>1, PageInvariant, PTL
=============================================================================
