------------------------------ MODULE ByokForm ------------------------------
(***************************************************************************)
(* The form that adds an upstream credential to a user's own: one form at  *)
(* a time, for a provider, whose fields are states of the page and outlive *)
(* the form.  What the answer does to the list is in OwnCredentials.       *)
(***************************************************************************)
EXTENDS Naturals

CONSTANTS
    Compatible,     \* providers that need an address and an alias,
    Simple,         \* and those that need neither
    NoForm,
    MaxAdds         \* bound: credentials added

\* A provider is of one kind, and no provider is the closed form.
ASSUME FormAssumption ==
    /\ Compatible \cap Simple = {}
    /\ NoForm \notin Compatible \cup Simple

VARIABLES
    byokOpen,       \* the page is shown
    adding,         \* the provider whose form is open
    fields,         \* the fields' contents
    addSent,        \* a request is under way: of this page, of an earlier one
    adds

formVars == <<byokOpen, adding, fields, addSent, adds>>

-----------------------------------------------------------------------------
FieldNames == {"apiKey", "label", "baseUrl", "billing", "alias"}

\* "typed" into the form that is open, left "over" from another one, or the
\* provider's own address.
Contents == {"empty", "default", "typed", "over"}

Cleared(names) == [f \in FieldNames |-> IF f \in names THEN "empty" ELSE
                        IF fields[f] = "typed" THEN "over" ELSE fields[f]]

\* Mutant: opening a form leaves the way of billing as well.
FieldsOnOpenPartly(p) ==
    [Cleared(FieldNames \ {"billing"}) EXCEPT !.baseUrl =
        IF p \in Compatible THEN "default" ELSE "empty"]

\* Opening a form clears all fields, closing it leaves the way of billing.
FieldsOnOpen(p) ==
    [Cleared(FieldNames) EXCEPT !.baseUrl =
        IF p \in Compatible THEN "default" ELSE "empty"]

FieldsOnClose == Cleared(FieldNames \ {"billing"})

\* The fields the open form shows.
ShownFields ==
    IF adding \in Compatible THEN FieldNames ELSE FieldNames \ {"baseUrl", "alias"}

Required == IF adding \in Compatible THEN {"apiKey", "baseUrl", "alias"} ELSE {"apiKey"}

-----------------------------------------------------------------------------
FormInit ==
    /\ byokOpen = FALSE /\ adding = NoForm
    /\ fields = [f \in FieldNames |-> "empty"]
    /\ addSent = {} /\ adds = 0

OpenByok ==
    /\ ~byokOpen /\ byokOpen' = TRUE
    /\ UNCHANGED <<adding, fields, addSent, adds>>

\* The state goes with the page; its request goes on, without its handler's
\* effect on the form.
LeaveByok ==
    /\ byokOpen /\ byokOpen' = FALSE
    /\ adding' = NoForm /\ fields' = [f \in FieldNames |-> "empty"]
    /\ addSent' = {}
    /\ UNCHANGED adds

\* A second click on a provider closes its form.
OpenProvider(p) ==
    /\ byokOpen
    /\ IF adding = p THEN adding' = NoForm /\ fields' = FieldsOnClose
                     ELSE adding' = p /\ fields' = FieldsOnOpen(p)
    /\ UNCHANGED <<byokOpen, addSent, adds>>

CancelForm ==
    /\ byokOpen /\ adding # NoForm
    /\ adding' = NoForm /\ fields' = FieldsOnClose
    /\ UNCHANGED <<byokOpen, addSent, adds>>

TypeField(f) ==
    /\ byokOpen /\ adding # NoForm /\ f \in ShownFields
    /\ \E c \in {"typed", "empty"} : fields' = [fields EXCEPT ![f] = c]
    /\ UNCHANGED <<byokOpen, adding, addSent, adds>>

\* The request carries the contents, of the fields that are not shown as well.
SubmitForm ==
    /\ byokOpen /\ adding # NoForm /\ addSent = {}
    /\ \A f \in Required : fields[f] # "empty"
    /\ adds < MaxAdds /\ adds' = adds + 1
    /\ addSent' = {[provider |-> adding, sentFields |-> fields]}
    /\ UNCHANGED <<byokOpen, adding, fields>>

\* The answer closes the form that is open and clears it, also when it is
\* another one than the one that was submitted.
AddAnswered ==
    /\ addSent # {} /\ addSent' = {}
    /\ adding' = NoForm /\ fields' = [f \in FieldNames |-> "empty"]
    /\ UNCHANGED <<byokOpen, adds>>

AddRefused ==
    /\ addSent # {} /\ addSent' = {}
    /\ UNCHANGED <<byokOpen, adding, fields, adds>>

FormNext ==
    \/ OpenByok \/ LeaveByok \/ CancelForm
    \/ \E p \in Compatible \cup Simple : OpenProvider(p)
    \/ \E f \in FieldNames : TypeField(f)
    \/ SubmitForm \/ AddAnswered \/ AddRefused

FormSpec == FormInit /\ [][FormNext]_formVars

-----------------------------------------------------------------------------
\* Nothing typed for one provider is sent to another: neither a secret nor an
\* address, nor the way of billing, which closing a form leaves behind (lines
\* 144-171 and 324-336: every opening clears the fields the closings leave).
SentIsTypedHere ==
    \A a \in addSent :
        /\ \A f \in FieldNames : a.sentFields[f] # "over"
        /\ a.provider \in Simple =>
                a.sentFields["baseUrl"] = "empty" /\ a.sentFields["alias"] = "empty"
=============================================================================
