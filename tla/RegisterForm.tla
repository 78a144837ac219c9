---------------------------- MODULE RegisterForm ----------------------------
(***************************************************************************)
(* The registration form and the contract it has with the backend: the     *)
(* page validates name and password before it sends them, the backend      *)
(* validates them again, and the two count differently.  The browser       *)
(* counts UTF-16 code units, the backend bytes of UTF-8.                   *)
(*                                                                         *)
(* A text is known by its characters: how many take one, two, three and    *)
(* four bytes, with nothing to trim at its ends.  The address is valid for *)
(* both sides; it may belong to an account already.                        *)
(***************************************************************************)
EXTENDS Naturals

CONSTANTS
  Names,          \* what may be typed into the name
  Passwords,      \* what may be typed into the password
  MaxFormSubmits, \* bound on the requests
  MaxFormFaults   \* bound on the requests without an answer

Text == [one : Nat, two : Nat, three : Nat, four : Nat]

Empty == [one |-> 0, two |-> 0, three |-> 0, four |-> 0]

ASSUME TextsAssumption == Names \subseteq Text /\ Passwords \subseteq Text
ASSUME FormBounds      == MaxFormSubmits \in Nat /\ MaxFormFaults \in Nat

\* The characters of a text, its length in JavaScript, and its length in Go.
Characters(t) == t.one + t.two + t.three + t.four
Units(t)      == t.one + t.two + t.three + 2 * t.four
Bytes(t)      == t.one + 2 * t.two + 3 * t.three + 4 * t.four

VARIABLES
  name, password, \* values
  repeated,       \* values.confirmPassword is equal to the password
  errors,         \* the fields that show an error
  submitError,    \* an error below the form is shown
  request,        \* what has been sent and has no answer, or "none"
  complaints,     \* the fields the last answer complained about
  formSubmits,
  formFaults

formVars == <<name, password, repeated, errors, submitError, request, complaints,
              formSubmits, formFaults>>

Fields == {"name", "email", "password", "confirmPassword"}

FormTypeOK ==
  /\ name \in Names \cup {Empty}
  /\ password \in Passwords \cup {Empty}
  /\ repeated \in BOOLEAN
  /\ errors \subseteq Fields
  /\ submitError \in BOOLEAN
  /\ request \in [name : Names \cup {Empty}, password : Passwords \cup {Empty}] \cup {<<>>}
  /\ complaints \subseteq Fields
  /\ formSubmits \in 0..MaxFormSubmits
  /\ formFaults \in 0..MaxFormFaults

FormInit ==
  /\ name = Empty /\ password = Empty
  /\ repeated = TRUE
  /\ errors = {}
  /\ submitError = FALSE
  /\ request = <<>>
  /\ complaints = {}
  /\ formSubmits = 0
  /\ formFaults = 0

-----------------------------------------------------------------------------
(* validateRegisterForm *)

NameError(t) == Units(t) < 2 \/ Units(t) > 100

\* Mutation: the password is measured in code units like the name.
PasswordErrorInUnits(t) == Units(t) < 8 \/ Units(t) > 72

PasswordError(t) == Units(t) < 8 \/ Bytes(t) > 72

FormErrors ==
  (IF NameError(name) THEN {"name"} ELSE {})
    \cup (IF PasswordError(password) THEN {"password"} ELSE {})
    \cup (IF password = Empty \/ ~repeated THEN {"confirmPassword"} ELSE {})

(* validateRegisterRequest *)

RequestErrors(r) ==
  (IF Bytes(r.name) < 2 \/ Bytes(r.name) > 100 THEN {"name"} ELSE {})
    \cup (IF Bytes(r.password) < 8 \/ Bytes(r.password) > 72 THEN {"password"} ELSE {})

-----------------------------------------------------------------------------
(* The page *)

\* Mutation: an edit removes the error below the form only.
EditedKeeping(field) == errors' = errors /\ submitError' = FALSE

\* handleChange: the error of the field goes, and the one below the form.
Edited(field) == errors' = errors \ {field} /\ submitError' = FALSE

ChangeName(t) ==
  /\ t # name
  /\ name' = t
  /\ Edited("name")
  /\ UNCHANGED <<password, repeated, request, complaints, formSubmits, formFaults>>

ChangePassword(t) ==
  /\ t # password
  /\ password' = t
  /\ repeated' \in {FALSE, ~repeated}
  /\ Edited("password")
  /\ UNCHANGED <<name, request, complaints, formSubmits, formFaults>>

ChangeEmail ==
  /\ Edited("email")
  /\ UNCHANGED <<name, password, repeated, request, complaints, formSubmits, formFaults>>

ChangeConfirmation ==
  /\ repeated' \in {FALSE, ~repeated}
  /\ Edited("confirmPassword")
  /\ UNCHANGED <<name, password, request, complaints, formSubmits, formFaults>>

\* handleSubmit; the button is disabled while a request is under way.
SubmitForm ==
  /\ request = <<>>
  /\ errors' = FormErrors
  /\ IF FormErrors = {}
     THEN /\ formSubmits < MaxFormSubmits
          /\ formSubmits' = formSubmits + 1
          /\ request' = [name |-> name, password |-> password]
     ELSE UNCHANGED <<formSubmits, request>>
  /\ UNCHANGED <<name, password, repeated, submitError, complaints, formFaults>>

\* 201: the page is left for the dashboard, and starts anew when it is opened again.
Created ==
  /\ request # <<>>
  /\ RequestErrors(request) = {}
  /\ name' = Empty /\ password' = Empty /\ repeated' = TRUE
  /\ errors' = {} /\ submitError' = FALSE
  /\ request' = <<>>
  /\ complaints' = {}
  /\ UNCHANGED <<formSubmits, formFaults>>

\* 409: the error is shown at the address, whatever has been typed meanwhile.
Taken ==
  /\ request # <<>>
  /\ RequestErrors(request) = {}
  /\ errors' = errors \cup {"email"}
  /\ request' = <<>>
  /\ complaints' = {"email"}
  /\ UNCHANGED <<name, password, repeated, submitError, formSubmits, formFaults>>

\* 400: the first message is shown below the form.
Invalid ==
  /\ request # <<>>
  /\ RequestErrors(request) # {}
  /\ submitError' = TRUE
  /\ request' = <<>>
  /\ complaints' = RequestErrors(request)
  /\ UNCHANGED <<name, password, repeated, errors, formSubmits, formFaults>>

\* The backend fails, or cannot be reached.
RequestBreaks ==
  /\ request # <<>>
  /\ formFaults < MaxFormFaults
  /\ formFaults' = formFaults + 1
  /\ submitError' = TRUE
  /\ request' = <<>>
  /\ complaints' = {}
  /\ UNCHANGED <<name, password, repeated, errors, formSubmits>>

FormNext ==
  \/ \E t \in Names : ChangeName(t)
  \/ \E t \in Passwords : ChangePassword(t)
  \/ ChangeEmail \/ ChangeConfirmation
  \/ SubmitForm \/ Created \/ Taken \/ Invalid \/ RequestBreaks

FormSpec == FormInit /\ [][FormNext]_formVars

-----------------------------------------------------------------------------
(* Properties *)

\* A password that the form lets through is never refused by the backend, whatever its
\* characters are: below the form such a refusal would read in English and name no field.
PasswordContract == "password" \notin complaints

\* The errors at name and password are about what the fields hold now, also when they
\* were edited while a request was under way.
ErrorsAreCurrent ==
  /\ "name" \in errors => NameError(name)
  /\ "password" \in errors => PasswordError(password)

\* The form says what the backend would say, and says it of what the fields hold now.
FormIsHonest == PasswordContract /\ ErrorsAreCurrent

=============================================================================
