----------------------------- MODULE ErrorFlow -----------------------------
(***************************************************************************)
(* errors and the error methods of the event service: errors are thrown,   *)
(* made by YalcEventService, forwarded and normalised, while the caller    *)
(* passes one options object to several calls.  What a client may read is  *)
(* told apart by where its text comes from, and the data of an error by    *)
(* what has become of its secret field.                                    *)
(***************************************************************************)
EXTENDS Naturals

CONSTANTS
    Slots,          \* errors, by identity
    Thrown,         \* errors that code throws, as below
    Methods,        \* statuses of errorBadRequest() and its like
    Codes,          \* codes for errorHttp()
    OptionSets,     \* [response, data, mask, class]: options objects as written
    StepsMax,       \* bound: calls
    None

VARIABLES
    errs,           \* [kind, status, message, data, shared]
    opts,           \* the caller's options object
    exposed,        \* whether a call got the secret without a mask for it
    last,           \* the last event: what was asked, returned and logged
    steps

vars == <<errs, opts, exposed, last, steps>>

\* The statuses of the error classes.
RequestClasses == {400, 401, 402, 403, 404, 405, 406, 409, 410, 415, 422, 429, 451}
ServerClasses  == {500, 501, 502, 503, 504}

\* httpStatusCodeToErrors leaves two of them out.
Mapped == (RequestClasses \ {406, 451}) \cup ServerClasses
Selected(code) == IF code \in Mapped THEN code ELSE 500

\* getLogLevelByStatus
Level(status) == IF status >= 500 THEN "error" ELSE IF status = 429 THEN "warn" ELSE "log"

\* Data is one object for the error and for the caller until either replaces it.
DataOf(e) == IF e.shared THEN opts.data ELSE e.data

Unshared(e) == IF e # None /\ e.shared THEN [e EXCEPT !.data = opts.data, !.shared = FALSE] ELSE e

-----------------------------------------------------------------------------
(* DefaultErrorMixin.                                                      *)

\* The message of the exception: of its response, or else the class name.
Text(response) == IF response = None THEN "name" ELSE response

\* The constructor and setErrorInfo(): data is kept by reference.
Made(status, response, data, shared) ==
    [kind |-> "default", status |-> status, message |-> Text(response), data |-> data,
     shared |-> shared]

\* errorToDefaultError(), which returns a DefaultError as it is.  A response
\* that is an object becomes its string form; the message of a plain error
\* stays internal.
Normal(e) ==
    IF e.kind = "default" THEN e
    ELSE IF e.kind = "http"
           THEN Made(e.status, IF e.message = "object" THEN "stringified" ELSE e.message, None, FALSE)
    ELSE Made(500, None, None, FALSE)

\* deepMergeWithoutArrayConcat(): into the target, unless it is no object.
Merged(target, data) == IF data = None \/ target = "text" THEN target ELSE data

-----------------------------------------------------------------------------
(* executeEvent().                                                         *)

\* Mutant: the data reaches the error as the caller gave it.
ReceivedUnmasked(o) == IF o.data = "text" THEN "raw" ELSE o.data

\* Data as masked; a string becomes an object.
Received(o) ==
    IF o.data = None THEN None ELSE IF o.mask THEN "masked" ELSE IF o.data = "text" THEN "raw" ELSE o.data

\* mergeErrorInfo(): later data is merged, a response replaces the message.
MergedInfo(e, o) ==
    [e EXCEPT !.data = Merged(DataOf(e), Received(o)),
              !.shared = @ /\ o.data # None,
              !.message = IF o.response = None THEN @ ELSE o.response]

\* The error in slot i, which may be new, takes the information and is logged.
\* The merge is in place: a shared object changes for the caller too.
Execute(i, e, level, ask) ==
    LET after == MergedInfo(e, opts)
    IN  /\ errs' = [errs EXCEPT ![i] = after]
        /\ opts' = [opts EXCEPT !.data = IF e.shared THEN after.data ELSE @, !.class = ask.class]
        /\ exposed' = (exposed \/ opts.data = "text" \/ (opts.data = "raw" /\ ~opts.mask))
        /\ last' = [given |-> ask.given, was |-> ask.was, first |-> ask.first, result |-> i,
                    status |-> after.status, message |-> after.message, level |-> level,
                    data |-> after.data, response |-> opts.response]

Free(i) == errs[i] = None
Step == steps < StepsMax /\ steps' = steps + 1

Init ==
    /\ errs = [i \in Slots |-> None]
    /\ opts \in OptionSets
    /\ exposed = FALSE /\ last = None /\ steps = 0

\* Code throws an error of its own.
Throw(i, e) ==
    /\ Step /\ Free(i)
    /\ errs' = [errs EXCEPT ![i] = e]
    /\ exposed' = (exposed \/ e.data = "raw")
    /\ UNCHANGED <<opts, last>>

\* The caller writes another options object.
Write(o) ==
    /\ Step
    /\ opts' = o
    /\ errs' = [i \in Slots |-> Unshared(errs[i])]
    /\ UNCHANGED <<exposed, last>>

\* A class or an error that an earlier call left in the options is used again.
Class(class) == IF opts.class = None THEN class ELSE opts.class
IsError(class) == class \in Slots

Ask(class, given, was) == [class |-> class, given |-> given, was |-> was, first |-> opts.class = None]

\* errorBadRequest() and its like; errorHttp() levels by the code it got.
Make(i, status, level, asked) ==
    LET class == Class(status)
        ask   == Ask(class, None, asked)
    IN  /\ Step /\ Free(i)
        /\ IF IsError(class)
             THEN Execute(class, errs[class], level, ask)
             ELSE Execute(i, Made(class, opts.response, opts.data, opts.data \in {"raw", "masked"}),
                          level, ask)

StatusOf(class) == IF IsError(class) THEN errs[class].status ELSE class

ErrorMethod(i, status) ==
    /\ status \in RequestClasses \cup ServerClasses
    /\ Make(i, status, Level(StatusOf(Class(status))), status)

ErrorHttp(i, code) == Make(i, Selected(code), Level(code), Selected(code))

Forwards(i) == Normal(errs[i])

\* A DefaultError stays the object it is; what is made of another is new.
Places(i) == IF errs[i].kind = "default" THEN {i} ELSE {j \in Slots : Free(j)}

\* errorForward()
ErrorForward(i) ==
    LET e      == Forwards(i)
        ask(c) == Ask(c, i, errs[i])
        class  == opts.class
    IN  /\ Step /\ ~Free(i)
        /\ IF class = None THEN \E j \in Places(i) : Execute(j, e, Level(e.status), ask(j))
           ELSE IF IsError(class) THEN Execute(class, errs[class], Level(e.status), ask(class))
           ELSE \E j \in Slots :
                  /\ Free(j)
                  /\ Execute(j, Made(class, opts.response, opts.data, opts.data \in {"raw", "masked"}),
                             Level(e.status), ask(class))

\* tryCatch()
TryCatch(i) ==
    /\ Step /\ ~Free(i)
    /\ \E j \in Places(i) : errs' = [errs EXCEPT ![j] = Normal(errs[i])]
    /\ UNCHANGED <<opts, exposed, last>>

Next ==
    \/ \E o \in OptionSets : Write(o)
    \/ \E i \in Slots :
         \/ ErrorForward(i) \/ TryCatch(i)
         \/ \E e \in Thrown : Throw(i, e)
         \/ \E s \in Methods : ErrorMethod(i, s)
         \/ \E c \in Codes : ErrorHttp(i, c)

Spec == Init /\ [][Next]_vars

-----------------------------------------------------------------------------
(* Correctness.                                                            *)

Defaults == {i \in Slots : errs[i] # None /\ errs[i].kind = "default"}

\* What a client reads of an error never comes from an internal message,
\* however often the error was made, normalised and forwarded.
ClientSafe == \A i \in Defaults : errs[i].message # "private"

\* Masks hold: unless some call passed the secret without a mask, or data as a
\* string, what is logged does not show it, merges of later data included.
MasksHold == last # None /\ last.data \in {"raw", "text"} => exposed

\* An error that is forwarded with options that no call used before is, if it
\* is a DefaultError and only then, returned itself; it is logged at its level,
\* with its status unless it had none, and a DefaultError with its message
\* unless the call gave another.
ForwardsAsGiven ==
    last # None /\ last.given # None /\ last.first =>
        /\ last.result = last.given <=> last.was.kind = "default"
        /\ last.was.kind # "plain" => last.status = last.was.status
        /\ last.was.kind = "default" =>
             last.message = IF last.response = None THEN last.was.message ELSE last.response
        /\ last.level = Level(last.status)

\* A method makes the error that it names; a code without a class makes 500.
MakesAsNamed ==
    last # None /\ last.given = None /\ last.first => last.status = last.was

ErrorsAnswer == ClientSafe /\ MasksHold /\ ForwardsAsGiven /\ MakesAsNamed

Classes == RequestClasses \cup ServerClasses
Data    == {None, "raw", "text", "masked"}
Errors  ==
    [kind : {"plain", "http", "default"}, status : Nat \cup {None}, data : Data, shared : BOOLEAN,
     message : {"private", "public", "name", "object", "stringified"}]

TypeOK ==
    /\ errs \in [Slots -> Errors \cup {None}]
    /\ opts \in [response : {None, "public"}, data : Data, mask : BOOLEAN,
                class : {None} \cup Slots \cup Classes]
    /\ opts.class \in Slots => errs[opts.class] # None
    /\ exposed \in BOOLEAN /\ steps \in Nat

\* An internal message is that of an error nobody has normalised; data that
\* shows the secret is exposed, in an error and in the options it shares.
Guarded(e) ==
    /\ e.message = "private" => e.kind = "plain"
    /\ e.data \in {"raw", "text"} => exposed
    /\ e.shared => opts.data \in {"raw", "masked"} /\ (opts.data = "raw" => exposed)

ErrorsGuarded == \A i \in Slots : errs[i] # None => Guarded(errs[i])
=============================================================================
