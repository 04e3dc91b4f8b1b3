---------------------------- MODULE MediaDialogs ----------------------------
(***************************************************************************)
(* The dialogs of libVLC (a login, a question, a progress bar) on their    *)
(* way to the application and back.                                        *)
(*                                                                         *)
(* libVLC's threads display, update and cancel dialogs by callbacks that   *)
(* keep activeDialogs under dialogMutex.  The application reads that list, *)
(* and answers or dismisses a dialog by its token, which is the address of *)
(* the libvlc_dialog_id.  libVLC's functions are called without the mutex: *)
(* before the removal from the list on the application's thread, after it  *)
(* in the cancel callback.  libVLC frees an id with the call that ends the *)
(* dialog and may use its address again.                                   *)
(***************************************************************************)
EXTENDS Naturals

CONSTANTS
    Ids,          \* addresses of dialogs
    None,         \* no dialog, no entry, no token
    MaxDialogs,   \* bound on the dialogs displayed
    MaxSessions   \* bound on the teardowns

VARIABLES
    dialog,         \* libVLC's: the dialog that waits at each address
    spent,          \* addresses libVLC was given when no dialog was there
    activeDialogs,  \* diagnosticsRuntime.activeDialogs, by token
    callback,       \* where libVLC's thread is in a callback about a dialog
    main,           \* where the main thread is
    shuttingDown,   \* lifecycleRuntime.shuttingDown
    displayed,      \* dialogs displayed so far (for the bound)
    sessions        \* teardowns so far (for the bound)

vars == << dialog, spent, activeDialogs, callback, main, shuttingDown,
           displayed, sessions >>

Types == {"Login", "Question", "Progress"}
Callback == [at : {"none", "display", "update", "add", "cancel", "dismiss"},
             type : Types \cup {None}]
Main == [at : {"idle", "removing", "dismissing", "raising", "releasing", "closed"},
         token : Ids \cup {None},
         tokens : SUBSET Ids,
         closing : BOOLEAN]

TypeOK ==
    /\ dialog \in [Ids -> Types \cup {None}]
    /\ spent \in SUBSET Ids
    /\ activeDialogs \in [Ids -> Types \cup {None}]
    /\ callback \in [Ids -> Callback]
    /\ main \in Main
    /\ shuttingDown \in BOOLEAN
    /\ displayed \in 0 .. MaxDialogs
    /\ sessions \in 0 .. MaxSessions

Empty == [i \in Ids |-> None]
Idle == [at |-> "idle", token |-> None, tokens |-> {}, closing |-> FALSE]
Outside == [at |-> "none", type |-> None]

Init ==
    /\ dialog = Empty
    /\ spent = {}
    /\ activeDialogs = Empty
    /\ callback = [i \in Ids |-> Outside]
    /\ main = Idle
    /\ shuttingDown = FALSE
    /\ displayed = 0
    /\ sessions = 0

(***************************************************************************)
(* The list, each access under dialogMutex.                                *)
(***************************************************************************)
Listed(id) == activeDialogs[id] # None
UpsertDialog(id, type) == activeDialogs' = [activeDialogs EXCEPT ![id] = type]
RemoveDialog(id) == activeDialogs' = [activeDialogs EXCEPT ![id] = None]

\* libvlc_dialog_post_login(), libvlc_dialog_post_action() and
\* libvlc_dialog_dismiss(): the dialog ends and its id with it.
LibEnds(id) ==
    /\ dialog' = [dialog EXCEPT ![id] = None]
    /\ spent' = IF dialog[id] = None THEN spent \cup {id} ELSE spent

(***************************************************************************)
(* libVLC's threads.  A callback about a dialog starts while libVLC waits  *)
(* for an answer, one at a time; it is dropped during a teardown.          *)
(***************************************************************************)
Goes(id, place, type) ==
    callback' = [callback EXCEPT ![id] = [at |-> place, type |-> type]]

Leaves(id) == callback' = [callback EXCEPT ![id] = Outside]

Admitted(id, place, type) ==
    /\ callback[id] = Outside
    /\ IF shuttingDown THEN UNCHANGED callback ELSE Goes(id, place, type)
    /\ UNCHANGED << spent, activeDialogs, main, shuttingDown, sessions >>

VlcDisplays(id, type) ==
    /\ dialog[id] = None
    /\ displayed < MaxDialogs
    /\ main.at # "closed"
    /\ dialog' = [dialog EXCEPT ![id] = type]
    /\ displayed' = displayed + 1
    /\ Admitted(id, "display", type)

VlcUpdates(id) ==
    /\ dialog[id] = "Progress"
    /\ Admitted(id, "update", "Progress")
    /\ UNCHANGED << dialog, displayed >>

VlcCancels(id) ==
    /\ dialog[id] # None
    /\ Admitted(id, "cancel", dialog[id])
    /\ UNCHANGED << dialog, displayed >>

\* handleDialogDisplayLogin(), handleDialogDisplayQuestion() and
\* handleDialogDisplayProgress().
HandleDialogDisplay(id) ==
    /\ callback[id].at = "display"
    /\ UpsertDialog(id, callback[id].type)
    /\ Leaves(id)
    /\ UNCHANGED << dialog, spent, main, shuttingDown, displayed, sessions >>

\* Found, the entry is replaced; else it is added under a second lock.
HandleDialogUpdateProgress(id) ==
    /\ callback[id].at = "update"
    /\ \/ Listed(id) /\ UpsertDialog(id, "Progress") /\ Leaves(id)
       \/ ~Listed(id) /\ Goes(id, "add", "Progress") /\ UNCHANGED activeDialogs
    /\ UNCHANGED << dialog, spent, main, shuttingDown, displayed, sessions >>

HandleDialogUpdateAdds(id) ==
    /\ callback[id].at = "add"
    /\ UpsertDialog(id, "Progress")
    /\ Leaves(id)
    /\ UNCHANGED << dialog, spent, main, shuttingDown, displayed, sessions >>

\* handleDialogCancel() removes the entry first,
HandleDialogCancel(id) ==
    /\ callback[id].at = "cancel"
    /\ RemoveDialog(id)
    /\ Goes(id, "dismiss", callback[id].type)
    /\ UNCHANGED << dialog, spent, main, shuttingDown, displayed, sessions >>

\* and then dismisses the dialog, whatever has become of it.
HandleDialogCancelDismisses(id) ==
    /\ callback[id].at = "dismiss"
    /\ LibEnds(id)
    /\ Leaves(id)
    /\ UNCHANGED << activeDialogs, main, shuttingDown, displayed, sessions >>

LibVlc(id) ==
    \/ \E type \in Types : VlcDisplays(id, type)
    \/ VlcUpdates(id)
    \/ VlcCancels(id)
    \/ HandleDialogDisplay(id)
    \/ HandleDialogUpdateProgress(id)
    \/ HandleDialogUpdateAdds(id)
    \/ HandleDialogCancel(id)
    \/ HandleDialogCancelDismisses(id)

(***************************************************************************)
(* The application answers a dialog it finds in the list.  libVLC is told  *)
(* first; when it refuses, the call returns and changes nothing.           *)
(***************************************************************************)
Answers(id) ==
    /\ main = Idle
    /\ Listed(id)
    /\ LibEnds(id)
    /\ main' = [main EXCEPT !.at = "removing", !.token = id]
    /\ UNCHANGED << activeDialogs, callback, shuttingDown, displayed, sessions >>

PostDialogLogin(id) == activeDialogs[id] = "Login" /\ Answers(id)
PostDialogAction(id) == activeDialogs[id] = "Question" /\ Answers(id)
DismissDialog(id) == Answers(id)

\* removeDialog() at the end of the three, on their own or for each token.
Removes ==
    /\ main.at = "removing"
    /\ RemoveDialog(main.token)
    /\ main' = [main EXCEPT !.at = IF main.closing \/ main.tokens # {}
                                     THEN "dismissing" ELSE "idle",
                            !.token = None]
    /\ UNCHANGED << dialog, spent, callback, shuttingDown, displayed, sessions >>

\* dismissAllDialogs() copies the tokens under the lock and works on the copy.
DismissAllDialogs(closing) ==
    /\ main = Idle
    /\ main' = [main EXCEPT !.at = "dismissing",
                            !.tokens = {i \in Ids : Listed(i)},
                            !.closing = closing]
    /\ UNCHANGED << dialog, spent, activeDialogs, callback, shuttingDown, displayed >>

DismissNext ==
    /\ main.at = "dismissing"
    /\ \E id \in main.tokens :
        LET rest == [main EXCEPT !.tokens = @ \ {id}]
        IN  \/ LibEnds(id) /\ main' = [rest EXCEPT !.at = "removing", !.token = id]
            \/ UNCHANGED << dialog, spent >> /\ main' = rest
    /\ UNCHANGED << activeDialogs, callback, shuttingDown, displayed, sessions >>

DismissedAll ==
    /\ main.at = "dismissing"
    /\ main.tokens = {}
    /\ main' = [main EXCEPT !.at = IF main.closing THEN "raising" ELSE "idle"]
    /\ UNCHANGED << dialog, spent, activeDialogs, callback, shuttingDown,
                    displayed, sessions >>

(***************************************************************************)
(* releaseVlcResources() dismisses the dialogs, raises shuttingDown, waits *)
(* for the callbacks inside, and releases the instance; init() follows.    *)
(* The list is not cleared.                                                *)
(***************************************************************************)
Release ==
    /\ sessions < MaxSessions
    /\ DismissAllDialogs(TRUE)
    /\ sessions' = sessions + 1

RaiseShuttingDown ==
    /\ main.at = "raising"
    /\ shuttingDown' = TRUE
    /\ main' = [main EXCEPT !.at = "releasing"]
    /\ UNCHANGED << dialog, spent, activeDialogs, callback, displayed, sessions >>

ReleaseInstance ==
    /\ main.at = "releasing"
    /\ \A i \in Ids : callback[i] = Outside
    /\ dialog' = Empty
    /\ main' = [main EXCEPT !.at = "closed"]
    /\ UNCHANGED << spent, activeDialogs, callback, shuttingDown, displayed, sessions >>

Reopen ==
    /\ main.at = "closed"
    /\ shuttingDown' = FALSE
    /\ main' = Idle
    /\ UNCHANGED << dialog, spent, activeDialogs, callback, displayed, sessions >>

Application ==
    \/ \E id \in Ids : PostDialogLogin(id) \/ PostDialogAction(id) \/ DismissDialog(id)
    \/ Removes
    \/ DismissAllDialogs(FALSE) /\ UNCHANGED sessions
    \/ DismissNext
    \/ DismissedAll
    \/ Release
    \/ RaiseShuttingDown
    \/ ReleaseInstance
    \/ Reopen

Next == (\E id \in Ids : LibVlc(id)) \/ Application
Spec == Init /\ [][Next]_vars

(***************************************************************************)
(* Properties.                                                             *)
(***************************************************************************)

\* Every call of libVLC about a dialog names one that still waits: an id that
\* was posted to or dismissed, on either thread, is not used again.  "After
\* this call, p_id won't be valid anymore" (libvlc_dialog.h).
IdsUsedWhileValid == spent = {}
====
