------------------------------- MODULE Server -------------------------------
(***************************************************************************)
(* Server: the accept loop, a thread per client (handleClient), and the    *)
(* handler library any client may have the server reload.                  *)
(*                                                                         *)
(* A client's thread goes around                                           *)
(*                                                                         *)
(*   receive -> refuse                             (not command?id)        *)
(*           -> invoke -> enter -> inside          (a handler's command)   *)
(*           -> select -> name -> destroy -> delete -> forget -> dlclose   *)
(*                             -> dlopen -> make                 (reload) *)
(*                                                                         *)
(* until the client leaves or says SHUTDOWN; then closing -> away.         *)
(* Nothing here is locked: commandHandler, currentHandle and               *)
(* defaultHandlerLib are shared by every thread, and read again at every   *)
(* use.  What a handler does inside is SystemCommandHandler's subject.     *)
(***************************************************************************)
EXTENDS Naturals, FiniteSets, SequencesExt

CONSTANTS
    Clients,        \* the clients, and their threads
    Libs,           \* the library files there are
    StartLib,       \* the library serverMain loaded
    Loadable,       \* the libraries dlopen can open
    Creating,       \* ... that export createCommandHandlerObject
    Destroying,     \* ... that export destroyCommandHandlerObject
    NoLib,          \* a NULL handle
    NoFd,           \* no descriptor
    OneAtATime,     \* do clients wait with a reload until no other is going on?
    MaxConnections, \* bound: connections accepted
    MaxCommands     \* bound: commands of all clients

ASSUME ServerAssumption ==
    /\ IsFiniteSet(Clients)
    /\ Loadable \subseteq Libs /\ Creating \subseteq Libs /\ Destroying \subseteq Libs
    /\ StartLib \in Loadable \cap Creating
    /\ NoLib \notin Libs
    /\ OneAtATime \in BOOLEAN
    /\ MaxConnections \in Nat /\ MaxCommands \in Nat
    /\ NoFd \notin Nat

VARIABLES
    main,       \* the accept loop: "accept", "returning" or "exited"
    socks,      \* vector<int> socks
    open,       \* the descriptors open in the process
    online,     \* the clients that have a connection and have not left
    pc,         \* where each client's thread is
    fd,         \* thread_args::sock
    bye,        \* was the command SHUTDOWN?
    sent,       \* how many commands clients have sent
    backup,     \* handleClient's backup of defaultHandlerLib
    retried,    \* is this the second loadHandlerMethodLib, of the backup?
    lib,        \* defaultHandlerLib
    handler,    \* commandHandler: the number of an object, or 0 for NULL
    handle,     \* currentHandle
    made,       \* the handler objects ever created: made[o] is o's library
    alive,      \* the ones not deleted
    images,     \* how often each library is open
    using,      \* the object a thread is inside of
    disturbed   \* history: those whose present call a reload's delete overlaps

connectionVars == <<main, socks, open, online, fd>>
commandVars == <<bye, sent>>
reloadVars == <<backup, retried, lib>>
handlerVars == <<handler, handle, made, alive, images>>
callVars == <<using, disturbed>>
vars == <<connectionVars, pc, commandVars, reloadVars, handlerVars, callVars>>

Fds == 3 .. 3 + Cardinality(Clients)

(* Operators named Faulty... are what a plausible bug would               *)
(* make of the definition they precede; each breaks a property of the runs.*)

Init ==
    /\ main = "accept"
    /\ socks = <<3>>
    /\ open = {3}
    /\ online = {}
    /\ pc = [c \in Clients |-> "away"]
    /\ fd = [c \in Clients |-> NoFd]
    /\ bye = [c \in Clients |-> FALSE]
    /\ sent = 0
    /\ backup = [c \in Clients |-> StartLib]
    /\ retried = [c \in Clients |-> FALSE]
    /\ lib = StartLib
    /\ handler = 1
    /\ handle = StartLib
    /\ made = <<StartLib>>
    /\ alive = {1}
    /\ images = [l \in Libs |-> IF l = StartLib THEN 1 ELSE 0]
    /\ using = [c \in Clients |-> 0]
    /\ disturbed = {}

Goto(c, label) == pc' = [pc EXCEPT ![c] = label]

(* The loop's condition, at the end of a command. *)
Continue(c) == Goto(c, IF bye[c] THEN "closing" ELSE "receive")

-----------------------------------------------------------------------------
(* serverMain *)

(* accept() returns the lowest free descriptor. *)
NewFd == CHOOSE f \in 3 .. 3 + Cardinality(open) :
            f \notin open /\ 3 .. f - 1 \subseteq open

CanAccept(c) == main = "accept" /\ pc[c] = "away" /\ Len(socks) <= MaxConnections

Accept(c) ==
    /\ CanAccept(c)
    /\ socks' = Append(socks, NewFd)
    /\ open' = open \cup {NewFd}
    /\ fd' = [fd EXCEPT ![c] = NewFd]
    /\ online' = online \cup {c}
    /\ bye' = [bye EXCEPT ![c] = FALSE]
    /\ Goto(c, "receive")
    /\ UNCHANGED <<main, sent, reloadVars, handlerVars, callVars>>

(* pthread_create failed: closeAndDeleteSocket closes the new descriptor   *)
(* and erases the first entry that has its number.                         *)
TurnAway(c) ==
    /\ CanAccept(c)
    /\ socks' = RemoveFirst(Append(socks, NewFd), NewFd)
    /\ UNCHANGED <<main, open, online, fd, pc, commandVars, reloadVars, handlerVars, callVars>>

(* accept() failed: closeAndDeleteSockets closes everything in the list,   *)
(* the descriptors of threads that are still running among them.           *)
AcceptFails ==
    /\ main = "accept"
    /\ main' = "returning"
    /\ open' = open \ {socks[k] : k \in 1 .. Len(socks)}
    /\ socks' = <<>>
    /\ UNCHANGED <<online, fd, pc, commandVars, reloadVars, handlerVars, callVars>>

(* main returns or a signal is caught: the process ends, whatever its      *)
(* threads are doing.                                                      *)
Exit ==
    /\ main # "exited"
    /\ main' = "exited"
    /\ UNCHANGED <<socks, open, online, fd, pc, commandVars, reloadVars, handlerVars, callVars>>

HangUp(c) ==
    /\ c \in online
    /\ online' = online \ {c}
    /\ UNCHANGED <<main, socks, open, fd, pc, commandVars, reloadVars, handlerVars, callVars>>

-----------------------------------------------------------------------------
(* handleClient *)

Reloading(c) ==
    pc[c] \in {"select", "name", "destroy", "delete", "forget", "dlclose", "dlopen", "make"}
Calling(c) == pc[c] \in {"invoke", "enter", "inside"}

Command(c) ==
    /\ pc[c] = "receive" /\ c \in online /\ fd[c] \in open
    /\ sent < MaxCommands
    /\ sent' = sent + 1
    /\ \E shutdown \in BOOLEAN : bye' = [bye EXCEPT ![c] = shutdown]
    /\ \/ Goto(c, "refuse") /\ UNCHANGED disturbed
       \/ /\ Goto(c, "invoke")
          /\ disturbed' = disturbed \cup {d \in {c} : \E e \in Clients : pc[e] = "forget"}
       \/ /\ ~bye'[c]
          /\ OneAtATime => \A d \in Clients : ~Reloading(d)
          /\ Goto(c, "select")
          /\ UNCHANGED disturbed
    /\ UNCHANGED <<connectionVars, reloadVars, handlerVars, using>>

(* receive() fails when the client has left or the descriptor is closed. *)
FaultyDisconnect(c) ==
    /\ pc[c] = "receive" /\ fd[c] \notin open
    /\ Goto(c, "closing")
    /\ UNCHANGED <<connectionVars, commandVars, reloadVars, handlerVars, callVars>>

Disconnect(c) ==
    /\ pc[c] = "receive" /\ (c \notin online \/ fd[c] \notin open)
    /\ Goto(c, "closing")
    /\ UNCHANGED <<connectionVars, commandVars, reloadVars, handlerVars, callVars>>

(* parseCommand failed; the thread ends if the warning cannot be written.  *)
Refuse(c) ==
    /\ pc[c] = "refuse"
    /\ \/ Continue(c)
       \/ (c \notin online \/ fd[c] \notin open) /\ Goto(c, "closing")
    /\ UNCHANGED <<connectionVars, commandVars, reloadVars, handlerVars, callVars>>

FaultyClose(c) ==
    /\ pc[c] = "closing"
    /\ Goto(c, "away")
    /\ open' = open \ {socks[k] : k \in {Len(socks)} \ {0}}  \* as if the newest were its own
    /\ fd' = [fd EXCEPT ![c] = NoFd]
    /\ online' = online \ {c}
    /\ UNCHANGED <<main, socks, commandVars, reloadVars, handlerVars, callVars>>

(* close(sock) and pthread_exit; socks still has the descriptor. *)
Close(c) ==
    /\ pc[c] = "closing"
    /\ Goto(c, "away")
    /\ open' = open \ {fd[c]}
    /\ fd' = [fd EXCEPT ![c] = NoFd]
    /\ online' = online \ {c}
    /\ UNCHANGED <<main, socks, commandVars, reloadVars, handlerVars, callVars>>

-----------------------------------------------------------------------------
(* invokeHandler: commandHandler is read for the test, and again to call. *)

Invoke(c) ==
    /\ pc[c] = "invoke"
    /\ \/ handler = 0 /\ Continue(c) /\ disturbed' = disturbed \ {c}
       \/ handler # 0 /\ Goto(c, "enter") /\ UNCHANGED disturbed
    /\ UNCHANGED <<connectionVars, commandVars, reloadVars, handlerVars, using>>

Enter(c) ==
    /\ pc[c] = "enter"
    /\ using' = [using EXCEPT ![c] = handler]
    /\ Goto(c, "inside")
    /\ UNCHANGED <<connectionVars, commandVars, reloadVars, handlerVars, disturbed>>

Finish(c) ==
    /\ pc[c] = "inside"
    /\ using' = [using EXCEPT ![c] = 0]
    /\ disturbed' = disturbed \ {c}
    /\ Continue(c)
    /\ UNCHANGED <<connectionVars, commandVars, reloadVars, handlerVars>>

-----------------------------------------------------------------------------
(* reloadHandler: loadHandlerMethodLib of the named library and, if that   *)
(* fails, of the one before.                                               *)

Select(c) ==
    /\ pc[c] = "select"
    /\ backup' = [backup EXCEPT ![c] = lib]
    /\ retried' = [retried EXCEPT ![c] = FALSE]
    /\ Goto(c, "name")
    /\ UNCHANGED <<connectionVars, commandVars, lib, handlerVars, callVars>>

(* The command's id is DEFAULT_LIB, for the library there is, or a file.   *)
Name(c) ==
    /\ pc[c] = "name"
    /\ UNCHANGED lib \/ \E id \in Libs : lib' = id
    /\ Goto(c, "destroy")
    /\ UNCHANGED <<connectionVars, commandVars, backup, retried, handlerVars, callVars>>

FaultyFailed(c) ==
    /\ IF retried[c]
       THEN Continue(c) /\ UNCHANGED retried
       ELSE Goto(c, "destroy") /\ retried' = [retried EXCEPT ![c] = TRUE]
    /\ UNCHANGED <<lib, backup>>

Failed(c) ==
    /\ IF retried[c]
       THEN Continue(c) /\ UNCHANGED <<lib, retried>>
       ELSE /\ lib' = backup[c]
            /\ retried' = [retried EXCEPT ![c] = TRUE]
            /\ Goto(c, "destroy")
    /\ UNCHANGED backup

(* dlsym finds a symbol in the library of the handle, or, when the handle  *)
(* is NULL (RTLD_DEFAULT), in any library that is open.                    *)
Dlsym(exporting) ==
    IF handle = NoLib THEN {l \in exporting : images[l] > 0} ELSE exporting \cap {handle}

(* Without a handler the current library is neither asked nor closed. *)
Destroy(c) ==
    /\ pc[c] = "destroy"
    /\ \/ handler = 0 /\ Goto(c, "dlopen") /\ UNCHANGED reloadVars
       \/ handler # 0 /\ Dlsym(Destroying) = {} /\ Failed(c)
       \/ handler # 0 /\ Dlsym(Destroying) # {} /\ Goto(c, "delete") /\ UNCHANGED reloadVars
    /\ UNCHANGED <<connectionVars, commandVars, handlerVars, callVars>>

(* The library's destroyCommandHandlerObject deletes an object of its own  *)
(* class (dynamic_cast) and refuses any other, NULL among them: "possible  *)
(* memory leak..", and on.                                                 *)
Delete(c) ==
    /\ pc[c] = "delete"
    /\ alive' = alive \ {o \in alive \cap {handler} : made[o] = handle}
    /\ disturbed' = disturbed \cup {d \in Clients : Calling(d)}
    /\ Goto(c, "forget")
    /\ UNCHANGED <<connectionVars, commandVars, reloadVars, handler, handle, made, images, using>>

FaultyForget(c) ==
    /\ pc[c] = "forget"
    /\ Goto(c, "dlclose")
    /\ UNCHANGED <<connectionVars, commandVars, reloadVars, handlerVars, callVars>>

Forget(c) ==
    /\ pc[c] = "forget"
    /\ handler' = 0
    /\ Goto(c, "dlclose")
    /\ UNCHANGED <<connectionVars, commandVars, reloadVars, handle, made, alive, images, callVars>>

Dlclose(c) ==
    /\ pc[c] = "dlclose"
    /\ images' = [l \in Libs |-> IF l = handle THEN images[l] - 1 ELSE images[l]]
    /\ handle' = NoLib
    /\ Goto(c, "dlopen")
    /\ UNCHANGED <<connectionVars, commandVars, reloadVars, handler, made, alive, callVars>>

(* The file name is defaultHandlerLib, passed by reference. *)
Dlopen(c) ==
    /\ pc[c] = "dlopen"
    /\ \/ /\ lib \in Loadable
          /\ handle' = lib
          /\ images' = [images EXCEPT ![lib] = @ + 1]
          /\ Goto(c, "make")
          /\ UNCHANGED reloadVars
       \/ /\ lib \notin Loadable
          /\ handle' = NoLib
          /\ Failed(c)
          /\ UNCHANGED images
    /\ UNCHANGED <<connectionVars, commandVars, handler, made, alive, callVars>>

(* A library without the symbol stays open, and stays currentHandle. *)
Make(c) ==
    /\ pc[c] = "make"
    /\ \/ /\ \E l \in Dlsym(Creating) : made' = Append(made, l)
          /\ handler' = Len(made')
          /\ alive' = alive \cup {Len(made')}
          /\ Continue(c)
          /\ UNCHANGED reloadVars
       \/ /\ Dlsym(Creating) = {}
          /\ Failed(c)
          /\ UNCHANGED <<made, handler, alive>>
    /\ UNCHANGED <<connectionVars, commandVars, handle, images, callVars>>

-----------------------------------------------------------------------------
Step(c) ==
    /\ main # "exited"
    /\ \/ Disconnect(c) \/ Refuse(c) \/ Close(c)
       \/ Invoke(c) \/ Enter(c) \/ Finish(c)
       \/ Select(c) \/ Name(c) \/ Destroy(c) \/ Delete(c) \/ Forget(c)
       \/ Dlclose(c) \/ Dlopen(c) \/ Make(c)

FromClient(c) ==
    /\ main # "exited"
    /\ Command(c) \/ HangUp(c)

Next ==
    \/ \E c \in Clients : Accept(c) \/ TurnAway(c) \/ FromClient(c) \/ Step(c)
    \/ AcceptFails \/ Exit

(* A client's thread that can go on does; a handler's command returns      *)
(* (SystemCommandHandler!EveryCommandReturns).  Clients are not fair.      *)
Spec == Init /\ [][Next]_vars
FairSpec == Spec /\ \A c \in Clients : WF_vars(Step(c))

-----------------------------------------------------------------------------
(* Properties *)

Places == {"away", "receive", "refuse", "invoke", "enter", "inside", "select", "name",
           "destroy", "delete", "forget", "dlclose", "dlopen", "make", "closing"}

(* Every variable has the type the code gives it. *)
TypeOK ==
    /\ main \in {"accept", "returning", "exited"}
    /\ socks \in Seq(Fds)
    /\ open \subseteq Fds
    /\ online \subseteq Clients
    /\ pc \in [Clients -> Places]
    /\ fd \in [Clients -> Fds \cup {NoFd}]
    /\ bye \in [Clients -> BOOLEAN]
    /\ sent \in 0 .. MaxCommands
    /\ backup \in [Clients -> Libs]
    /\ retried \in [Clients -> BOOLEAN]
    /\ lib \in Libs
    /\ handle \in Libs \cup {NoLib}
    /\ made \in Seq(Libs)
    /\ handler \in 0 .. Len(made)
    /\ alive \subseteq 1 .. Len(made)
    /\ images \in [Libs -> Nat]
    /\ using \in [Clients -> 0 .. Len(made)]
    /\ disturbed \subseteq Clients

(* Whatever a reload met (a file that cannot be opened, a library without  *)
(* one of the two symbols), it leaves the server with one living handler,  *)
(* made by the library that defaultHandlerLib and currentHandle name: the  *)
(* new one or, "resetting to previous library", the one before.  That      *)
(* library is open once, so that the next reload can unload it.            *)
ReloadLeavesHandler ==
    (\A c \in Clients : ~Reloading(c) \/ pc[c] \in {"select", "name"}) =>
        /\ handler # 0
        /\ alive = {handler}
        /\ made[handler] = lib /\ handle = lib
        /\ images[lib] = 1

(* A thread owns its descriptor alone, from accept to its own close, as    *)
(* long as the server accepts connections; and no other descriptor stays   *)
(* open.  Every variable keeps its type.                                   *)
OwnDescriptor ==
    /\ TypeOK
    /\ main = "accept" =>
          /\ open = {3} \cup {fd[c] : c \in {d \in Clients : pc[d] # "away"}}
          /\ \A c \in Clients : pc[c] # "away" =>
                fd[c] \in open \ {3} /\ \A d \in Clients \ {c} : fd[d] # fd[c]

(* "There is one command handler per server, and the methods may be called *)
(* from several threads.  Also allows a library to be updated": a thread   *)
(* inside a handler is inside an object that exists, of a library that is  *)
(* open.                                                                   *)
CallsIntoLiving ==
    \A c \in Clients : pc[c] = "inside" =>
        using[c] \in alive /\ images[made[using[c]]] > 0

(* It is so whenever no reload deletes the handler in the course of the    *)
(* call, wherever else the reload is then (between the test of             *)
(* commandHandler and its use too, 124-130): a call that comes after the   *)
(* delete is turned away or enters the new object, and a reload that fails *)
(* before it disturbs nobody.  And a reload deletes an object that exists. *)
UndisturbedCalls ==
    \A c \in Clients :
        /\ pc[c] = "inside" /\ c \notin disturbed =>
              using[c] \in alive /\ images[made[using[c]]] > 0
        /\ pc[c] = "delete" => handler \in alive

(* "must close this, especially if we try to reload the same library (or   *)
(* the same handle gets used, and the library isn't really reloaded)":     *)
(* dlopen never finds the library open already.                            *)
ReallyReloaded ==
    [][\A l \in Libs : images'[l] > images[l] => images[l] = 0]_images

(* "threads that were handling the bad connection go away". *)
ThreadsGoAway ==
    \A c \in Clients : pc[c] # "away" /\ c \notin online ~> pc[c] = "away" \/ main = "exited"
=============================================================================
