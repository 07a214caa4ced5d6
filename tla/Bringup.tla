------------------------------ MODULE Bringup ------------------------------
(***************************************************************************)
(* How the daemon finds a model backend for the root agent, and what a     *)
(* chat.input meets while it has none (src/daemon/daemon.ts and            *)
(* src/llm/router.ts).  startDaemon listens on IPC, loads the extensions,  *)
(* then walks the detection ladder: an API key on disk or in the           *)
(* environment, a logged-in claude CLI, a logged-in codex CLI.  Only the   *)
(* probes of the CLIs are awaited, and it is only after the first attempt  *)
(* that the daemon subscribes to secret.set and model.set.  While chat is  *)
(* down a bouncer answers every chat.input with a chat.error.              *)
(*                                                                         *)
(* A provider is known by its key.  A step of an IPC handler is atomic;    *)
(* between tryBringChatAgentUp's return and the code after its await only  *)
(* other microtasks run, so only a chat.input can be dispatched there.     *)
(***************************************************************************)
EXTENDS FiniteSets, Naturals

CONSTANTS
    MaxSecretCalls,    \* bound: secrets.set and secrets.remove calls
    MaxModelCalls,     \* bound: model.set calls that pass validation
    MaxInputs,         \* bound: chat.input events
    LoopMayFail        \* may a loop's construction or boot invariants fail?

BringupAssumption == MaxInputs \in Nat

VARIABLES
    daemonPhase,   \* "loading", "probing", "up", "stopping", "stopped"
    brainsLeft,    \* the CLI brains the ladder has not probed yet
    keysOnDisk,    \* the providers whose key is in the secrets directory
    envKeys,       \* the providers whose key is in the environment
    defaultFile,   \* the model in the default-model file
    chatLoop,      \* "none", "api" or "cli": the loop that is committed
    delegated,     \* inputs whose turn a CLI loop has taken and not ended
    router,        \* the router: [adapters, current]; no adapters: no router
    bouncing,      \* is the bouncer subscribed?
    reasonKnown,   \* is chatDisabledReason set?
    cliAuthLost,   \* is cliAuthLostReason set?
    resuming,      \* what runs after the await: "none", "boot", "wake", "upgrade"
    brought,       \* the result it resumes with
    deadAir,       \* inputs nobody answered once the daemon was up
    calls          \* the bounded counters

bringupVars == <<daemonPhase, brainsLeft, keysOnDisk, envKeys, defaultFile,
                 chatLoop, delegated, router, bouncing, reasonKnown, cliAuthLost,
                 resuming, brought, deadAir, calls>>

Providers == {"anthropic", "openai"}
\* "odd" is a persisted default whose prefix no provider serves.
Models == {"claude", "gpt", "odd"}
ServedModels == Models \ {"odd"}
providerForModel == [mdl \in ServedModels |->
                        IF mdl = "claude" THEN "anthropic" ELSE "openai"]
fallbackForProvider == [p \in Providers |->
                           IF p = "anthropic" THEN "claude" ELSE "gpt"]

NoRouter == [adapters |-> {}, current |-> "odd"]

\* Can the router run this model (pick does not throw)?
Serves(adapters, mdl) ==
    mdl \in ServedModels /\ providerForModel[mdl] \in adapters

\* The model the ladder boots on: the persisted one, or the fallback of the
\* provider that is loaded when the persisted one's key is missing.
BootModel(adapters) ==
    IF defaultFile \in ServedModels /\ ~Serves(adapters, defaultFile)
    THEN fallbackForProvider[IF "anthropic" \in adapters THEN "anthropic"
                             ELSE "openai"]
    ELSE defaultFile

\* canBuildApiRouter: the upgrade's check before the CLI loop is torn down.
CanBuildApiRouter(adapters) ==
    adapters # {} /\ Serves(adapters, BootModel(adapters))

Init ==
    /\ daemonPhase = "loading"
    /\ brainsLeft = {"claude", "codex"}
    /\ keysOnDisk \in SUBSET Providers
    /\ envKeys \in {{}, {"openai"}}
    /\ defaultFile \in Models
    /\ chatLoop = "none"
    /\ delegated = 0
    /\ router = NoRouter
    /\ bouncing = FALSE
    /\ reasonKnown = FALSE
    /\ cliAuthLost = FALSE
    /\ resuming = "none"
    /\ brought = FALSE
    /\ deadAir = 0
    /\ calls = [secret |-> 0, model |-> 0, input |-> 0]

\* Phase 2 of a bring-up: every outer binding is committed at once.
CommitApi(adapters) ==
    /\ chatLoop' = "api"
    /\ router' = [adapters |-> adapters, current |-> BootModel(adapters)]
    /\ cliAuthLost' = FALSE
    /\ brought' = TRUE

\* A bring-up that returns a reason leaves the outer bindings alone.
BroughtNothing(loop, authLost) ==
    /\ chatLoop' = loop
    /\ cliAuthLost' = authLost
    /\ brought' = FALSE
    /\ UNCHANGED router

\* The API branch of tryBringChatAgentUp, which awaits nothing: the router
\* throws for a default it cannot serve, and the boot invariants or the
\* construction of the loop may fail.
BringUpApi(adapters, loop, authLost) ==
    \/ CanBuildApiRouter(adapters) /\ CommitApi(adapters)
    \/ /\ LoopMayFail \/ ~CanBuildApiRouter(adapters)
       /\ BroughtNothing(loop, authLost)

\* startDaemon reaches the initial bring-up: environment keys are imported
\* into the secrets directory, and the keys that count are read here.
InitialBringUp ==
    /\ daemonPhase = "loading"
    /\ keysOnDisk' = keysOnDisk \cup envKeys
    /\ IF keysOnDisk' # {}
       THEN /\ BringUpApi(keysOnDisk', "none", FALSE)
            /\ daemonPhase' = "up"
            /\ resuming' = "boot"
       ELSE /\ daemonPhase' = "probing"
            /\ UNCHANGED <<chatLoop, router, cliAuthLost, resuming, brought>>
    /\ UNCHANGED <<delegated, brainsLeft, envKeys, defaultFile, bouncing, reasonKnown,
                   deadAir, calls>>

\* One probe of the ladder settles: claude first, then codex.  A ready CLI is
\* committed as the brain; construction may still fail.
Probe(ready) ==
    /\ daemonPhase = "probing"
    /\ brainsLeft # {}
    /\ brainsLeft' = IF "claude" \in brainsLeft THEN {"codex"} ELSE {}
    /\ \/ /\ ready
          /\ chatLoop' \in {"cli"} \cup (IF LoopMayFail THEN {"none"} ELSE {})
          /\ brought' = (chatLoop' = "cli")
          /\ daemonPhase' = "up"
          /\ resuming' = "boot"
       \/ /\ ~ready
          /\ IF brainsLeft' = {}
             THEN daemonPhase' = "up" /\ resuming' = "boot"
             ELSE UNCHANGED <<daemonPhase, resuming>>
          /\ UNCHANGED <<chatLoop, brought>>
    /\ UNCHANGED <<delegated, keysOnDisk, envKeys, defaultFile, router, bouncing,
                   reasonKnown, cliAuthLost, deadAir, calls>>

\* The code after the await: at boot the bouncer goes in when nothing came
\* up; in the secret.set handler it comes out when something did.
Resume ==
    /\ resuming # "none"
    /\ resuming' = "none"
    /\ bouncing' = IF resuming = "boot" THEN ~brought ELSE bouncing /\ ~brought
    /\ reasonKnown' = ~brought
    /\ UNCHANGED <<delegated, daemonPhase, brainsLeft, keysOnDisk, envKeys, defaultFile,
                   chatLoop, router, cliAuthLost, brought, deadAir, calls>>

\* Mutant: the teardown leaves the mailbox to the loop that is coming.
TeardownNoBouncer == bouncing' = bouncing

\* teardownChat: the CLI loop takes no more inputs, its state is forgotten, and
\* the bouncer reinstalled.  The turns it has taken run on.
TeardownChat == bouncing' = TRUE

\* Mutant: the fallback stays current when the wanted provider arrives.
HotAddKeepingFallback(p) ==
    /\ router' = [router EXCEPT !.adapters = @ \cup {p}]
    /\ UNCHANGED <<chatLoop, cliAuthLost, brought, resuming, bouncing>>

\* The hot-add of a provider to a live router, which also restores the
\* persisted default that the boot fallback had overridden.
HotAdd(p) ==
    /\ router' =
        IF p \in router.adapters THEN router
        ELSE [adapters |-> router.adapters \cup {p},
              current |-> IF /\ defaultFile \in ServedModels
                             /\ providerForModel[defaultFile] = p
                          THEN defaultFile ELSE router.current]
    /\ UNCHANGED <<chatLoop, cliAuthLost, brought, resuming, bouncing>>

\* The secret.set handler.
OnSecretSet(p) ==
    \/ /\ chatLoop # "none" /\ router.adapters = {}
       /\ ~CanBuildApiRouter(keysOnDisk')
       /\ UNCHANGED <<chatLoop, router, cliAuthLost, brought, resuming, bouncing>>
    \/ /\ chatLoop # "none" /\ router.adapters = {}
       /\ CanBuildApiRouter(keysOnDisk')
       /\ TeardownChat
       /\ BringUpApi(keysOnDisk', "none", FALSE)
       /\ resuming' = "upgrade"
    \/ /\ chatLoop # "none" /\ router.adapters # {}
       /\ HotAdd(p)
    \/ /\ chatLoop = "none"
       /\ BringUpApi(keysOnDisk', chatLoop, cliAuthLost)
       /\ resuming' = "wake"
       /\ UNCHANGED bouncing

\* IPC secrets.set: the key is written, then the event is published; before
\* the daemon has subscribed, nobody hears it.
SetSecret(p) ==
    /\ daemonPhase \in {"loading", "probing", "up"}
    /\ resuming = "none"
    /\ calls.secret < MaxSecretCalls
    /\ calls' = [calls EXCEPT !.secret = @ + 1]
    /\ keysOnDisk' = keysOnDisk \cup {p}
    /\ IF daemonPhase = "up" THEN OnSecretSet(p)
       ELSE UNCHANGED <<chatLoop, router, cliAuthLost, brought, resuming, bouncing>>
    /\ UNCHANGED <<delegated, daemonPhase, brainsLeft, envKeys, defaultFile, reasonKnown,
                   deadAir>>

\* IPC secrets.remove: the file goes, and no event says so.
RemoveSecret(p) ==
    /\ daemonPhase \in {"loading", "probing", "up"}
    /\ resuming = "none"
    /\ p \in keysOnDisk
    /\ calls.secret < MaxSecretCalls
    /\ calls' = [calls EXCEPT !.secret = @ + 1]
    /\ keysOnDisk' = keysOnDisk \ {p}
    /\ UNCHANGED <<delegated, daemonPhase, brainsLeft, envKeys, defaultFile, chatLoop, router,
                   bouncing, reasonKnown, cliAuthLost, resuming, brought, deadAir>>

\* modelControl.validate: the prefix must be known, and a live router must
\* hold the provider.
Validate(mdl) ==
    /\ mdl \in ServedModels
    /\ router.adapters = {} \/ Serves(router.adapters, mdl)

\* IPC model.set: validated, persisted, and swapped into a live router, which
\* refuses a model it cannot serve.
SetModel(mdl) ==
    /\ daemonPhase \in {"loading", "probing", "up"}
    /\ resuming = "none"
    /\ calls.model < MaxModelCalls
    /\ calls' = [calls EXCEPT !.model = @ + 1]
    /\ Validate(mdl)
    /\ defaultFile' = mdl
    /\ router' = IF Serves(router.adapters, mdl)
                 THEN [router EXCEPT !.current = mdl] ELSE router
    /\ UNCHANGED <<delegated, daemonPhase, brainsLeft, keysOnDisk, envKeys, chatLoop, bouncing,
                   reasonKnown, cliAuthLost, resuming, brought, deadAir>>

\* A chat.input addressed to root: the loop takes it, or the bouncer answers
\* it with chat.error, or nobody does.  A CLI loop runs it as a delegated turn.
ChatInput ==
    /\ daemonPhase \in {"loading", "probing", "up"}
    /\ calls.input < MaxInputs
    /\ calls' = [calls EXCEPT !.input = @ + 1]
    /\ deadAir' = IF daemonPhase = "up" /\ resuming # "boot" /\ chatLoop = "none" /\ ~bouncing
                  THEN deadAir + 1 ELSE deadAir
    /\ delegated' = IF chatLoop = "cli" THEN delegated + 1 ELSE delegated
    /\ UNCHANGED <<daemonPhase, brainsLeft, keysOnDisk, envKeys, defaultFile, chatLoop,
                   router, bouncing, reasonKnown, cliAuthLost, resuming, brought>>

\* What the end of a turn leaves alone.
TurnEnded ==
    /\ daemonPhase \in {"up", "stopping"} /\ resuming = "none"
    /\ UNCHANGED <<daemonPhase, brainsLeft, keysOnDisk, envKeys, defaultFile, chatLoop,
                   router, bouncing, reasonKnown, resuming, brought, deadAir, calls>>

\* chat.cli-auth-lost from a delegated turn, of the loop that is up or of one
\* that was torn down: noted whenever some loop is up, which stays up.
CliAuthLost ==
    /\ TurnEnded
    /\ delegated > 0 /\ delegated' = delegated - 1
    /\ cliAuthLost' = (cliAuthLost \/ chatLoop # "none")

\* A delegated turn that ends with another error.
DelegatedTurnFails ==
    /\ TurnEnded
    /\ delegated > 0 /\ delegated' = delegated - 1
    /\ UNCHANGED cliAuthLost

\* chat.turn-end of the root agent, by either kind of loop, clears the flag.
RootTurnEnds ==
    /\ TurnEnded
    /\ \/ delegated > 0 /\ delegated' = delegated - 1
       \/ chatLoop = "api" /\ UNCHANGED delegated
    /\ cliAuthLost' = FALSE

\* shutdown: the loop is stopped first; the binding chat is not cleared.
Shutdown ==
    /\ daemonPhase = "up" /\ resuming = "none"
    /\ daemonPhase' = "stopping"
    /\ UNCHANGED <<delegated, brainsLeft, keysOnDisk, envKeys, defaultFile, chatLoop, router,
                   bouncing, reasonKnown, cliAuthLost, resuming, brought, deadAir, calls>>

\* The rest of shutdown, after the last await: bus, store and pid file.
Stopped ==
    /\ daemonPhase = "stopping"
    /\ daemonPhase' = "stopped"
    /\ bouncing' = FALSE
    /\ UNCHANGED <<delegated, brainsLeft, keysOnDisk, envKeys, defaultFile, chatLoop, router,
                   reasonKnown, cliAuthLost, resuming, brought, deadAir, calls>>

Next ==
    \/ InitialBringUp
    \/ \E ready \in BOOLEAN : Probe(ready)
    \/ Resume
    \/ \E p \in Providers : SetSecret(p) \/ RemoveSecret(p)
    \/ \E mdl \in Models : SetModel(mdl)
    \/ ChatInput
    \/ CliAuthLost
    \/ DelegatedTurnFails
    \/ RootTurnEnds
    \/ Shutdown
    \/ Stopped

Spec == Init /\ [][Next]_bringupVars

----------------------------------------------------------------------------
TypeOK ==
    /\ daemonPhase \in {"loading", "probing", "up", "stopping", "stopped"}
    /\ brainsLeft \subseteq {"claude", "codex"}
    /\ keysOnDisk \subseteq Providers /\ envKeys \subseteq Providers
    /\ defaultFile \in Models
    /\ chatLoop \in {"none", "api", "cli"}
    /\ router \in [adapters : SUBSET Providers, current : Models]
    /\ {bouncing, reasonKnown, cliAuthLost, brought} \subseteq BOOLEAN
    /\ resuming \in {"none", "boot", "wake", "upgrade"}
    /\ calls \in [secret : Nat, model : Nat, input : 0..MaxInputs]
    /\ delegated \in Nat /\ delegated <= calls.input
    /\ deadAir \in 0..MaxInputs

\* Once the daemon is up an input is never met by silence: the root loop
\* takes it or the bouncer answers it, through every wake-up, failed wake-up
\* and upgrade from a CLI to an API backend; and a disabled chat has a
\* reason of its own, not the lost login of a loop that is gone.
SomeoneAnswers ==
    /\ deadAir = 0
    /\ daemonPhase = "up" /\ resuming = "none" =>
         /\ (chatLoop = "none") = bouncing
         /\ chatLoop = "none" => reasonKnown
         /\ cliAuthLost => chatLoop # "none"

\* The router only ever stands on a model it can serve, and as soon as it
\* holds the provider of the persisted default it stands on that default:
\* a boot fallback does not outlive the missing key.
DefaultIsHonoured ==
    router.adapters # {} =>
        /\ Serves(router.adapters, router.current)
        /\ Serves(router.adapters, defaultFile) => router.current = defaultFile

\* daemon.ts says of a key that arrives between ipc.listen and the
\* subscription that "the dropped-event path still ends with chat alive": a
\* daemon that is up with keys it can build a router from has chat alive.
DroppedKeyIsFound ==
    /\ daemonPhase = "up" /\ resuming = "none"
    /\ CanBuildApiRouter(keysOnDisk)
    => chatLoop # "none"
=============================================================================
