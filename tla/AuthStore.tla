----------------------------- MODULE AuthStore ------------------------------
(* The credential file (src/internal/auth) as several processes use it:      *)
(* logins that end in Store.Modify, logouts, and the refresh of an expired   *)
(* OAuth credential when a provider is configured (src/internal/provider/    *)
(* config.go), which reads the file, asks the token service and modifies the *)
(* file without holding its lock in between. A credential is [access,        *)
(* refresh]: numbers of tokens, refresh 0 for an API key.                    *)
EXTENDS Integers, FiniteSets

CONSTANTS Worker, NoWorker,    (* processes                                   *)
          MaxTokens, MaxFaults (* bounds: tokens issued, faults               *)

(* Codex and Anthropic give a new refresh token with every access token; a   *)
(* GitHub token lasts; Bedrock and Vertex have a plain key. Nothing ever     *)
(* refreshes an Anthropic credential (RefreshAnthropic has no caller).       *)
Codex == "openai-codex"
Copilot == "github-copilot"
Anthropic == "anthropic"
Bedrock == "amazon-bedrock"
Service == {Codex, Copilot, Anthropic, Bedrock}
Rotating == {Codex, Anthropic}

ASSUME AuthAssumption == NoWorker \notin Worker /\ MaxTokens \in Nat /\ MaxFaults \in Nat

VARIABLES credentials,         (* the file: service -> credential             *)
          flock,               (* who has the exclusive file lock             *)
          loaded,              (* what Modify read under the lock             *)
          step,                (* what each process is doing                  *)
          target, next,        (* the service it is at, the credential it has *)
          issued,              (* tokens issued so far                        *)
          live, expired,       (* refresh tokens that are good, access tokens *)
                               (* that are not any more                       *)
          lost,                (* services whose fresh token nobody stored    *)
          faults

authVars == <<credentials, flock, loaded, step, target, next, issued, live, expired, lost, faults>>

NoCredential == [access |-> 0, refresh |-> 0]

AuthInit ==
  /\ credentials = [s \in Service |-> NoCredential]
  /\ flock = NoWorker
  /\ loaded = [w \in Worker |-> [s \in Service |-> NoCredential]]
  /\ step = [w \in Worker |-> "idle"]
  /\ target = [w \in Worker |-> Bedrock]
  /\ next = [w \in Worker |-> NoCredential]
  /\ issued = 0 /\ live = {} /\ expired = {} /\ lost = {} /\ faults = 0

Become(w, s, c, what) ==
  /\ step' = [step EXCEPT ![w] = what]
  /\ target' = [target EXCEPT ![w] = s]
  /\ next' = [next EXCEPT ![w] = c]

Idle(w) ==
  /\ Become(w, Bedrock, NoCredential, "idle")
  /\ loaded' = [loaded EXCEPT ![w] = [s \in Service |-> NoCredential]]

-----------------------------------------------------------------------------
(* Login and logout.                                                         *)

(* Device code requested and shown; the process polls.                       *)
CodexDevice(w) ==
  /\ step[w] = "idle"
  /\ Become(w, Codex, NoCredential, "polling")
  /\ UNCHANGED <<credentials, flock, loaded, issued, live, expired, lost, faults>>

CopilotDevice(w) ==
  /\ step[w] = "idle"
  /\ Become(w, Copilot, NoCredential, "polling")
  /\ UNCHANGED <<credentials, flock, loaded, issued, live, expired, lost, faults>>

(* The browser is sent to the service, which calls back on a port that only  *)
(* one process can listen on; a callback with another state is refused and   *)
(* the process goes on waiting.                                              *)
Waiting(s) == \E v \in Worker : step[v] = "callback" /\ target[v] = s

CodexBrowser(w) ==
  /\ step[w] = "idle" /\ ~Waiting(Codex)
  /\ Become(w, Codex, NoCredential, "callback")
  /\ UNCHANGED <<credentials, flock, loaded, issued, live, expired, lost, faults>>

AnthropicBrowser(w) ==
  /\ step[w] = "idle" /\ ~Waiting(Anthropic)
  /\ Become(w, Anthropic, NoCredential, "callback")
  /\ UNCHANGED <<credentials, flock, loaded, issued, live, expired, lost, faults>>

(* Denied, failed or past the deadline; while it is pending the process just *)
(* polls on.                                                                 *)
LoginRefused(w) ==
  /\ step[w] \in {"polling", "callback"} /\ target[w] # Copilot
  /\ Idle(w)
  /\ UNCHANGED <<credentials, flock, issued, live, expired, lost, faults>>

CopilotRefused(w) ==
  /\ step[w] \in {"polling", "granted", "listing"} /\ target[w] = Copilot
  /\ Idle(w)
  /\ UNCHANGED <<credentials, flock, issued, live, expired, lost, faults>>

(* The code is exchanged for an access and a refresh token.                  *)
Exchange(w, s, from) ==
  /\ step[w] \in from /\ target[w] = s /\ issued < MaxTokens
  /\ issued' = issued + 1
  /\ live' = live \cup {issued + 1}
  /\ Become(w, s, [access |-> issued + 1, refresh |-> issued + 1], "saving")
  /\ UNCHANGED <<credentials, flock, loaded, expired, lost, faults>>

CodexGranted(w) == Exchange(w, Codex, {"polling", "callback"})
AnthropicGranted(w) == Exchange(w, Anthropic, {"callback"})

(* GitHub grants its token, for which Copilot gives an access token; then    *)
(* the models are listed, and without them the login fails.                  *)
CopilotGranted(w) ==
  /\ step[w] = "polling" /\ target[w] = Copilot /\ issued < MaxTokens
  /\ issued' = issued + 1
  /\ live' = live \cup {issued + 1}
  /\ Become(w, Copilot, [access |-> 0, refresh |-> issued + 1], "granted")
  /\ UNCHANGED <<credentials, flock, loaded, expired, lost, faults>>

CopilotToken(w) ==
  /\ step[w] = "granted" /\ issued < MaxTokens
  /\ issued' = issued + 1
  /\ Become(w, Copilot, [next[w] EXCEPT !.access = issued + 1], "listing")
  /\ UNCHANGED <<credentials, flock, loaded, live, expired, lost, faults>>

CopilotModels(w) ==
  /\ step[w] = "listing"
  /\ step' = [step EXCEPT ![w] = "saving"]
  /\ UNCHANGED <<credentials, flock, loaded, target, next, issued, live, expired, lost, faults>>

KeyLogin(w) ==
  /\ step[w] = "idle" /\ issued < MaxTokens
  /\ issued' = issued + 1
  /\ Become(w, Bedrock, [access |-> issued + 1, refresh |-> 0], "saving")
  /\ UNCHANGED <<credentials, flock, loaded, live, expired, lost, faults>>

Delete(w, s) ==
  /\ step[w] = "idle" /\ credentials[s] # NoCredential
  /\ Become(w, s, NoCredential, "saving")
  /\ UNCHANGED <<credentials, flock, loaded, issued, live, expired, lost, faults>>

-----------------------------------------------------------------------------
(* A provider is configured: Read under the shared lock, and a refresh when  *)
(* the access token has expired.                                             *)

Read(w, s) ==
  /\ step[w] = "idle" /\ flock = NoWorker
  /\ s \in {Codex, Copilot}
  /\ credentials[s].refresh # 0 /\ credentials[s].access \in expired
  /\ Become(w, s, credentials[s], "refreshing")
  /\ UNCHANGED <<credentials, flock, loaded, issued, live, expired, lost, faults>>

(* The service answers with a new access token; Codex with a new refresh     *)
(* token too, and the old one is spent.                                      *)
RefreshCodexKeepingOld(w) ==   (* mutant: the new refresh token is ignored *)
  /\ step[w] = "refreshing" /\ target[w] = Codex /\ next[w].refresh \in live
  /\ issued < MaxTokens
  /\ issued' = issued + 1
  /\ live' = (live \ {next[w].refresh}) \cup {issued + 1}
  /\ Become(w, Codex, [next[w] EXCEPT !.access = issued + 1], "saving")
  /\ UNCHANGED <<credentials, flock, loaded, expired, lost, faults>>

RefreshCodex(w) ==
  /\ step[w] = "refreshing" /\ target[w] = Codex /\ next[w].refresh \in live
  /\ issued < MaxTokens
  /\ issued' = issued + 1
  /\ live' = (live \ {next[w].refresh}) \cup {issued + 1}
  /\ Become(w, Codex, [access |-> issued + 1, refresh |-> issued + 1], "saving")
  /\ UNCHANGED <<credentials, flock, loaded, expired, lost, faults>>

(* A new access token, and the models again.                                 *)
RefreshCopilot(w) ==
  /\ step[w] = "refreshing" /\ target[w] = Copilot /\ issued < MaxTokens
  /\ issued' = issued + 1
  /\ Become(w, Copilot, [next[w] EXCEPT !.access = issued + 1], "saving")
  /\ UNCHANGED <<credentials, flock, loaded, live, expired, lost, faults>>

(* Refused, or out of reach: the process goes on with what it read.          *)
RefreshFails(w) ==
  /\ step[w] = "refreshing"
  /\ next[w].refresh \in live => faults < MaxFaults
  /\ faults' = IF next[w].refresh \in live THEN faults + 1 ELSE faults
  /\ Idle(w)
  /\ UNCHANGED <<credentials, flock, issued, live, expired, lost>>

(* The answer does not come within the client's ten seconds, although the    *)
(* service has acted.                                                        *)
RefreshAnswerLost(w) ==
  /\ step[w] = "refreshing" /\ next[w].refresh \in live /\ target[w] = Codex
  /\ issued < MaxTokens /\ faults < MaxFaults
  /\ issued' = issued + 1 /\ faults' = faults + 1
  /\ live' = (live \ {next[w].refresh}) \cup {issued + 1}
  /\ lost' = lost \cup {target[w]}
  /\ Idle(w)
  /\ UNCHANGED <<credentials, flock, expired>>

-----------------------------------------------------------------------------
(* Store.Modify: the file is read, changed and replaced under the exclusive  *)
(* lock; it is replaced by a rename, so that it is never half written.       *)

ModifyLoadUnlocked(w) ==   (* mutant: the lock is not waited for *)
  /\ step[w] = "saving"
  /\ flock' = w
  /\ loaded' = [loaded EXCEPT ![w] = credentials]
  /\ step' = [step EXCEPT ![w] = "writing"]
  /\ UNCHANGED <<credentials, target, next, issued, live, expired, lost, faults>>

ModifyLoad(w) ==
  /\ step[w] = "saving" /\ flock = NoWorker
  /\ flock' = w
  /\ loaded' = [loaded EXCEPT ![w] = credentials]
  /\ step' = [step EXCEPT ![w] = "writing"]
  /\ UNCHANGED <<credentials, target, next, issued, live, expired, lost, faults>>

ModifySave(w) ==
  /\ step[w] = "writing"
  /\ credentials' = [loaded[w] EXCEPT ![target[w]] = next[w]]
  /\ flock' = NoWorker
  /\ Idle(w)
  /\ UNCHANGED <<issued, live, expired, lost, faults>>

LostWith(w) == IF next[w].refresh # 0 THEN lost \cup {target[w]} ELSE lost

(* The file cannot be replaced; after a refresh the error is dropped.        *)
ModifyFails(w) ==
  /\ step[w] = "writing" /\ faults < MaxFaults
  /\ faults' = faults + 1 /\ lost' = LostWith(w)
  /\ flock' = NoWorker
  /\ Idle(w)
  /\ UNCHANGED <<credentials, issued, live, expired>>

AuthDies(w) ==
  /\ step[w] # "idle" /\ faults < MaxFaults
  /\ faults' = faults + 1
  /\ lost' = IF step[w] \in {"saving", "writing"} THEN LostWith(w) ELSE lost
  /\ flock' = IF flock = w THEN NoWorker ELSE flock
  /\ Idle(w)
  /\ UNCHANGED <<credentials, issued, live, expired>>

(* Time passes for an access token.                                          *)
Expire(s) ==
  /\ credentials[s].refresh # 0
  /\ expired' = expired \cup {credentials[s].access}
  /\ expired' # expired
  /\ UNCHANGED <<credentials, flock, loaded, step, target, next, issued, live, lost, faults>>

AuthNext ==
  \/ \E w \in Worker :
       \/ CodexDevice(w) \/ CopilotDevice(w) \/ CodexBrowser(w) \/ AnthropicBrowser(w)
       \/ LoginRefused(w) \/ CopilotRefused(w) \/ CodexGranted(w) \/ AnthropicGranted(w)
       \/ CopilotGranted(w) \/ CopilotToken(w) \/ CopilotModels(w) \/ KeyLogin(w)
       \/ \E s \in Service : Delete(w, s) \/ Read(w, s)
       \/ RefreshCodex(w) \/ RefreshCopilot(w) \/ RefreshFails(w) \/ RefreshAnswerLost(w)
       \/ ModifyLoad(w) \/ ModifySave(w) \/ ModifyFails(w) \/ AuthDies(w)
  \/ \E s \in Service : Expire(s)

AuthSpec == AuthInit /\ [][AuthNext]_authVars

-----------------------------------------------------------------------------
(* Properties.                                                               *)

AuthTypeOK ==
  /\ \A s \in Service : credentials[s] \in [access : 0 .. MaxTokens, refresh : 0 .. MaxTokens]
  /\ flock \in Worker \cup {NoWorker}
  /\ live \subseteq 1 .. MaxTokens /\ expired \subseteq 1 .. MaxTokens
  /\ \A w \in Worker : step[w] = "writing" <=> flock = w

(* Whatever the processes do at once, a change of the file changes the       *)
(* credential of one provider (Store.Modify reads and writes the whole file  *)
(* under one lock, store.go:67).                                             *)
OthersKept ==
  [][\A s, t \in Service :
       credentials'[s] # credentials[s] /\ credentials'[t] # credentials[t] => s = t]_credentials

(* Two processes that refresh the same expired credential spend its refresh  *)
(* token once. A stored refresh token that is spent is on its way to be      *)
(* replaced by a process that has a good one, unless an answer or a write    *)
(* was lost (storedCodexAccessToken reads, refreshes and modifies in three   *)
(* steps, config.go:327-347).                                                *)
StoredTokenGood ==
  \A s \in Rotating \ lost :
    credentials[s].refresh \in live \cup {0}
      \/ \E w \in Worker : step[w] \in {"saving", "writing"} /\ target[w] = s
                             /\ next[w].refresh \in live \cup {0}
=============================================================================
