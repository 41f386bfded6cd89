------------------------------- MODULE PanelAuth -------------------------------
(***************************************************************************)
(* Accounts and sessions of the panel (internal/server: login, elevate,    *)
(* password and account changes, KDF upgrade, TOTP and recovery codes,     *)
(* session management; internal/auth: the session store; internal/config:  *)
(* the configuration file).                                                *)
(*                                                                         *)
(* Every HTTP request runs in a goroutine of its own. The configuration is *)
(* guarded by configMu, the session store, the elevation table and the     *)
(* pending TOTP setups by mutexes of their own, and no handler holds one   *)
(* of them from its first read to its last write: a handler is a sequence  *)
(* of atomic steps, one per critical section, and between two of them any  *)
(* other handler may run. A request slot req[r] holds the handler's place  *)
(* and the values it copied out of a critical section.                     *)
(*                                                                         *)
(* A request that is refused (wrong password, second factor missing or     *)
(* wrong, conflict, failed save) changes nothing here and frees its slot;  *)
(* what a refusal does to the login limiter is not part of this module.    *)
(* Time is abstracted: a session, an elevation (5 minutes) and a pending   *)
(* TOTP setup (10 minutes) may expire at any moment.                       *)
(***************************************************************************)
EXTENDS Naturals, FiniteSets

CONSTANTS
    Reqs,        \* request goroutines that run at the same time
    Sids,        \* session identities, each used for one session only
    NoSid,       \* "this request has no session"
    Users,       \* account names
    Passwords,   \* passwords
    FirstKdf,    \* the KDF of the hash the panel starts with
    CodesPerSet, \* recovery codes generated together (10 in the code)
    MaxHash,     \* bound: password hashes computed
    MaxSets,     \* bound: TOTP secrets and recovery-code sets generated
    MaxEpoch     \* bound: password and account changes

ASSUME AuthAssumption ==
    /\ NoSid \notin Sids
    /\ Users # {} /\ Passwords # {}
    /\ FirstKdf \in {"pbkdf2", "argon2id"}
    /\ CodesPerSet \in Nat /\ MaxHash \in Nat /\ MaxSets \in Nat
    /\ MaxEpoch \in Nat

Codes == (1..MaxSets) \X (1..CodesPerSet)
CodesOf(g) == {c \in Codes : c[1] = g}
Hashes == [pw : Passwords, kdf : {"pbkdf2", "argon2id"}, salt : 0..MaxHash]

(* Config: the fields the account handlers read or write. totp = 0 stands *)
(* for an empty TOTPSecret.                                               *)
Configs == [user : Users, hash : Hashes, totp : 0..MaxSets,
            codes : SUBSET Codes]

Places == {"idle", "login.otp", "login.create", "elevate.totp", "elevate.otp",
           "elevate.grant", "password.save", "password.revoke",
           "account.save", "account.revoke", "kdf.save", "setup.store",
           "confirm.save", "confirm.clear", "disable.save", "regen.save",
           "logout", "revoke"}

VARIABLES
    cfg,        \* Server.cfg, guarded by configMu
    disk,       \* config.json
    sessions,   \* Store.sessions: [Sids -> Session]
    elevated,   \* Server.elevated: the sessions inside their 5 minutes
    pending,    \* Server.totpPending: [Sids -> generated set, 0 = none]
    req,        \* the request goroutines
    salts,      \* hashes computed so far
    sets,       \* secrets and code sets generated so far
    seen,       \* session identities handed out
    (* History, written and never read by the handlers: *)
    used,       \* how often each recovery code was accepted
    installs,   \* how often each generated set was written to the configuration
    epoch       \* password and account changes so far

vars == <<cfg, disk, sessions, elevated, pending, req, salts, sets, seen,
          used, installs, epoch>>
history == <<used, installs, epoch>>

Request == [pc : Places, sid : Sids \cup {NoSid}, user : Users, pw : Passwords,
            salt : 0..MaxHash, set : 0..MaxSets, epoch : Nat, cleared : BOOLEAN]

(* A row of the session store, with the history of the login behind it:    *)
(* the epoch whose credentials it presented, whether a change of them was  *)
(* saved before the session was created, and whether the login presented a *)
(* second factor or saw TOTP off.                                          *)
Session == [live : BOOLEAN, user : Users, epoch : Nat, late : BOOLEAN,
            cleared : BOOLEAN]

AnyUser == CHOOSE u \in Users : TRUE
AnyPassword == CHOOSE p \in Passwords : TRUE
Idle == [pc |-> "idle", sid |-> NoSid, user |-> AnyUser, pw |-> AnyPassword,
         salt |-> 0, set |-> 0, epoch |-> 0, cleared |-> FALSE]
NoSession == [live |-> FALSE, user |-> AnyUser, epoch |-> 0, late |-> FALSE,
              cleared |-> FALSE]

TypeOK ==
    /\ cfg \in Configs /\ disk \in Configs
    /\ sessions \in [Sids -> Session]
    /\ elevated \subseteq Sids
    /\ pending \in [Sids -> 0..MaxSets]
    /\ req \in [Reqs -> Request]
    /\ salts \in 0..MaxHash /\ sets \in 0..MaxSets
    /\ seen \subseteq Sids
    /\ used \in [Codes -> Nat]
    /\ installs \in [1..MaxSets -> Nat]
    /\ epoch \in 0..MaxEpoch

(* A fresh installation (Argon2id), or one that still carries a legacy    *)
(* hash: no session, no second factor.                                    *)
Init ==
    /\ cfg = [user |-> AnyUser,
              hash |-> [pw |-> AnyPassword, kdf |-> FirstKdf, salt |-> 0],
              totp |-> 0, codes |-> {}]
    /\ disk = cfg
    /\ sessions = [s \in Sids |-> NoSession]
    /\ elevated = {} /\ seen = {}
    /\ pending = [s \in Sids |-> 0]
    /\ req = [r \in Reqs |-> Idle]
    /\ salts = 0 /\ sets = 0
    /\ used = [c \in Codes |-> 0]
    /\ installs = [g \in 1..MaxSets |-> 0]
    /\ epoch = 0

Live == {s \in Sids : sessions[s].live}

At(r, place) == req[r].pc = place
Go(r, place) == req' = [req EXCEPT ![r].pc = place]
End(r) == req' = [req EXCEPT ![r] = Idle]

----------------------------------------------------------------------------
(* config.Save and the assignment that follows it, under configMu. *)
Save(c) == cfg' = c /\ disk' = c

SaveMemoryOnly(c) == cfg' = c /\ UNCHANGED disk

(* A second factor the user can present: the authenticator's code for the *)
(* secret in force, or a recovery code.                                   *)
Otps == {[kind |-> "totp", code |-> <<0, 0>>]}
          \cup {[kind |-> "code", code |-> c] : c \in Codes}

(* ConsumeRecoveryCode finds the code among the stored hashes. *)
ConsumeRecoveryCode(otp) == otp.kind = "code" /\ otp.code \in cfg.codes

UsesCode(otp) == cfg.totp # 0 /\ otp.kind = "code"

(* verifySecondFactor's verdict on the configuration in force now. *)
secondFactorOk(otp) ==
    cfg.totp # 0 => otp.kind = "totp" \/ ConsumeRecoveryCode(otp)

(* The configuration with an accepted recovery code taken out. *)
afterSecondFactor(otp) ==
    IF UsesCode(otp) THEN [cfg EXCEPT !.codes = @ \ {otp.code}] ELSE cfg

CountUse(otp) ==
    used' = IF UsesCode(otp) THEN [used EXCEPT ![otp.code] = @ + 1] ELSE used

----------------------------------------------------------------------------
(* Password login. *)

(* login, up to the password check: hash, user and whether TOTP is on are *)
(* copied under RLock; the slow comparison works on the copy.             *)
LoginRead(r) ==
    /\ At(r, "idle")
    /\ seen # Sids
    /\ req' = [req EXCEPT ![r] = [Idle EXCEPT
                 !.pc = IF cfg.totp # 0 THEN "login.otp" ELSE "login.create",
                 !.user = cfg.user, !.epoch = epoch, !.cleared = (cfg.totp = 0)]]
    /\ UNCHANGED <<cfg, disk, sessions, elevated, pending, salts, sets, seen, history>>

LoginOtpUnsaved(r) ==
    /\ At(r, "login.otp")
    /\ \E otp \in Otps :
         /\ secondFactorOk(otp)
         /\ CountUse(otp)
         /\ SaveMemoryOnly(afterSecondFactor(otp))
         /\ req' = [req EXCEPT ![r].pc = "login.create", ![r].cleared = TRUE]
    /\ UNCHANGED <<sessions, elevated, pending, salts, sets, seen, installs, epoch>>

LoginOtpSkipped(r) ==
    /\ At(r, "login.otp")
    /\ Go(r, "login.create")
    /\ UNCHANGED <<cfg, disk, sessions, elevated, pending, salts, sets, seen, history>>

(* login's second step: verifySecondFactor(otp, true) in one configMu     *)
(* section; a recovery code is saved as spent before it counts.           *)
LoginOtp(r) ==
    /\ At(r, "login.otp")
    /\ \E otp \in Otps :
         /\ secondFactorOk(otp)
         /\ CountUse(otp)
         /\ Save(afterSecondFactor(otp))
         /\ req' = [req EXCEPT ![r].pc = "login.create", ![r].cleared = TRUE]
    /\ UNCHANGED <<sessions, elevated, pending, salts, sets, seen, installs, epoch>>

(* establishSession: Store.Create under a fresh identity. *)
LoginCreate(r) ==
    /\ At(r, "login.create")
    /\ \E s \in Sids \ seen :
         /\ seen' = seen \cup {s}
         /\ sessions' = [sessions EXCEPT ![s] =
                           [live |-> TRUE, user |-> req[r].user,
                            epoch |-> req[r].epoch,
                            late |-> req[r].epoch # epoch,
                            cleared |-> req[r].cleared]]
    /\ End(r)
    /\ UNCHANGED <<cfg, disk, elevated, pending, salts, sets, used, installs, epoch>>

----------------------------------------------------------------------------
(* requireAuth: the session is looked up once, when the request arrives. *)
Admit(r, s, place) ==
    /\ At(r, "idle") /\ s \in Live
    /\ req' = [req EXCEPT ![r] = [Idle EXCEPT !.pc = place, !.sid = s]]
    /\ UNCHANGED <<cfg, disk, sessions, elevated, pending, salts, sets, seen, history>>

(* A handler that first compares the current password with the stored hash. *)
AdmitWithPassword(r, s, place) ==
    /\ At(r, "idle") /\ s \in Live
    /\ req' = [req EXCEPT ![r] = [Idle EXCEPT
                 !.pc = place, !.sid = s, !.user = cfg.user, !.pw = cfg.hash.pw,
                 !.salt = cfg.hash.salt]]
    /\ UNCHANGED <<cfg, disk, sessions, elevated, pending, salts, sets, seen, history>>

ChangePasswordRead(r, s) == AdmitWithPassword(r, s, "password.save")
ChangeAccountRead(r, s)  == AdmitWithPassword(r, s, "account.save")
ElevateRead(r, s)        == AdmitWithPassword(r, s, "elevate.totp")
UpgradeKdfRead(r, s)     == cfg.hash.kdf # "argon2id" /\ AdmitWithPassword(r, s, "kdf.save")
LogoutAdmit(r, s)        == Admit(r, s, "logout")
RevokeAdmit(r, s)        == Admit(r, s, "revoke")

(* requireElevation: handlers behind a recent second verification. *)
SetupCheck(r, s)   == s \in elevated /\ cfg.totp = 0 /\ Admit(r, s, "setup.store")
DisableAdmit(r, s) == s \in elevated /\ Admit(r, s, "disable.save")
RegenAdmit(r, s)   == s \in elevated /\ Admit(r, s, "regen.save")

----------------------------------------------------------------------------
(* Elevation. *)

(* elevate asks totpEnabled() in one section and verifies in another. *)
ElevateTotp(r) ==
    /\ At(r, "elevate.totp")
    /\ Go(r, IF cfg.totp = 0 THEN "elevate.grant" ELSE "elevate.otp")
    /\ UNCHANGED <<cfg, disk, sessions, elevated, pending, salts, sets, seen, history>>

ElevateOtp(r) ==
    /\ At(r, "elevate.otp")
    /\ \E otp \in Otps :
         /\ secondFactorOk(otp)
         /\ CountUse(otp)
         /\ Save(afterSecondFactor(otp))
    /\ Go(r, "elevate.grant")
    /\ UNCHANGED <<sessions, elevated, pending, salts, sets, seen, installs, epoch>>

ElevateGrant(r) ==
    /\ At(r, "elevate.grant")
    /\ elevated' = elevated \cup {req[r].sid}
    /\ End(r)
    /\ UNCHANGED <<cfg, disk, sessions, pending, salts, sets, seen, history>>

----------------------------------------------------------------------------
(* Credential changes: verify on a copy, then compare, verify the second   *)
(* factor and save in one configMu section (saveConfigWithSecondFactor).   *)

(* The changer's own session is kept: it counts as logged in anew. *)
NewEpoch(s) ==
    /\ epoch < MaxEpoch /\ epoch' = epoch + 1
    /\ sessions' = IF s \in Live THEN [sessions EXCEPT ![s].epoch = epoch + 1]
                   ELSE sessions

ChangePasswordSave(r) ==
    /\ At(r, "password.save")
    /\ cfg.hash.salt = req[r].salt
    /\ salts < MaxHash /\ salts' = salts + 1
    /\ \E otp \in Otps, new \in Passwords :
         /\ secondFactorOk(otp)
         /\ CountUse(otp)
         /\ Save([afterSecondFactor(otp) EXCEPT
                    !.hash = [pw |-> new, kdf |-> "argon2id", salt |-> salts + 1]])
    /\ NewEpoch(req[r].sid)
    /\ Go(r, "password.revoke")
    /\ UNCHANGED <<elevated, pending, sets, seen, installs>>

(* DeleteAllExcept the session that asked. *)
KeepOnly(s) == sessions' = [t \in Sids |-> IF t = s THEN sessions[t] ELSE NoSession]

KeepEveryone(r) ==
    /\ At(r, "password.revoke")
    /\ End(r)
    /\ UNCHANGED <<cfg, disk, sessions, elevated, pending, salts, sets, seen, history>>

ChangePasswordRevoke(r) ==
    /\ At(r, "password.revoke")
    /\ KeepOnly(req[r].sid)
    /\ End(r)
    /\ UNCHANGED <<cfg, disk, elevated, pending, salts, sets, seen, history>>

ChangeAccountSave(r) ==
    /\ At(r, "account.save")
    /\ cfg.hash.salt = req[r].salt /\ cfg.user = req[r].user
    /\ \E otp \in Otps, name \in Users \ {req[r].user} :
         /\ secondFactorOk(otp)
         /\ CountUse(otp)
         /\ Save([afterSecondFactor(otp) EXCEPT !.user = name])
         /\ req' = [req EXCEPT ![r].pc = "account.revoke", ![r].user = name]
    /\ NewEpoch(req[r].sid)
    /\ UNCHANGED <<elevated, pending, salts, sets, seen, installs>>

(* RenameCurrentAndDeleteOthers. *)
ChangeAccountRevoke(r) ==
    /\ At(r, "account.revoke")
    /\ sessions' = [t \in Sids |-> IF t = req[r].sid /\ t \in Live
                                     THEN [sessions[t] EXCEPT !.user = req[r].user]
                                     ELSE NoSession]
    /\ End(r)
    /\ UNCHANGED <<cfg, disk, elevated, pending, salts, sets, seen, history>>

UpgradeKdfUnlabelled(r) ==
    /\ At(r, "kdf.save")
    /\ cfg.hash.salt = req[r].salt
    /\ salts < MaxHash /\ salts' = salts + 1
    /\ Save([cfg EXCEPT !.hash = [pw |-> req[r].pw, kdf |-> "none",
                                  salt |-> salts + 1]])
    /\ End(r)
    /\ UNCHANGED <<sessions, elevated, pending, sets, seen, history>>

UpgradeKdfUnchecked(r) ==
    /\ At(r, "kdf.save")
    /\ salts < MaxHash /\ salts' = salts + 1
    /\ Save([cfg EXCEPT !.hash = [pw |-> req[r].pw, kdf |-> "argon2id",
                                  salt |-> salts + 1]])
    /\ End(r)
    /\ UNCHANGED <<sessions, elevated, pending, sets, seen, history>>

(* upgradePasswordKDF re-hashes the password it verified, if the hash is   *)
(* still the one it verified against.                                      *)
UpgradeKdfSave(r) ==
    /\ At(r, "kdf.save")
    /\ cfg.hash.salt = req[r].salt
    /\ salts < MaxHash /\ salts' = salts + 1
    /\ Save([cfg EXCEPT !.hash = [pw |-> req[r].pw, kdf |-> "argon2id",
                                  salt |-> salts + 1]])
    /\ End(r)
    /\ UNCHANGED <<sessions, elevated, pending, sets, seen, history>>

----------------------------------------------------------------------------
(* TOTP. *)

(* totpSetup stores a generated secret and code set for the session. *)
SetupStore(r) ==
    /\ At(r, "setup.store")
    /\ sets < MaxSets /\ sets' = sets + 1
    /\ pending' = [pending EXCEPT ![req[r].sid] = sets + 1]
    /\ End(r)
    /\ UNCHANGED <<cfg, disk, sessions, elevated, salts, seen, history>>

(* totpConfirm copies the pending setup out of totpMu; the code the user   *)
(* typed is checked against the copy.                                      *)
ConfirmRead(r, s) ==
    /\ At(r, "idle") /\ s \in Live /\ s \in elevated /\ pending[s] # 0
    /\ req' = [req EXCEPT ![r] = [Idle EXCEPT !.pc = "confirm.save", !.sid = s,
                                              !.set = pending[s]]]
    /\ UNCHANGED <<cfg, disk, sessions, elevated, pending, salts, sets, seen, history>>

Install(g) == installs' = [installs EXCEPT ![g] = @ + 1]

(* ... writes it to the configuration, whatever the configuration holds    *)
(* by now ...                                                              *)
ConfirmSave(r) ==
    /\ At(r, "confirm.save")
    /\ Save([cfg EXCEPT !.totp = req[r].set, !.codes = CodesOf(req[r].set)])
    /\ Install(req[r].set)
    /\ Go(r, "confirm.clear")
    /\ UNCHANGED <<sessions, elevated, pending, salts, sets, seen, used, epoch>>

(* ... and then drops what is pending for the session. *)
ConfirmClear(r) ==
    /\ At(r, "confirm.clear")
    /\ pending' = [pending EXCEPT ![req[r].sid] = 0]
    /\ End(r)
    /\ UNCHANGED <<cfg, disk, sessions, elevated, salts, sets, seen, history>>

(* totpDisable. Logins under way have now seen TOTP switched off. *)
DisableSave(r) ==
    /\ At(r, "disable.save")
    /\ Save([cfg EXCEPT !.totp = 0, !.codes = {}])
    /\ req' = [q \in Reqs |-> IF q = r THEN Idle
                              ELSE IF req[q].pc \in {"login.otp", "login.create"}
                                THEN [req[q] EXCEPT !.cleared = TRUE]
                              ELSE req[q]]
    /\ UNCHANGED <<sessions, elevated, pending, salts, sets, seen, history>>

(* totpRegenerateRecovery, whether TOTP is on or not. *)
RegenSave(r) ==
    /\ At(r, "regen.save")
    /\ sets < MaxSets /\ sets' = sets + 1
    /\ Save([cfg EXCEPT !.codes = CodesOf(sets + 1)])
    /\ Install(sets + 1)
    /\ End(r)
    /\ UNCHANGED <<sessions, elevated, pending, salts, seen, used, epoch>>

----------------------------------------------------------------------------
(* Session management. *)

Logout(r) ==
    /\ At(r, "logout")
    /\ sessions' = [sessions EXCEPT ![req[r].sid] = NoSession]
    /\ End(r)
    /\ UNCHANGED <<cfg, disk, elevated, pending, salts, sets, seen, history>>

RevokeOthers(r) ==
    /\ At(r, "revoke")
    /\ KeepOnly(req[r].sid)
    /\ End(r)
    /\ UNCHANGED <<cfg, disk, elevated, pending, salts, sets, seen, history>>

(* The places at which a handler may still answer with an error: a wrong  *)
(* or missing second factor, a conflict, or a save that failed.           *)
Refusable == {"login.otp", "elevate.otp", "password.save", "account.save",
              "kdf.save", "confirm.save", "disable.save", "regen.save"}

Refuse(r) ==
    /\ req[r].pc \in Refusable
    /\ End(r)
    /\ UNCHANGED <<cfg, disk, sessions, elevated, pending, salts, sets, seen, history>>

----------------------------------------------------------------------------
(* Time and the process. *)

(* Store.Get and Store.Cleanup drop a session that is past its ExpiresAt. *)
SessionExpires(s) ==
    /\ s \in Live
    /\ sessions' = [sessions EXCEPT ![s] = NoSession]
    /\ UNCHANGED <<cfg, disk, elevated, pending, req, salts, sets, seen, history>>

ElevationExpires(s) ==
    /\ s \in elevated
    /\ elevated' = elevated \ {s}
    /\ UNCHANGED <<cfg, disk, sessions, pending, req, salts, sets, seen, history>>

PendingExpires(s) ==
    /\ pending[s] # 0
    /\ pending' = [pending EXCEPT ![s] = 0]
    /\ UNCHANGED <<cfg, disk, sessions, elevated, req, salts, sets, seen, history>>

(* The web process restarts: config.LoadOrCreate reads the file, every table *)
(* is empty and every request is gone.                                      *)
Restart ==
    /\ cfg' = disk
    /\ sessions' = [s \in Sids |-> NoSession]
    /\ elevated' = {}
    /\ pending' = [s \in Sids |-> 0]
    /\ req' = [r \in Reqs |-> Idle]
    /\ UNCHANGED <<disk, salts, sets, seen, history>>

Arrive(r) ==
    \/ LoginRead(r)
    \/ \E s \in Sids : ChangePasswordRead(r, s)
    \/ \E s \in Sids : ChangeAccountRead(r, s)
    \/ \E s \in Sids : ElevateRead(r, s)
    \/ \E s \in Sids : UpgradeKdfRead(r, s)
    \/ \E s \in Sids : LogoutAdmit(r, s)
    \/ \E s \in Sids : RevokeAdmit(r, s)
    \/ \E s \in Sids : SetupCheck(r, s)
    \/ \E s \in Sids : ConfirmRead(r, s)
    \/ \E s \in Sids : DisableAdmit(r, s)
    \/ \E s \in Sids : RegenAdmit(r, s)

Proceed(r) ==
    \/ LoginOtp(r) \/ LoginCreate(r)
    \/ ElevateTotp(r) \/ ElevateOtp(r) \/ ElevateGrant(r)
    \/ ChangePasswordSave(r) \/ ChangePasswordRevoke(r)
    \/ ChangeAccountSave(r) \/ ChangeAccountRevoke(r)
    \/ UpgradeKdfSave(r)
    \/ SetupStore(r) \/ ConfirmSave(r) \/ ConfirmClear(r)
    \/ DisableSave(r) \/ RegenSave(r)
    \/ Logout(r) \/ RevokeOthers(r) \/ Refuse(r)

Next ==
    \/ \E r \in Reqs : Arrive(r)
    \/ \E r \in Reqs : Proceed(r)
    \/ \E s \in Sids : SessionExpires(s) \/ ElevationExpires(s) \/ PendingExpires(s)
    \/ Restart

Spec == Init /\ [][Next]_vars

----------------------------------------------------------------------------
(* A recovery code is never accepted more often than its set was written   *)
(* to the configuration, and one that was is no longer in the file: no     *)
(* interleaving of logins, elevations, credential changes and restarts     *)
(* brings a spent code back (totp.go:183, "removed atomically").           *)
CodeSpentPerInstall ==
    \A c \in Codes :
        used[c] + (IF c \in disk.codes THEN 1 ELSE 0) <= installs[c[1]]

(* Every recovery code is good for one acceptance: what SECURITY.md:50     *)
(* calls a one-time recovery code.                                         *)
RecoveryCodeOnce == \A c \in Codes : used[c] <= 1

(* TOTP on from a login's first step to its last means that the login      *)
(* presented a valid second factor (docs/VERIFICATION.md:31).              *)
SecondFactorHeld == \A s \in Live : sessions[s].cleared

(* A password or account change reaches the sessions of the old            *)
(* credentials: one that outlives it was opened by a login that had        *)
(* already passed its password check when the change was saved, or is      *)
(* about to be removed by the change's last step (server.go:435, 497).     *)
OldSessionsExplained ==
    \A s \in Live :
        \/ sessions[s].epoch = epoch
        \/ sessions[s].late
        \/ \E r \in Reqs : req[r].pc \in {"password.revoke", "account.revoke"}

(* The stored password changes only when a password change is saved, and   *)
(* a migrated hash never falls back to the legacy KDF: a KDF upgrade that  *)
(* races a password change is refused (server.go:335), never applied.      *)
PasswordStep ==
    /\ cfg'.hash.pw # cfg.hash.pw => epoch' = epoch + 1
    /\ cfg.hash.kdf = "argon2id" => cfg'.hash.kdf = "argon2id"
PasswordOnlyByChange == [][PasswordStep]_vars
=============================================================================
