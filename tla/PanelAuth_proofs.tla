---------------------------- MODULE PanelAuth_proofs ----------------------------
(***************************************************************************)
(* Proofs about PanelAuth for every number of requests, sessions, users,   *)
(* passwords and recovery codes. The invariant AuthInv adds to the checked *)
(* properties what they rest on:                                           *)
(*   Synced   memory and file agree, so a spent code is spent in both;     *)
(*   Copied   what a handler copied out of a critical section is still     *)
(*            true, or can be told from what is in force by its salt;      *)
(*   Revoking an old session survives only while a change that will remove *)
(*            it has its last step ahead.                                  *)
(***************************************************************************)
EXTENDS PanelAuth, TLAPS

Synced == disk = cfg

Copied ==
    /\ cfg.hash.salt <= salts
    /\ \A r \in Reqs :
         /\ req[r].pc = "login.create" => req[r].cleared
         /\ req[r].pc = "confirm.save" => req[r].set # 0
         /\ req[r].pc \notin {"idle", "login.otp", "login.create"} => req[r].sid \in Sids
         /\ req[r].salt <= salts
         /\ req[r].pc = "kdf.save" /\ req[r].salt = cfg.hash.salt
              => req[r].pw = cfg.hash.pw

Revoking ==
    \A s \in Live :
        \/ sessions[s].epoch = epoch
        \/ sessions[s].late
        \/ \E r \in Reqs : /\ req[r].pc \in {"password.revoke", "account.revoke"}
                           /\ req[r].sid # s

AuthInv == TypeOK /\ Synced /\ Copied /\ CodeSpentPerInstall /\ SecondFactorHeld
             /\ Revoking

----------------------------------------------------------------------------
(* Building blocks have the right types. *)
LEMMA IdleTyped == Idle \in Request /\ NoSession \in Session
<1>1. AnyUser \in Users /\ AnyPassword \in Passwords
  BY AuthAssumption, Zenon DEF AnyUser, AnyPassword
<1> QED
  BY <1>1, AuthAssumption DEF Idle, NoSession, Request, Session, Places

LEMMA EndTyped ==
  ASSUME TypeOK, NEW r \in Reqs, End(r) PROVE req' \in [Reqs -> Request]
  BY IdleTyped DEF TypeOK, End

LEMMA GoTyped ==
  ASSUME TypeOK, NEW r \in Reqs, NEW place \in Places, Go(r, place)
  PROVE  req' \in [Reqs -> Request]
  BY DEF TypeOK, Go, Request

LEMMA AdmitTyped ==
  ASSUME TypeOK, NEW r \in Reqs, NEW s \in Sids, NEW place \in Places,
         Admit(r, s, place) \/ AdmitWithPassword(r, s, place)
  PROVE  TypeOK'
<1>1. req' \in [Reqs -> Request]
  <2>1. CASE Admit(r, s, place)
    BY <2>1, IdleTyped DEF Admit, TypeOK, Request
  <2>2. CASE AdmitWithPassword(r, s, place)
    BY <2>2, IdleTyped DEF AdmitWithPassword, TypeOK, Request, Configs, Hashes
  <2> QED
    BY <2>1, <2>2
<1> QED
  BY <1>1 DEF Admit, AdmitWithPassword, TypeOK, history

LEMMA CodesTyped == \A g : CodesOf(g) \subseteq Codes
  BY DEF CodesOf

(* Verifying a second factor leaves a configuration and a use count. *)
LEMMA OtpTyped ==
  ASSUME TypeOK, NEW otp \in Otps, secondFactorOk(otp), CountUse(otp)
  PROVE  afterSecondFactor(otp) \in Configs /\ used' \in [Codes -> Nat]
<1>1. ASSUME NEW c \in SUBSET Codes PROVE [cfg EXCEPT !.codes = c] \in Configs
  BY <1>1 DEF TypeOK, Configs
<1>2. cfg.codes \ {otp.code} \in SUBSET Codes
  BY DEF TypeOK, Configs
<1>3. [cfg EXCEPT !.codes = @ \ {otp.code}] \in Configs
  BY <1>1, <1>2
<1>4. afterSecondFactor(otp) \in Configs
  BY <1>3 DEF TypeOK, afterSecondFactor
<1>5. UsesCode(otp) => otp.code \in Codes
  BY DEF TypeOK, UsesCode, secondFactorOk, ConsumeRecoveryCode, Configs
<1>6. used' \in [Codes -> Nat]
  BY <1>5 DEF TypeOK, CountUse
<1> QED
  BY <1>4, <1>6

(* The change of epoch that goes with a credential change. *)
LEMMA EpochTyped ==
  ASSUME TypeOK, NEW s, NewEpoch(s)
  PROVE  sessions' \in [Sids -> Session] /\ epoch' \in 0..MaxEpoch
<1>1. epoch + 1 \in Nat /\ epoch' \in 0..MaxEpoch
  BY AuthAssumption DEF TypeOK, NewEpoch
<1>2. ASSUME NEW t \in Sids
      PROVE  [sessions[t] EXCEPT !.epoch = epoch + 1] \in Session
  BY <1>1, <1>2 DEF TypeOK, Session
<1>3. [sessions EXCEPT ![s].epoch = epoch + 1] \in [Sids -> Session]
  BY <1>2 DEF TypeOK
<1> QED
  BY <1>1, <1>3 DEF NewEpoch, TypeOK

LEMMA SaveTyped ==
  ASSUME NEW c \in Configs, Save(c) PROVE cfg' \in Configs /\ disk' \in Configs
  BY DEF Save

(* Types. *)
LEMMA NextTypeOK == TypeOK /\ Copied /\ [Next]_vars => TypeOK'
<1> SUFFICES ASSUME TypeOK /\ Copied, [Next]_vars PROVE TypeOK'
  OBVIOUS
<1> USE AuthAssumption
<1>1. ASSUME NEW r \in Reqs, LoginRead(r) PROVE TypeOK'
  <2>1. ASSUME NEW b \in BOOLEAN, NEW p \in {"login.otp", "login.create"}
        PROVE  [req EXCEPT ![r] = [Idle EXCEPT !.pc = p, !.user = cfg.user,
                  !.epoch = epoch, !.cleared = b]] \in [Reqs -> Request]
    <3>1. cfg.user \in Users /\ epoch \in Nat /\ p \in Places
      BY <2>1 DEF TypeOK, Configs, Places
    <3>2. [Idle EXCEPT !.pc = p, !.user = cfg.user, !.epoch = epoch,
                       !.cleared = b] \in Request
      BY <3>1, IdleTyped DEF Request
    <3> QED
      BY <3>2 DEF TypeOK
  <2>2. (cfg.totp = 0) \in BOOLEAN
    OBVIOUS
  <2>3. (IF cfg.totp # 0 THEN "login.otp" ELSE "login.create") \in {"login.otp", "login.create"}
    OBVIOUS
  <2>4. req' \in [Reqs -> Request]
    BY <1>1, <2>1, <2>2, <2>3, Zenon DEF LoginRead
  <2> QED
    BY <1>1, <2>4 DEF LoginRead, TypeOK, history
<1>2. ASSUME NEW r \in Reqs, NEW s \in Sids, ChangePasswordRead(r, s)
      PROVE  TypeOK'
  BY <1>2, AdmitTyped DEF ChangePasswordRead, Places
<1>3. ASSUME NEW r \in Reqs, NEW s \in Sids, ChangeAccountRead(r, s)
      PROVE  TypeOK'
  BY <1>3, AdmitTyped DEF ChangeAccountRead, Places
<1>4. ASSUME NEW r \in Reqs, NEW s \in Sids, ElevateRead(r, s) PROVE TypeOK'
  BY <1>4, AdmitTyped DEF ElevateRead, Places
<1>5. ASSUME NEW r \in Reqs, NEW s \in Sids, UpgradeKdfRead(r, s) PROVE TypeOK'
  BY <1>5, AdmitTyped DEF UpgradeKdfRead, Places
<1>6. ASSUME NEW r \in Reqs, NEW s \in Sids, LogoutAdmit(r, s) PROVE TypeOK'
  BY <1>6, AdmitTyped DEF LogoutAdmit, Places
<1>7. ASSUME NEW r \in Reqs, NEW s \in Sids, RevokeAdmit(r, s) PROVE TypeOK'
  BY <1>7, AdmitTyped DEF RevokeAdmit, Places
<1>8. ASSUME NEW r \in Reqs, NEW s \in Sids, SetupCheck(r, s) PROVE TypeOK'
  BY <1>8, AdmitTyped DEF SetupCheck, Places
<1>9. ASSUME NEW r \in Reqs, NEW s \in Sids, ConfirmRead(r, s) PROVE TypeOK'
  <2>1. req' \in [Reqs -> Request]
    BY <1>9, IdleTyped DEF ConfirmRead, TypeOK, Request, Places
  <2> QED
    BY <1>9, <2>1 DEF ConfirmRead, TypeOK, history
<1>10. ASSUME NEW r \in Reqs, NEW s \in Sids, DisableAdmit(r, s) PROVE TypeOK'
  BY <1>10, AdmitTyped DEF DisableAdmit, Places
<1>11. ASSUME NEW r \in Reqs, NEW s \in Sids, RegenAdmit(r, s) PROVE TypeOK'
  BY <1>11, AdmitTyped DEF RegenAdmit, Places
<1>12. ASSUME NEW r \in Reqs, LoginOtp(r) PROVE TypeOK'
  <2>1. PICK otp \in Otps : /\ secondFactorOk(otp) /\ CountUse(otp)
                       /\ Save(afterSecondFactor(otp))
    BY <1>12 DEF LoginOtp
  <2>2. afterSecondFactor(otp) \in Configs /\ used' \in [Codes -> Nat]
    BY <2>1, OtpTyped
  <2>3. cfg' \in Configs /\ disk' \in Configs
    BY <2>1, <2>2, SaveTyped
  <2>4. req' \in [Reqs -> Request]
    <3>1. [req[r] EXCEPT !.pc = "login.create", !.cleared = TRUE] \in Request
      <4>1. req[r] \in Request
        BY DEF TypeOK
      <4>2. "login.create" \in Places
        BY DEF Places
      <4> QED BY <4>1, <4>2 DEF Request
    <3>2. req' = [req EXCEPT ![r] = [req[r] EXCEPT !.pc = "login.create", !.cleared = TRUE]]
      BY <1>12 DEF LoginOtp, TypeOK
    <3> QED
      BY <3>1, <3>2 DEF TypeOK
  <2> QED
    BY <1>12, <2>2, <2>3, <2>4 DEF LoginOtp, TypeOK, history
<1>13. ASSUME NEW r \in Reqs, LoginCreate(r) PROVE TypeOK'
  <2>1. PICK s \in Sids : /\ seen' = seen \cup {s}
                         /\ sessions' = [sessions EXCEPT ![s] =
                              [live |-> TRUE, user |-> req[r].user,
                               epoch |-> req[r].epoch,
                               late |-> req[r].epoch # epoch,
                               cleared |-> req[r].cleared]]
    BY <1>13 DEF LoginCreate
  <2>2. ASSUME NEW b \in BOOLEAN
        PROVE  [sessions EXCEPT ![s] =
                  [live |-> TRUE, user |-> req[r].user, epoch |-> req[r].epoch,
                   late |-> b, cleared |-> req[r].cleared]] \in [Sids -> Session]
    BY <2>2 DEF TypeOK, Session, Request
  <2>3. (req[r].epoch # epoch) \in BOOLEAN
    OBVIOUS
  <2>4. sessions' \in [Sids -> Session]
    BY <2>1, <2>2, <2>3, Zenon
  <2>5. seen' \subseteq Sids
    BY <2>1 DEF TypeOK
  <2>6. req' \in [Reqs -> Request]
    BY <1>13, EndTyped DEF LoginCreate
  <2> QED
    BY <1>13, <2>4, <2>5, <2>6 DEF LoginCreate, TypeOK
<1>14. ASSUME NEW r \in Reqs, ElevateTotp(r) PROVE TypeOK'
  <2>1. req' \in [Reqs -> Request]
    BY <1>14, GoTyped DEF ElevateTotp, Places
  <2> QED
    BY <1>14, <2>1 DEF ElevateTotp, TypeOK, history
<1>15. ASSUME NEW r \in Reqs, ElevateOtp(r) PROVE TypeOK'
  <2>1. PICK otp \in Otps : /\ secondFactorOk(otp) /\ CountUse(otp)
                       /\ Save(afterSecondFactor(otp))
    BY <1>15 DEF ElevateOtp
  <2>2. afterSecondFactor(otp) \in Configs /\ used' \in [Codes -> Nat]
    BY <2>1, OtpTyped
  <2>3. cfg' \in Configs /\ disk' \in Configs
    BY <2>1, <2>2, SaveTyped
  <2>4. req' \in [Reqs -> Request]
    BY <1>15, GoTyped DEF ElevateOtp, Places
  <2> QED
    BY <1>15, <2>2, <2>3, <2>4 DEF ElevateOtp, TypeOK, history
<1>16. ASSUME NEW r \in Reqs, ElevateGrant(r) PROVE TypeOK'
  <2>1. req' \in [Reqs -> Request]
    BY <1>16, EndTyped DEF ElevateGrant
  <2>2. elevated' \subseteq Sids
    BY <1>16 DEF ElevateGrant, At, TypeOK, Copied
  <2> QED
    BY <1>16, <2>1, <2>2 DEF ElevateGrant, TypeOK, history
<1>17. ASSUME NEW r \in Reqs, ChangePasswordSave(r) PROVE TypeOK'
  <2>1. PICK otp \in Otps, new \in Passwords :
          /\ secondFactorOk(otp) /\ CountUse(otp)
          /\ Save([afterSecondFactor(otp) EXCEPT
                     !.hash = [pw |-> new, kdf |-> "argon2id", salt |-> salts + 1]])
    BY <1>17 DEF ChangePasswordSave
  <2>2. afterSecondFactor(otp) \in Configs /\ used' \in [Codes -> Nat]
    BY <2>1, OtpTyped
  <2>3. salts' \in 0..MaxHash /\ salts + 1 \in 0..MaxHash
    BY <1>17 DEF ChangePasswordSave, TypeOK
  <2>4. cfg' \in Configs /\ disk' \in Configs
    BY <2>1, <2>2, <2>3 DEF Save, Configs, Hashes
  <2>5. sessions' \in [Sids -> Session] /\ epoch' \in 0..MaxEpoch
    BY <1>17, EpochTyped DEF ChangePasswordSave
  <2>6. req' \in [Reqs -> Request]
    BY <1>17, GoTyped DEF ChangePasswordSave, Places
  <2> QED
    BY <1>17, <2>2, <2>3, <2>4, <2>5, <2>6 DEF ChangePasswordSave, TypeOK
<1>18. ASSUME NEW r \in Reqs, ChangePasswordRevoke(r) PROVE TypeOK'
  <2>1. req' \in [Reqs -> Request]
    BY <1>18, EndTyped DEF ChangePasswordRevoke
  <2>2. sessions' \in [Sids -> Session]
    BY <1>18, IdleTyped DEF ChangePasswordRevoke, KeepOnly, TypeOK
  <2> QED
    BY <1>18, <2>1, <2>2 DEF ChangePasswordRevoke, TypeOK, history
<1>19. ASSUME NEW r \in Reqs, ChangeAccountSave(r) PROVE TypeOK'
  <2>1. PICK otp \in Otps, name \in Users \ {req[r].user} :
          /\ secondFactorOk(otp) /\ CountUse(otp)
          /\ Save([afterSecondFactor(otp) EXCEPT !.user = name])
          /\ req' = [req EXCEPT ![r].pc = "account.revoke", ![r].user = name]
    BY <1>19 DEF ChangeAccountSave
  <2>2. afterSecondFactor(otp) \in Configs /\ used' \in [Codes -> Nat]
    BY <2>1, OtpTyped
  <2>3. cfg' \in Configs /\ disk' \in Configs
    BY <2>1, <2>2 DEF Save, Configs
  <2>4. req' \in [Reqs -> Request]
    BY <2>1 DEF TypeOK, Request, Places
  <2>5. sessions' \in [Sids -> Session] /\ epoch' \in 0..MaxEpoch
    BY <1>19, EpochTyped DEF ChangeAccountSave
  <2> QED
    BY <1>19, <2>2, <2>3, <2>4, <2>5 DEF ChangeAccountSave, TypeOK
<1>20. ASSUME NEW r \in Reqs, ChangeAccountRevoke(r) PROVE TypeOK'
  <2>1. req' \in [Reqs -> Request]
    BY <1>20, EndTyped DEF ChangeAccountRevoke
  <2>2. sessions' \in [Sids -> Session]
    BY <1>20, IdleTyped DEF ChangeAccountRevoke, TypeOK, Session, Request
  <2> QED
    BY <1>20, <2>1, <2>2 DEF ChangeAccountRevoke, TypeOK, history
<1>21. ASSUME NEW r \in Reqs, UpgradeKdfSave(r) PROVE TypeOK'
  <2>1. req' \in [Reqs -> Request]
    BY <1>21, EndTyped DEF UpgradeKdfSave
  <2>2. salts' \in 0..MaxHash /\ salts + 1 \in 0..MaxHash
    BY <1>21 DEF UpgradeKdfSave, TypeOK
  <2>3. cfg' \in Configs /\ disk' \in Configs
    BY <1>21, <2>2 DEF UpgradeKdfSave, Save, TypeOK, Configs, Hashes, Request
  <2> QED
    BY <1>21, <2>1, <2>2, <2>3 DEF UpgradeKdfSave, TypeOK, history
<1>22. ASSUME NEW r \in Reqs, SetupStore(r) PROVE TypeOK'
  <2>1. req' \in [Reqs -> Request]
    BY <1>22, EndTyped DEF SetupStore
  <2>2. sets' \in 0..MaxSets /\ sets + 1 \in 0..MaxSets
    BY <1>22 DEF SetupStore, TypeOK
  <2>3. pending' \in [Sids -> 0..MaxSets]
    BY <1>22, <2>2 DEF SetupStore, TypeOK
  <2> QED
    BY <1>22, <2>1, <2>2, <2>3 DEF SetupStore, TypeOK, history
<1>23. ASSUME NEW r \in Reqs, ConfirmSave(r) PROVE TypeOK'
  <2>1. req' \in [Reqs -> Request]
    BY <1>23, GoTyped DEF ConfirmSave, Places
  <2>2. cfg' \in Configs /\ disk' \in Configs
    BY <1>23, CodesTyped DEF ConfirmSave, Save, TypeOK, Configs, Request
  <2>3. installs' \in [1..MaxSets -> Nat]
    <3>1. req[r].set \in 1..MaxSets
      BY <1>23 DEF ConfirmSave, At, Copied, TypeOK, Request
    <3> QED
      BY <1>23, <3>1 DEF ConfirmSave, Install, TypeOK
  <2> QED
    BY <1>23, <2>1, <2>2, <2>3 DEF ConfirmSave, TypeOK
<1>24. ASSUME NEW r \in Reqs, ConfirmClear(r) PROVE TypeOK'
  <2>1. req' \in [Reqs -> Request]
    BY <1>24, EndTyped DEF ConfirmClear
  <2>2. pending' \in [Sids -> 0..MaxSets]
    <3>1. 0 \in 0..MaxSets
      OBVIOUS
    <3> QED
      BY <1>24, <3>1 DEF ConfirmClear, TypeOK
  <2> QED
    BY <1>24, <2>1, <2>2 DEF ConfirmClear, TypeOK, history
<1>25. ASSUME NEW r \in Reqs, DisableSave(r) PROVE TypeOK'
  <2>1. req' \in [Reqs -> Request]
    BY <1>25, IdleTyped DEF DisableSave, TypeOK, Request
  <2>2. cfg' \in Configs /\ disk' \in Configs
    <3>1. [cfg EXCEPT !.totp = 0, !.codes = {}] \in Configs
      <4>1. 0 \in 0..MaxSets /\ {} \in SUBSET Codes
        OBVIOUS
      <4> QED
        BY <4>1 DEF TypeOK, Configs
    <3> QED
      BY <1>25, <3>1 DEF DisableSave, Save
  <2> QED
    BY <1>25, <2>1, <2>2 DEF DisableSave, TypeOK, history
<1>26. ASSUME NEW r \in Reqs, RegenSave(r) PROVE TypeOK'
  <2>1. req' \in [Reqs -> Request]
    BY <1>26, EndTyped DEF RegenSave
  <2>2. sets' \in 0..MaxSets
    BY <1>26 DEF RegenSave, TypeOK
  <2>3. cfg' \in Configs /\ disk' \in Configs
    BY <1>26, CodesTyped DEF RegenSave, Save, TypeOK, Configs
  <2>4. installs' \in [1..MaxSets -> Nat]
    BY <1>26 DEF RegenSave, Install, TypeOK
  <2> QED
    BY <1>26, <2>1, <2>2, <2>3, <2>4 DEF RegenSave, TypeOK
<1>27. ASSUME NEW r \in Reqs, Logout(r) PROVE TypeOK'
  <2>1. req' \in [Reqs -> Request]
    BY <1>27, EndTyped DEF Logout
  <2>2. sessions' \in [Sids -> Session]
    BY <1>27, IdleTyped DEF Logout, TypeOK
  <2> QED
    BY <1>27, <2>1, <2>2 DEF Logout, TypeOK, history
<1>28. ASSUME NEW r \in Reqs, RevokeOthers(r) PROVE TypeOK'
  <2>1. req' \in [Reqs -> Request]
    BY <1>28, EndTyped DEF RevokeOthers
  <2>2. sessions' \in [Sids -> Session]
    BY <1>28, IdleTyped DEF RevokeOthers, KeepOnly, TypeOK
  <2> QED
    BY <1>28, <2>1, <2>2 DEF RevokeOthers, TypeOK, history
<1>29. ASSUME NEW r \in Reqs, Refuse(r) PROVE TypeOK'
  <2>1. req' \in [Reqs -> Request]
    BY <1>29, EndTyped DEF Refuse
  <2> QED
    BY <1>29, <2>1 DEF Refuse, TypeOK, history
<1>30. ASSUME NEW s \in Sids, SessionExpires(s) PROVE TypeOK'
  BY <1>30, IdleTyped DEF SessionExpires, TypeOK, history
<1>31. ASSUME NEW s \in Sids, ElevationExpires(s) PROVE TypeOK'
  BY <1>31 DEF ElevationExpires, TypeOK, history
<1>32. ASSUME NEW s \in Sids, PendingExpires(s) PROVE TypeOK'
  BY <1>32 DEF PendingExpires, TypeOK, history
<1>33. CASE Restart
  BY <1>33, IdleTyped DEF Restart, TypeOK, history
<1>34. CASE UNCHANGED vars
  BY <1>34 DEF vars, TypeOK
<1> QED
  BY <1>1, <1>2, <1>3, <1>4, <1>5, <1>6, <1>7, <1>8, <1>9, <1>10, <1>11,
     <1>12, <1>13, <1>14, <1>15, <1>16, <1>17, <1>18, <1>19, <1>20, <1>21,
     <1>22, <1>23, <1>24, <1>25, <1>26, <1>27, <1>28, <1>29, <1>30, <1>31,
     <1>32, <1>33, <1>34 DEF Next, Arrive, Proceed

LEMMA OtpKeeps ==
  ASSUME TypeOK, NEW otp \in Otps
  PROVE  /\ afterSecondFactor(otp).hash = cfg.hash
         /\ afterSecondFactor(otp).codes \subseteq cfg.codes
         /\ UsesCode(otp) => otp.code \notin afterSecondFactor(otp).codes
  BY DEF TypeOK, afterSecondFactor, Configs

(* Every save writes the file first and then memory, in one section. *)
LEMMA NextSynced == Synced /\ [Next]_vars => Synced'
<1> SUFFICES ASSUME Synced, [Next]_vars PROVE Synced'
  OBVIOUS
<1>1. ASSUME NEW r \in Reqs, LoginRead(r) PROVE Synced'
  BY <1>1 DEF LoginRead, Synced
<1>2. ASSUME NEW r \in Reqs, NEW s \in Sids, ChangePasswordRead(r, s)
      PROVE  Synced'
  BY <1>2 DEF ChangePasswordRead, AdmitWithPassword, Synced
<1>3. ASSUME NEW r \in Reqs, NEW s \in Sids, ChangeAccountRead(r, s)
      PROVE  Synced'
  BY <1>3 DEF ChangeAccountRead, AdmitWithPassword, Synced
<1>4. ASSUME NEW r \in Reqs, NEW s \in Sids, ElevateRead(r, s) PROVE Synced'
  BY <1>4 DEF ElevateRead, AdmitWithPassword, Synced
<1>5. ASSUME NEW r \in Reqs, NEW s \in Sids, UpgradeKdfRead(r, s) PROVE Synced'
  BY <1>5 DEF UpgradeKdfRead, AdmitWithPassword, Synced
<1>6. ASSUME NEW r \in Reqs, NEW s \in Sids, LogoutAdmit(r, s) PROVE Synced'
  BY <1>6 DEF LogoutAdmit, Admit, Synced
<1>7. ASSUME NEW r \in Reqs, NEW s \in Sids, RevokeAdmit(r, s) PROVE Synced'
  BY <1>7 DEF RevokeAdmit, Admit, Synced
<1>8. ASSUME NEW r \in Reqs, NEW s \in Sids, SetupCheck(r, s) PROVE Synced'
  BY <1>8 DEF SetupCheck, Admit, Synced
<1>9. ASSUME NEW r \in Reqs, NEW s \in Sids, ConfirmRead(r, s) PROVE Synced'
  BY <1>9 DEF ConfirmRead, Synced
<1>10. ASSUME NEW r \in Reqs, NEW s \in Sids, DisableAdmit(r, s) PROVE Synced'
  BY <1>10 DEF DisableAdmit, Admit, Synced
<1>11. ASSUME NEW r \in Reqs, NEW s \in Sids, RegenAdmit(r, s) PROVE Synced'
  BY <1>11 DEF RegenAdmit, Admit, Synced
<1>12. ASSUME NEW r \in Reqs, LoginOtp(r) PROVE Synced'
  BY <1>12 DEF LoginOtp, Save, Synced
<1>13. ASSUME NEW r \in Reqs, LoginCreate(r) PROVE Synced'
  BY <1>13 DEF LoginCreate, Synced
<1>14. ASSUME NEW r \in Reqs, ElevateTotp(r) PROVE Synced'
  BY <1>14 DEF ElevateTotp, Synced
<1>15. ASSUME NEW r \in Reqs, ElevateOtp(r) PROVE Synced'
  BY <1>15 DEF ElevateOtp, Save, Synced
<1>16. ASSUME NEW r \in Reqs, ElevateGrant(r) PROVE Synced'
  BY <1>16 DEF ElevateGrant, Synced
<1>17. ASSUME NEW r \in Reqs, ChangePasswordSave(r) PROVE Synced'
  BY <1>17 DEF ChangePasswordSave, Save, Synced
<1>18. ASSUME NEW r \in Reqs, ChangePasswordRevoke(r) PROVE Synced'
  BY <1>18 DEF ChangePasswordRevoke, Synced
<1>19. ASSUME NEW r \in Reqs, ChangeAccountSave(r) PROVE Synced'
  BY <1>19 DEF ChangeAccountSave, Save, Synced
<1>20. ASSUME NEW r \in Reqs, ChangeAccountRevoke(r) PROVE Synced'
  BY <1>20 DEF ChangeAccountRevoke, Synced
<1>21. ASSUME NEW r \in Reqs, UpgradeKdfSave(r) PROVE Synced'
  BY <1>21 DEF UpgradeKdfSave, Save, Synced
<1>22. ASSUME NEW r \in Reqs, SetupStore(r) PROVE Synced'
  BY <1>22 DEF SetupStore, Synced
<1>23. ASSUME NEW r \in Reqs, ConfirmSave(r) PROVE Synced'
  BY <1>23 DEF ConfirmSave, Save, Synced
<1>24. ASSUME NEW r \in Reqs, ConfirmClear(r) PROVE Synced'
  BY <1>24 DEF ConfirmClear, Synced
<1>25. ASSUME NEW r \in Reqs, DisableSave(r) PROVE Synced'
  BY <1>25 DEF DisableSave, Save, Synced
<1>26. ASSUME NEW r \in Reqs, RegenSave(r) PROVE Synced'
  BY <1>26 DEF RegenSave, Save, Synced
<1>27. ASSUME NEW r \in Reqs, Logout(r) PROVE Synced'
  BY <1>27 DEF Logout, Synced
<1>28. ASSUME NEW r \in Reqs, RevokeOthers(r) PROVE Synced'
  BY <1>28 DEF RevokeOthers, Synced
<1>29. ASSUME NEW r \in Reqs, Refuse(r) PROVE Synced'
  BY <1>29 DEF Refuse, Synced
<1>30. ASSUME NEW s \in Sids, SessionExpires(s) PROVE Synced'
  BY <1>30 DEF SessionExpires, Synced
<1>31. ASSUME NEW s \in Sids, ElevationExpires(s) PROVE Synced'
  BY <1>31 DEF ElevationExpires, Synced
<1>32. ASSUME NEW s \in Sids, PendingExpires(s) PROVE Synced'
  BY <1>32 DEF PendingExpires, Synced
<1>33. CASE Restart
  BY <1>33 DEF Restart, Synced
<1>34. CASE UNCHANGED vars
  BY <1>34 DEF vars, Synced
<1> QED
  BY <1>1, <1>2, <1>3, <1>4, <1>5, <1>6, <1>7, <1>8, <1>9, <1>10, <1>11,
     <1>12, <1>13, <1>14, <1>15, <1>16, <1>17, <1>18, <1>19, <1>20, <1>21,
     <1>22, <1>23, <1>24, <1>25, <1>26, <1>27, <1>28, <1>29, <1>30, <1>31,
     <1>32, <1>33, <1>34 DEF Next, Arrive, Proceed

(* A copy of the password hash that is out of date has another salt. *)
LEMMA NextCopied == TypeOK /\ Synced /\ Copied /\ [Next]_vars => Copied'
<1> SUFFICES ASSUME TypeOK /\ Synced /\ Copied, [Next]_vars PROVE Copied'
  OBVIOUS
<1> USE AuthAssumption
<1>1. ASSUME NEW r \in Reqs, LoginRead(r) PROVE Copied'
  <2>1. CASE cfg.totp # 0
    BY <1>1, <2>1 DEF LoginRead, Idle, Copied, TypeOK, Request
  <2>2. CASE cfg.totp = 0
    <3>1. (cfg.totp = 0) = TRUE
      BY <2>2
    <3>2. req' = [req EXCEPT ![r] = [Idle EXCEPT !.pc = "login.create",
                   !.user = cfg.user, !.epoch = epoch, !.cleared = TRUE]]
      BY <1>1, <2>2, <3>1, Zenon DEF LoginRead
    <3>3. /\ req'[r].cleared /\ req'[r].pc = "login.create" /\ req'[r].salt = 0
          /\ \A x \in Reqs \ {r} : req'[x] = req[x]
      BY <3>2, IdleTyped DEF TypeOK, Idle
    <3>4. UNCHANGED <<cfg, salts>> /\ salts \in Nat
      BY <1>1 DEF LoginRead, TypeOK
    <3> QED
      BY <3>3, <3>4 DEF Copied
  <2> QED
    BY <2>1, <2>2
<1>2. ASSUME NEW r \in Reqs, NEW s \in Sids, ChangePasswordRead(r, s)
      PROVE  Copied'
  BY <1>2 DEF ChangePasswordRead, AdmitWithPassword, At, Idle, Copied, TypeOK,
     Request
<1>3. ASSUME NEW r \in Reqs, NEW s \in Sids, ChangeAccountRead(r, s)
      PROVE  Copied'
  BY <1>3 DEF ChangeAccountRead, AdmitWithPassword, At, Idle, Copied, TypeOK,
     Request
<1>4. ASSUME NEW r \in Reqs, NEW s \in Sids, ElevateRead(r, s) PROVE Copied'
  BY <1>4 DEF ElevateRead, AdmitWithPassword, At, Idle, Copied, TypeOK, Request
<1>5. ASSUME NEW r \in Reqs, NEW s \in Sids, UpgradeKdfRead(r, s) PROVE Copied'
  BY <1>5 DEF UpgradeKdfRead, AdmitWithPassword, At, Idle, Copied, TypeOK,
     Request
<1>6. ASSUME NEW r \in Reqs, NEW s \in Sids, LogoutAdmit(r, s) PROVE Copied'
  BY <1>6 DEF LogoutAdmit, Admit, At, Idle, Copied, TypeOK, Request
<1>7. ASSUME NEW r \in Reqs, NEW s \in Sids, RevokeAdmit(r, s) PROVE Copied'
  BY <1>7 DEF RevokeAdmit, Admit, At, Idle, Copied, TypeOK, Request
<1>8. ASSUME NEW r \in Reqs, NEW s \in Sids, SetupCheck(r, s) PROVE Copied'
  BY <1>8 DEF SetupCheck, Admit, At, Idle, Copied, TypeOK, Request
<1>9. ASSUME NEW r \in Reqs, NEW s \in Sids, ConfirmRead(r, s) PROVE Copied'
  BY <1>9 DEF ConfirmRead, At, Idle, Copied, TypeOK, Request
<1>10. ASSUME NEW r \in Reqs, NEW s \in Sids, DisableAdmit(r, s) PROVE Copied'
  BY <1>10 DEF DisableAdmit, Admit, At, Idle, Copied, TypeOK, Request
<1>11. ASSUME NEW r \in Reqs, NEW s \in Sids, RegenAdmit(r, s) PROVE Copied'
  BY <1>11 DEF RegenAdmit, Admit, At, Idle, Copied, TypeOK, Request
<1>12. ASSUME NEW r \in Reqs, LoginOtp(r) PROVE Copied'
  <2>1. cfg'.hash = cfg.hash /\ UNCHANGED salts
    BY <1>12, OtpKeeps DEF LoginOtp, Save
  <2> QED
    BY <1>12, <2>1 DEF LoginOtp, At, Go, Copied, TypeOK, Request
<1>13. ASSUME NEW r \in Reqs, LoginCreate(r) PROVE Copied'
  BY <1>13, IdleTyped DEF LoginCreate, End, Save, At, Idle, Copied, TypeOK,
     Request
<1>14. ASSUME NEW r \in Reqs, ElevateTotp(r) PROVE Copied'
  BY <1>14 DEF ElevateTotp, At, Go, Idle, Copied, TypeOK, Request
<1>15. ASSUME NEW r \in Reqs, ElevateOtp(r) PROVE Copied'
  <2>1. cfg'.hash = cfg.hash /\ UNCHANGED salts
    BY <1>15, OtpKeeps DEF ElevateOtp, Save
  <2> QED
    BY <1>15, <2>1 DEF ElevateOtp, At, Go, Copied, TypeOK, Request
<1>16. ASSUME NEW r \in Reqs, ElevateGrant(r) PROVE Copied'
  BY <1>16, IdleTyped DEF ElevateGrant, End, Save, At, Idle, Copied, TypeOK,
     Request
<1>17. ASSUME NEW r \in Reqs, ChangePasswordSave(r) PROVE Copied'
  <2>1. cfg'.hash.salt = salts + 1 /\ salts' = salts + 1
    BY <1>17, OtpTyped DEF ChangePasswordSave, Save, Configs
  <2> QED
    BY <1>17, <2>1 DEF ChangePasswordSave, At, Go, Copied, TypeOK, Request
<1>18. ASSUME NEW r \in Reqs, ChangePasswordRevoke(r) PROVE Copied'
  BY <1>18, IdleTyped DEF ChangePasswordRevoke, End, Save, At, Idle, Copied,
     TypeOK, Request
<1>19. ASSUME NEW r \in Reqs, ChangeAccountSave(r) PROVE Copied'
  <2>1. cfg'.hash = cfg.hash /\ UNCHANGED salts
    BY <1>19, OtpKeeps, OtpTyped DEF ChangeAccountSave, Save, Configs
  <2> QED
    BY <1>19, <2>1 DEF ChangeAccountSave, At, Copied, TypeOK, Request
<1>20. ASSUME NEW r \in Reqs, ChangeAccountRevoke(r) PROVE Copied'
  BY <1>20, IdleTyped DEF ChangeAccountRevoke, End, Save, At, Idle, Copied,
     TypeOK, Request
<1>21. ASSUME NEW r \in Reqs, UpgradeKdfSave(r) PROVE Copied'
  <2>1. cfg'.hash.salt = salts + 1 /\ salts' = salts + 1
    BY <1>21 DEF UpgradeKdfSave, Save, TypeOK, Configs
  <2> QED
    BY <1>21, <2>1 DEF UpgradeKdfSave, End, Idle, Copied, TypeOK, Request
<1>22. ASSUME NEW r \in Reqs, SetupStore(r) PROVE Copied'
  BY <1>22, IdleTyped DEF SetupStore, End, Save, At, Idle, Copied, TypeOK,
     Request
<1>23. ASSUME NEW r \in Reqs, ConfirmSave(r) PROVE Copied'
  <2>1. cfg'.hash = cfg.hash /\ UNCHANGED salts
    BY <1>23 DEF ConfirmSave, Save, TypeOK, Configs
  <2> QED
    BY <1>23, <2>1 DEF ConfirmSave, At, Go, Copied, TypeOK, Request
<1>24. ASSUME NEW r \in Reqs, ConfirmClear(r) PROVE Copied'
  BY <1>24, IdleTyped DEF ConfirmClear, End, Save, At, Idle, Copied, TypeOK,
     Request
<1>25. ASSUME NEW r \in Reqs, DisableSave(r) PROVE Copied'
  <2>1. cfg'.hash = cfg.hash /\ UNCHANGED salts
    BY <1>25 DEF DisableSave, Save, TypeOK, Configs
  <2> QED
    BY <1>25, <2>1 DEF DisableSave, At, Idle, Copied, TypeOK, Request
<1>26. ASSUME NEW r \in Reqs, RegenSave(r) PROVE Copied'
  <2>1. cfg'.hash = cfg.hash /\ UNCHANGED salts
    BY <1>26 DEF RegenSave, Save, TypeOK, Configs
  <2> QED
    BY <1>26, <2>1 DEF RegenSave, End, Idle, Copied, TypeOK, Request
<1>27. ASSUME NEW r \in Reqs, Logout(r) PROVE Copied'
  BY <1>27, IdleTyped DEF Logout, End, Save, At, Idle, Copied, TypeOK, Request
<1>28. ASSUME NEW r \in Reqs, RevokeOthers(r) PROVE Copied'
  BY <1>28, IdleTyped DEF RevokeOthers, End, Save, At, Idle, Copied, TypeOK,
     Request
<1>29. ASSUME NEW r \in Reqs, Refuse(r) PROVE Copied'
  BY <1>29, IdleTyped DEF Refuse, End, Save, At, Idle, Copied, TypeOK, Request
<1>30. ASSUME NEW s \in Sids, SessionExpires(s) PROVE Copied'
  BY <1>30 DEF SessionExpires, Copied
<1>31. ASSUME NEW s \in Sids, ElevationExpires(s) PROVE Copied'
  BY <1>31 DEF ElevationExpires, Copied
<1>32. ASSUME NEW s \in Sids, PendingExpires(s) PROVE Copied'
  BY <1>32 DEF PendingExpires, Copied
<1>33. CASE Restart
  BY <1>33 DEF Restart, Idle, Synced, Copied, TypeOK, Request
<1>34. CASE UNCHANGED vars
  BY <1>34 DEF vars, Copied
<1> QED
  BY <1>1, <1>2, <1>3, <1>4, <1>5, <1>6, <1>7, <1>8, <1>9, <1>10, <1>11,
     <1>12, <1>13, <1>14, <1>15, <1>16, <1>17, <1>18, <1>19, <1>20, <1>21,
     <1>22, <1>23, <1>24, <1>25, <1>26, <1>27, <1>28, <1>29, <1>30, <1>31,
     <1>32, <1>33, <1>34 DEF Next, Arrive, Proceed

(* One verification of a second factor: the code that is counted was in    *)
(* the file and leaves it, the others stay or go.                          *)
LEMMA OtpSpends ==
  ASSUME TypeOK, Synced, CodeSpentPerInstall, NEW otp \in Otps,
         secondFactorOk(otp), CountUse(otp),
         disk'.codes = afterSecondFactor(otp).codes, installs' = installs
  PROVE  CodeSpentPerInstall'
<1> SUFFICES ASSUME NEW c \in Codes
             PROVE  used'[c] + (IF c \in disk'.codes THEN 1 ELSE 0) <= installs'[c[1]]
  BY DEF CodeSpentPerInstall
<1>1. /\ used[c] \in Nat /\ installs[c[1]] \in Nat
      /\ used[c] + (IF c \in disk.codes THEN 1 ELSE 0) <= installs[c[1]]
  BY DEF CodeSpentPerInstall, TypeOK, Codes
<1>2. CASE UsesCode(otp) /\ c = otp.code
  <2>1. c \in disk.codes
    BY <1>2 DEF secondFactorOk, UsesCode, ConsumeRecoveryCode, Synced
  <2>2. c \notin disk'.codes
    BY <1>2, OtpKeeps
  <2>3. used'[c] = used[c] + 1
    BY <1>2 DEF CountUse, TypeOK
  <2> QED
    BY <1>1, <2>1, <2>2, <2>3
<1>3. CASE ~(UsesCode(otp) /\ c = otp.code)
  <2>1. used'[c] = used[c]
    BY <1>3 DEF CountUse, TypeOK
  <2>2. c \in disk'.codes => c \in disk.codes
    BY OtpKeeps DEF Synced
  <2> QED
    BY <1>1, <2>1, <2>2
<1> QED
  BY <1>2, <1>3

(* Writing set g to the configuration allows each of its codes once more. *)
LEMMA InstallAllows ==
  ASSUME TypeOK, CodeSpentPerInstall, NEW g \in 1..MaxSets, Install(g),
         disk'.codes = CodesOf(g), used' = used
  PROVE  CodeSpentPerInstall'
<1> SUFFICES ASSUME NEW c \in Codes
             PROVE  used[c] + (IF c \in CodesOf(g) THEN 1 ELSE 0) <= installs'[c[1]]
  BY DEF CodeSpentPerInstall
<1>1. /\ used[c] \in Nat /\ installs[c[1]] \in Nat /\ used[c] <= installs[c[1]]
  <2>1. used[c] \in Nat /\ installs[c[1]] \in Nat
    BY DEF TypeOK, Codes
  <2>2. used[c] + (IF c \in disk.codes THEN 1 ELSE 0) <= installs[c[1]]
    BY DEF CodeSpentPerInstall
  <2> QED
    BY <2>1, <2>2
<1>2. installs'[c[1]] = IF c[1] = g THEN installs[c[1]] + 1 ELSE installs[c[1]]
  BY DEF Install, TypeOK, Codes
<1>3. c \in CodesOf(g) => c[1] = g
  BY DEF CodesOf
<1> QED
  BY <1>1, <1>2, <1>3

(* A code is accepted at most once per installation of its set. *)
LEMMA NextCodeSpent == TypeOK /\ Synced /\ Copied /\ CodeSpentPerInstall /\ [Next]_vars => CodeSpentPerInstall'
<1> SUFFICES ASSUME TypeOK /\ Synced /\ Copied /\ CodeSpentPerInstall, [Next]_vars PROVE CodeSpentPerInstall'
  OBVIOUS
<1> USE AuthAssumption
<1>1. ASSUME NEW r \in Reqs, LoginRead(r) PROVE CodeSpentPerInstall'
  BY <1>1 DEF LoginRead, history, CodeSpentPerInstall
<1>2. ASSUME NEW r \in Reqs, NEW s \in Sids, ChangePasswordRead(r, s)
      PROVE  CodeSpentPerInstall'
  BY <1>2 DEF ChangePasswordRead, AdmitWithPassword, history,
     CodeSpentPerInstall
<1>3. ASSUME NEW r \in Reqs, NEW s \in Sids, ChangeAccountRead(r, s)
      PROVE  CodeSpentPerInstall'
  BY <1>3 DEF ChangeAccountRead, AdmitWithPassword, history,
     CodeSpentPerInstall
<1>4. ASSUME NEW r \in Reqs, NEW s \in Sids, ElevateRead(r, s)
      PROVE  CodeSpentPerInstall'
  BY <1>4 DEF ElevateRead, AdmitWithPassword, history, CodeSpentPerInstall
<1>5. ASSUME NEW r \in Reqs, NEW s \in Sids, UpgradeKdfRead(r, s)
      PROVE  CodeSpentPerInstall'
  BY <1>5 DEF UpgradeKdfRead, AdmitWithPassword, history, CodeSpentPerInstall
<1>6. ASSUME NEW r \in Reqs, NEW s \in Sids, LogoutAdmit(r, s)
      PROVE  CodeSpentPerInstall'
  BY <1>6 DEF LogoutAdmit, Admit, history, CodeSpentPerInstall
<1>7. ASSUME NEW r \in Reqs, NEW s \in Sids, RevokeAdmit(r, s)
      PROVE  CodeSpentPerInstall'
  BY <1>7 DEF RevokeAdmit, Admit, history, CodeSpentPerInstall
<1>8. ASSUME NEW r \in Reqs, NEW s \in Sids, SetupCheck(r, s)
      PROVE  CodeSpentPerInstall'
  BY <1>8 DEF SetupCheck, Admit, history, CodeSpentPerInstall
<1>9. ASSUME NEW r \in Reqs, NEW s \in Sids, ConfirmRead(r, s)
      PROVE  CodeSpentPerInstall'
  BY <1>9 DEF ConfirmRead, history, CodeSpentPerInstall
<1>10. ASSUME NEW r \in Reqs, NEW s \in Sids, DisableAdmit(r, s)
       PROVE  CodeSpentPerInstall'
  BY <1>10 DEF DisableAdmit, Admit, history, CodeSpentPerInstall
<1>11. ASSUME NEW r \in Reqs, NEW s \in Sids, RegenAdmit(r, s)
       PROVE  CodeSpentPerInstall'
  BY <1>11 DEF RegenAdmit, Admit, history, CodeSpentPerInstall
<1>12. ASSUME NEW r \in Reqs, LoginOtp(r) PROVE CodeSpentPerInstall'
  <2>1. PICK otp \in Otps : /\ secondFactorOk(otp) /\ CountUse(otp)
                           /\ disk' = afterSecondFactor(otp)
    BY <1>12 DEF LoginOtp, Save
  <2> QED
    BY <1>12, <2>1, OtpSpends DEF LoginOtp
<1>13. ASSUME NEW r \in Reqs, LoginCreate(r) PROVE CodeSpentPerInstall'
  BY <1>13 DEF LoginCreate, CodeSpentPerInstall
<1>14. ASSUME NEW r \in Reqs, ElevateTotp(r) PROVE CodeSpentPerInstall'
  BY <1>14 DEF ElevateTotp, history, CodeSpentPerInstall
<1>15. ASSUME NEW r \in Reqs, ElevateOtp(r) PROVE CodeSpentPerInstall'
  <2>1. PICK otp \in Otps : /\ secondFactorOk(otp) /\ CountUse(otp)
                           /\ disk' = afterSecondFactor(otp)
    BY <1>15 DEF ElevateOtp, Save
  <2> QED
    BY <1>15, <2>1, OtpSpends DEF ElevateOtp
<1>16. ASSUME NEW r \in Reqs, ElevateGrant(r) PROVE CodeSpentPerInstall'
  BY <1>16 DEF ElevateGrant, history, CodeSpentPerInstall
<1>17. ASSUME NEW r \in Reqs, ChangePasswordSave(r) PROVE CodeSpentPerInstall'
  <2>1. PICK otp \in Otps : /\ secondFactorOk(otp) /\ CountUse(otp)
                           /\ disk'.codes = afterSecondFactor(otp).codes
    BY <1>17, OtpTyped DEF ChangePasswordSave, Save, Configs
  <2> QED
    BY <1>17, <2>1, OtpSpends DEF ChangePasswordSave
<1>18. ASSUME NEW r \in Reqs, ChangePasswordRevoke(r)
       PROVE  CodeSpentPerInstall'
  BY <1>18 DEF ChangePasswordRevoke, history, CodeSpentPerInstall
<1>19. ASSUME NEW r \in Reqs, ChangeAccountSave(r) PROVE CodeSpentPerInstall'
  <2>1. PICK otp \in Otps : /\ secondFactorOk(otp) /\ CountUse(otp)
                           /\ disk'.codes = afterSecondFactor(otp).codes
    BY <1>19, OtpTyped DEF ChangeAccountSave, Save, Configs
  <2> QED
    BY <1>19, <2>1, OtpSpends DEF ChangeAccountSave
<1>20. ASSUME NEW r \in Reqs, ChangeAccountRevoke(r) PROVE CodeSpentPerInstall'
  BY <1>20 DEF ChangeAccountRevoke, history, CodeSpentPerInstall
<1>21. ASSUME NEW r \in Reqs, UpgradeKdfSave(r) PROVE CodeSpentPerInstall'
  <2>1. disk'.codes = disk.codes
    BY <1>21 DEF UpgradeKdfSave, Save, Synced, TypeOK, Configs
  <2> QED
    BY <1>21, <2>1 DEF UpgradeKdfSave, history, CodeSpentPerInstall
<1>22. ASSUME NEW r \in Reqs, SetupStore(r) PROVE CodeSpentPerInstall'
  BY <1>22 DEF SetupStore, history, CodeSpentPerInstall
<1>23. ASSUME NEW r \in Reqs, ConfirmSave(r) PROVE CodeSpentPerInstall'
  <2>1. req[r].set \in 1..MaxSets
    BY <1>23 DEF ConfirmSave, At, Copied, TypeOK, Request
  <2>2. disk'.codes = CodesOf(req[r].set)
    BY <1>23 DEF ConfirmSave, Save, TypeOK, Configs
  <2> QED
    BY <1>23, <2>1, <2>2, InstallAllows DEF ConfirmSave
<1>24. ASSUME NEW r \in Reqs, ConfirmClear(r) PROVE CodeSpentPerInstall'
  BY <1>24 DEF ConfirmClear, history, CodeSpentPerInstall
<1>25. ASSUME NEW r \in Reqs, DisableSave(r) PROVE CodeSpentPerInstall'
  <2>1. disk'.codes = {}
    BY <1>25 DEF DisableSave, Save, TypeOK, Configs
  <2>2. \A c \in Codes : used[c] \in Nat /\ installs[c[1]] \in Nat
    BY DEF TypeOK, Codes
  <2> QED
    BY <1>25, <2>1, <2>2 DEF DisableSave, history, CodeSpentPerInstall
<1>26. ASSUME NEW r \in Reqs, RegenSave(r) PROVE CodeSpentPerInstall'
  <2>1. sets + 1 \in 1..MaxSets
    BY <1>26 DEF RegenSave, TypeOK
  <2>2. disk'.codes = CodesOf(sets + 1)
    BY <1>26 DEF RegenSave, Save, TypeOK, Configs
  <2> QED
    BY <1>26, <2>1, <2>2, InstallAllows DEF RegenSave
<1>27. ASSUME NEW r \in Reqs, Logout(r) PROVE CodeSpentPerInstall'
  BY <1>27 DEF Logout, history, CodeSpentPerInstall
<1>28. ASSUME NEW r \in Reqs, RevokeOthers(r) PROVE CodeSpentPerInstall'
  BY <1>28 DEF RevokeOthers, history, CodeSpentPerInstall
<1>29. ASSUME NEW r \in Reqs, Refuse(r) PROVE CodeSpentPerInstall'
  BY <1>29 DEF Refuse, history, CodeSpentPerInstall
<1>30. ASSUME NEW s \in Sids, SessionExpires(s) PROVE CodeSpentPerInstall'
  BY <1>30 DEF SessionExpires, history, CodeSpentPerInstall
<1>31. ASSUME NEW s \in Sids, ElevationExpires(s) PROVE CodeSpentPerInstall'
  BY <1>31 DEF ElevationExpires, history, CodeSpentPerInstall
<1>32. ASSUME NEW s \in Sids, PendingExpires(s) PROVE CodeSpentPerInstall'
  BY <1>32 DEF PendingExpires, history, CodeSpentPerInstall
<1>33. CASE Restart
  BY <1>33 DEF Restart, history, CodeSpentPerInstall
<1>34. CASE UNCHANGED vars
  BY <1>34 DEF vars, CodeSpentPerInstall
<1> QED
  BY <1>1, <1>2, <1>3, <1>4, <1>5, <1>6, <1>7, <1>8, <1>9, <1>10, <1>11,
     <1>12, <1>13, <1>14, <1>15, <1>16, <1>17, <1>18, <1>19, <1>20, <1>21,
     <1>22, <1>23, <1>24, <1>25, <1>26, <1>27, <1>28, <1>29, <1>30, <1>31,
     <1>32, <1>33, <1>34 DEF Next, Arrive, Proceed

(* Only a login that cleared the second factor creates a session. *)
LEMMA NextSecondFactor == TypeOK /\ Copied /\ SecondFactorHeld /\ [Next]_vars => SecondFactorHeld'
<1> SUFFICES ASSUME TypeOK /\ Copied /\ SecondFactorHeld, [Next]_vars PROVE SecondFactorHeld'
  OBVIOUS
<1>1. ASSUME NEW r \in Reqs, LoginRead(r) PROVE SecondFactorHeld'
  BY <1>1 DEF LoginRead, Live, SecondFactorHeld
<1>2. ASSUME NEW r \in Reqs, NEW s \in Sids, ChangePasswordRead(r, s)
      PROVE  SecondFactorHeld'
  BY <1>2 DEF ChangePasswordRead, AdmitWithPassword, Live, SecondFactorHeld
<1>3. ASSUME NEW r \in Reqs, NEW s \in Sids, ChangeAccountRead(r, s)
      PROVE  SecondFactorHeld'
  BY <1>3 DEF ChangeAccountRead, AdmitWithPassword, Live, SecondFactorHeld
<1>4. ASSUME NEW r \in Reqs, NEW s \in Sids, ElevateRead(r, s)
      PROVE  SecondFactorHeld'
  BY <1>4 DEF ElevateRead, AdmitWithPassword, Live, SecondFactorHeld
<1>5. ASSUME NEW r \in Reqs, NEW s \in Sids, UpgradeKdfRead(r, s)
      PROVE  SecondFactorHeld'
  BY <1>5 DEF UpgradeKdfRead, AdmitWithPassword, Live, SecondFactorHeld
<1>6. ASSUME NEW r \in Reqs, NEW s \in Sids, LogoutAdmit(r, s)
      PROVE  SecondFactorHeld'
  BY <1>6 DEF LogoutAdmit, Admit, Live, SecondFactorHeld
<1>7. ASSUME NEW r \in Reqs, NEW s \in Sids, RevokeAdmit(r, s)
      PROVE  SecondFactorHeld'
  BY <1>7 DEF RevokeAdmit, Admit, Live, SecondFactorHeld
<1>8. ASSUME NEW r \in Reqs, NEW s \in Sids, SetupCheck(r, s)
      PROVE  SecondFactorHeld'
  BY <1>8 DEF SetupCheck, Admit, Live, SecondFactorHeld
<1>9. ASSUME NEW r \in Reqs, NEW s \in Sids, ConfirmRead(r, s)
      PROVE  SecondFactorHeld'
  BY <1>9 DEF ConfirmRead, Live, SecondFactorHeld
<1>10. ASSUME NEW r \in Reqs, NEW s \in Sids, DisableAdmit(r, s)
       PROVE  SecondFactorHeld'
  BY <1>10 DEF DisableAdmit, Admit, Live, SecondFactorHeld
<1>11. ASSUME NEW r \in Reqs, NEW s \in Sids, RegenAdmit(r, s)
       PROVE  SecondFactorHeld'
  BY <1>11 DEF RegenAdmit, Admit, Live, SecondFactorHeld
<1>12. ASSUME NEW r \in Reqs, LoginOtp(r) PROVE SecondFactorHeld'
  BY <1>12 DEF LoginOtp, Live, SecondFactorHeld
<1>13. ASSUME NEW r \in Reqs, LoginCreate(r) PROVE SecondFactorHeld'
  BY <1>13 DEF LoginCreate, At, Live, SecondFactorHeld, Copied, TypeOK, Session
<1>14. ASSUME NEW r \in Reqs, ElevateTotp(r) PROVE SecondFactorHeld'
  BY <1>14 DEF ElevateTotp, Live, SecondFactorHeld
<1>15. ASSUME NEW r \in Reqs, ElevateOtp(r) PROVE SecondFactorHeld'
  BY <1>15 DEF ElevateOtp, Live, SecondFactorHeld
<1>16. ASSUME NEW r \in Reqs, ElevateGrant(r) PROVE SecondFactorHeld'
  BY <1>16 DEF ElevateGrant, Live, SecondFactorHeld
<1>17. ASSUME NEW r \in Reqs, ChangePasswordSave(r) PROVE SecondFactorHeld'
  BY <1>17 DEF ChangePasswordSave, NewEpoch, Live, SecondFactorHeld, TypeOK,
     Session
<1>18. ASSUME NEW r \in Reqs, ChangePasswordRevoke(r) PROVE SecondFactorHeld'
  BY <1>18 DEF ChangePasswordRevoke, KeepOnly, NoSession, Live,
     SecondFactorHeld, TypeOK
<1>19. ASSUME NEW r \in Reqs, ChangeAccountSave(r) PROVE SecondFactorHeld'
  BY <1>19 DEF ChangeAccountSave, NewEpoch, Live, SecondFactorHeld, TypeOK,
     Session
<1>20. ASSUME NEW r \in Reqs, ChangeAccountRevoke(r) PROVE SecondFactorHeld'
  BY <1>20 DEF ChangeAccountRevoke, NoSession, Live, SecondFactorHeld, TypeOK,
     Session
<1>21. ASSUME NEW r \in Reqs, UpgradeKdfSave(r) PROVE SecondFactorHeld'
  BY <1>21 DEF UpgradeKdfSave, Live, SecondFactorHeld
<1>22. ASSUME NEW r \in Reqs, SetupStore(r) PROVE SecondFactorHeld'
  BY <1>22 DEF SetupStore, Live, SecondFactorHeld
<1>23. ASSUME NEW r \in Reqs, ConfirmSave(r) PROVE SecondFactorHeld'
  BY <1>23 DEF ConfirmSave, Live, SecondFactorHeld
<1>24. ASSUME NEW r \in Reqs, ConfirmClear(r) PROVE SecondFactorHeld'
  BY <1>24 DEF ConfirmClear, Live, SecondFactorHeld
<1>25. ASSUME NEW r \in Reqs, DisableSave(r) PROVE SecondFactorHeld'
  BY <1>25 DEF DisableSave, Live, SecondFactorHeld
<1>26. ASSUME NEW r \in Reqs, RegenSave(r) PROVE SecondFactorHeld'
  BY <1>26 DEF RegenSave, Live, SecondFactorHeld
<1>27. ASSUME NEW r \in Reqs, Logout(r) PROVE SecondFactorHeld'
  BY <1>27 DEF Logout, NoSession, Live, SecondFactorHeld, TypeOK
<1>28. ASSUME NEW r \in Reqs, RevokeOthers(r) PROVE SecondFactorHeld'
  BY <1>28 DEF RevokeOthers, KeepOnly, NoSession, Live, SecondFactorHeld,
     TypeOK
<1>29. ASSUME NEW r \in Reqs, Refuse(r) PROVE SecondFactorHeld'
  BY <1>29 DEF Refuse, Live, SecondFactorHeld
<1>30. ASSUME NEW s \in Sids, SessionExpires(s) PROVE SecondFactorHeld'
  BY <1>30 DEF SessionExpires, NoSession, Live, SecondFactorHeld, TypeOK
<1>31. ASSUME NEW s \in Sids, ElevationExpires(s) PROVE SecondFactorHeld'
  BY <1>31 DEF ElevationExpires, Live, SecondFactorHeld
<1>32. ASSUME NEW s \in Sids, PendingExpires(s) PROVE SecondFactorHeld'
  BY <1>32 DEF PendingExpires, Live, SecondFactorHeld
<1>33. CASE Restart
  BY <1>33 DEF Restart, NoSession, Live, SecondFactorHeld, TypeOK
<1>34. CASE UNCHANGED vars
  BY <1>34 DEF vars, Live, SecondFactorHeld
<1> QED
  BY <1>1, <1>2, <1>3, <1>4, <1>5, <1>6, <1>7, <1>8, <1>9, <1>10, <1>11,
     <1>12, <1>13, <1>14, <1>15, <1>16, <1>17, <1>18, <1>19, <1>20, <1>21,
     <1>22, <1>23, <1>24, <1>25, <1>26, <1>27, <1>28, <1>29, <1>30, <1>31,
     <1>32, <1>33, <1>34 DEF Next, Arrive, Proceed

(* The last step of a change spares one session, which is the changer's    *)
(* own or is left to another change that has its last step ahead.          *)
LEMMA NextRevoking == TypeOK /\ Revoking /\ [Next]_vars => Revoking'
<1> SUFFICES ASSUME TypeOK /\ Revoking, [Next]_vars PROVE Revoking'
  OBVIOUS
<1>1. ASSUME NEW r \in Reqs, LoginRead(r) PROVE Revoking'
  BY <1>1 DEF LoginRead, At, history, Live, Revoking, TypeOK, Request
<1>2. ASSUME NEW r \in Reqs, NEW s \in Sids, ChangePasswordRead(r, s)
      PROVE  Revoking'
  BY <1>2 DEF ChangePasswordRead, AdmitWithPassword, At, history, Live,
     Revoking, TypeOK, Request
<1>3. ASSUME NEW r \in Reqs, NEW s \in Sids, ChangeAccountRead(r, s)
      PROVE  Revoking'
  BY <1>3 DEF ChangeAccountRead, AdmitWithPassword, At, history, Live,
     Revoking, TypeOK, Request
<1>4. ASSUME NEW r \in Reqs, NEW s \in Sids, ElevateRead(r, s) PROVE Revoking'
  BY <1>4 DEF ElevateRead, AdmitWithPassword, At, history, Live, Revoking,
     TypeOK, Request
<1>5. ASSUME NEW r \in Reqs, NEW s \in Sids, UpgradeKdfRead(r, s)
      PROVE  Revoking'
  BY <1>5 DEF UpgradeKdfRead, AdmitWithPassword, At, history, Live, Revoking,
     TypeOK, Request
<1>6. ASSUME NEW r \in Reqs, NEW s \in Sids, LogoutAdmit(r, s) PROVE Revoking'
  BY <1>6 DEF LogoutAdmit, Admit, At, history, Live, Revoking, TypeOK, Request
<1>7. ASSUME NEW r \in Reqs, NEW s \in Sids, RevokeAdmit(r, s) PROVE Revoking'
  BY <1>7 DEF RevokeAdmit, Admit, At, history, Live, Revoking, TypeOK, Request
<1>8. ASSUME NEW r \in Reqs, NEW s \in Sids, SetupCheck(r, s) PROVE Revoking'
  BY <1>8 DEF SetupCheck, Admit, At, history, Live, Revoking, TypeOK, Request
<1>9. ASSUME NEW r \in Reqs, NEW s \in Sids, ConfirmRead(r, s) PROVE Revoking'
  BY <1>9 DEF ConfirmRead, At, history, Live, Revoking, TypeOK, Request
<1>10. ASSUME NEW r \in Reqs, NEW s \in Sids, DisableAdmit(r, s)
       PROVE  Revoking'
  BY <1>10 DEF DisableAdmit, Admit, At, history, Live, Revoking, TypeOK,
     Request
<1>11. ASSUME NEW r \in Reqs, NEW s \in Sids, RegenAdmit(r, s) PROVE Revoking'
  BY <1>11 DEF RegenAdmit, Admit, At, history, Live, Revoking, TypeOK, Request
<1>12. ASSUME NEW r \in Reqs, LoginOtp(r) PROVE Revoking'
  BY <1>12 DEF LoginOtp, At, history, Live, Revoking, TypeOK, Request
<1>13. ASSUME NEW r \in Reqs, LoginCreate(r) PROVE Revoking'
  <2>1. PICK s \in Sids : sessions' = [sessions EXCEPT ![s] =
                           [live |-> TRUE, user |-> req[r].user,
                            epoch |-> req[r].epoch,
                            late |-> req[r].epoch # epoch,
                            cleared |-> req[r].cleared]]
    BY <1>13 DEF LoginCreate
  <2>2. sessions'[s].epoch = epoch \/ sessions'[s].late
    BY <2>1 DEF TypeOK
  <2>3. \A t \in Sids \ {s} : sessions'[t] = sessions[t]
    BY <2>1 DEF TypeOK
  <2>4. \A x \in Reqs : req[x].pc \in {"password.revoke", "account.revoke"}
                          => req'[x] = req[x]
    BY <1>13 DEF LoginCreate, At, End, TypeOK
  <2> QED
    BY <1>13, <2>2, <2>3, <2>4 DEF LoginCreate, Live, Revoking
<1>14. ASSUME NEW r \in Reqs, ElevateTotp(r) PROVE Revoking'
  BY <1>14 DEF ElevateTotp, At, Go, history, Live, Revoking, TypeOK, Request
<1>15. ASSUME NEW r \in Reqs, ElevateOtp(r) PROVE Revoking'
  BY <1>15 DEF ElevateOtp, At, Go, history, Live, Revoking, TypeOK, Request
<1>16. ASSUME NEW r \in Reqs, ElevateGrant(r) PROVE Revoking'
  BY <1>16 DEF ElevateGrant, At, End, history, Live, Revoking, TypeOK, Request
<1>17. ASSUME NEW r \in Reqs, ChangePasswordSave(r) PROVE Revoking'
  <2>1. /\ req'[r].pc \in {"password.revoke", "account.revoke"}
        /\ req'[r].sid = req[r].sid
    BY <1>17 DEF ChangePasswordSave, Go, TypeOK, Request
  <2>2. \A s \in Sids : sessions'[s].live => s # req[r].sid \/ sessions'[s].epoch = epoch'
    BY <1>17 DEF ChangePasswordSave, NewEpoch, Live, TypeOK, Session
  <2> QED
    BY <2>1, <2>2 DEF Live, Revoking
<1>18. ASSUME NEW r \in Reqs, ChangePasswordRevoke(r) PROVE Revoking'
  <2>1. \A s \in Sids : sessions'[s].live
                   => /\ s = req[r].sid /\ sessions[s].live
                      /\ sessions'[s].epoch = sessions[s].epoch
                      /\ sessions'[s].late = sessions[s].late
    BY <1>18 DEF ChangePasswordRevoke, KeepOnly, NoSession, Live, TypeOK,
       Session
  <2>2. \A x \in Reqs : x # r => req'[x] = req[x]
    BY <1>18 DEF ChangePasswordRevoke, End, TypeOK
  <2> QED
    BY <1>18, <2>1, <2>2 DEF ChangePasswordRevoke, history, Live, Revoking
<1>19. ASSUME NEW r \in Reqs, ChangeAccountSave(r) PROVE Revoking'
  <2>1. /\ req'[r].pc \in {"password.revoke", "account.revoke"}
        /\ req'[r].sid = req[r].sid
    BY <1>19 DEF ChangeAccountSave, Go, TypeOK, Request
  <2>2. \A s \in Sids : sessions'[s].live => s # req[r].sid \/ sessions'[s].epoch = epoch'
    BY <1>19 DEF ChangeAccountSave, NewEpoch, Live, TypeOK, Session
  <2> QED
    BY <2>1, <2>2 DEF Live, Revoking
<1>20. ASSUME NEW r \in Reqs, ChangeAccountRevoke(r) PROVE Revoking'
  <2>1. \A s \in Sids : sessions'[s].live
                   => /\ s = req[r].sid /\ sessions[s].live
                      /\ sessions'[s].epoch = sessions[s].epoch
                      /\ sessions'[s].late = sessions[s].late
    BY <1>20 DEF ChangeAccountRevoke, KeepOnly, NoSession, Live, TypeOK,
       Session
  <2>2. \A x \in Reqs : x # r => req'[x] = req[x]
    BY <1>20 DEF ChangeAccountRevoke, End, TypeOK
  <2> QED
    BY <1>20, <2>1, <2>2 DEF ChangeAccountRevoke, history, Live, Revoking
<1>21. ASSUME NEW r \in Reqs, UpgradeKdfSave(r) PROVE Revoking'
  BY <1>21 DEF UpgradeKdfSave, At, End, history, Live, Revoking, TypeOK,
     Request
<1>22. ASSUME NEW r \in Reqs, SetupStore(r) PROVE Revoking'
  BY <1>22 DEF SetupStore, At, End, history, Live, Revoking, TypeOK, Request
<1>23. ASSUME NEW r \in Reqs, ConfirmSave(r) PROVE Revoking'
  BY <1>23 DEF ConfirmSave, At, Go, history, Live, Revoking, TypeOK, Request
<1>24. ASSUME NEW r \in Reqs, ConfirmClear(r) PROVE Revoking'
  BY <1>24 DEF ConfirmClear, At, End, history, Live, Revoking, TypeOK, Request
<1>25. ASSUME NEW r \in Reqs, DisableSave(r) PROVE Revoking'
  BY <1>25 DEF DisableSave, At, history, Live, Revoking, TypeOK, Request
<1>26. ASSUME NEW r \in Reqs, RegenSave(r) PROVE Revoking'
  BY <1>26 DEF RegenSave, At, End, history, Live, Revoking, TypeOK, Request
<1>27. ASSUME NEW r \in Reqs, Logout(r) PROVE Revoking'
  BY <1>27 DEF Logout, At, End, NoSession, history, Live, Revoking, TypeOK,
     Request
<1>28. ASSUME NEW r \in Reqs, RevokeOthers(r) PROVE Revoking'
  <2>1. \A s \in Sids : sessions'[s].live
                   => /\ s = req[r].sid /\ sessions[s].live
                      /\ sessions'[s].epoch = sessions[s].epoch
                      /\ sessions'[s].late = sessions[s].late
    BY <1>28 DEF RevokeOthers, KeepOnly, NoSession, Live, TypeOK, Session
  <2>2. \A x \in Reqs : x # r => req'[x] = req[x]
    BY <1>28 DEF RevokeOthers, End, TypeOK
  <2> QED
    BY <1>28, <2>1, <2>2 DEF RevokeOthers, history, Live, Revoking
<1>29. ASSUME NEW r \in Reqs, Refuse(r) PROVE Revoking'
  BY <1>29 DEF Refuse, Refusable, End, history, Live, Revoking, TypeOK, Request
<1>30. ASSUME NEW s \in Sids, SessionExpires(s) PROVE Revoking'
  BY <1>30 DEF SessionExpires, At, End, NoSession, history, Live, Revoking,
     TypeOK, Request
<1>31. ASSUME NEW s \in Sids, ElevationExpires(s) PROVE Revoking'
  BY <1>31 DEF ElevationExpires, At, history, Live, Revoking, TypeOK, Request
<1>32. ASSUME NEW s \in Sids, PendingExpires(s) PROVE Revoking'
  BY <1>32 DEF PendingExpires, At, history, Live, Revoking, TypeOK, Request
<1>33. CASE Restart
  BY <1>33 DEF Restart, At, End, NoSession, history, Live, Revoking, TypeOK,
     Request
<1>34. CASE UNCHANGED vars
  BY <1>34 DEF vars, Live, Revoking
<1> QED
  BY <1>1, <1>2, <1>3, <1>4, <1>5, <1>6, <1>7, <1>8, <1>9, <1>10, <1>11,
     <1>12, <1>13, <1>14, <1>15, <1>16, <1>17, <1>18, <1>19, <1>20, <1>21,
     <1>22, <1>23, <1>24, <1>25, <1>26, <1>27, <1>28, <1>29, <1>30, <1>31,
     <1>32, <1>33, <1>34 DEF Next, Arrive, Proceed

(* Only a password change changes the password: a KDF upgrade re-hashes    *)
(* the one that is in force.                                               *)
LEMMA StepKeepsPassword == TypeOK /\ Synced /\ Copied /\ [Next]_vars => PasswordStep
<1> SUFFICES ASSUME TypeOK /\ Synced /\ Copied, [Next]_vars PROVE PasswordStep
  OBVIOUS
<1>1. ASSUME NEW r \in Reqs, LoginRead(r) PROVE PasswordStep
  BY <1>1 DEF LoginRead, PasswordStep
<1>2. ASSUME NEW r \in Reqs, NEW s \in Sids, ChangePasswordRead(r, s)
      PROVE  PasswordStep
  BY <1>2 DEF ChangePasswordRead, AdmitWithPassword, PasswordStep
<1>3. ASSUME NEW r \in Reqs, NEW s \in Sids, ChangeAccountRead(r, s)
      PROVE  PasswordStep
  BY <1>3 DEF ChangeAccountRead, AdmitWithPassword, PasswordStep
<1>4. ASSUME NEW r \in Reqs, NEW s \in Sids, ElevateRead(r, s)
      PROVE  PasswordStep
  BY <1>4 DEF ElevateRead, AdmitWithPassword, PasswordStep
<1>5. ASSUME NEW r \in Reqs, NEW s \in Sids, UpgradeKdfRead(r, s)
      PROVE  PasswordStep
  BY <1>5 DEF UpgradeKdfRead, AdmitWithPassword, PasswordStep
<1>6. ASSUME NEW r \in Reqs, NEW s \in Sids, LogoutAdmit(r, s)
      PROVE  PasswordStep
  BY <1>6 DEF LogoutAdmit, Admit, PasswordStep
<1>7. ASSUME NEW r \in Reqs, NEW s \in Sids, RevokeAdmit(r, s)
      PROVE  PasswordStep
  BY <1>7 DEF RevokeAdmit, Admit, PasswordStep
<1>8. ASSUME NEW r \in Reqs, NEW s \in Sids, SetupCheck(r, s)
      PROVE  PasswordStep
  BY <1>8 DEF SetupCheck, Admit, PasswordStep
<1>9. ASSUME NEW r \in Reqs, NEW s \in Sids, ConfirmRead(r, s)
      PROVE  PasswordStep
  BY <1>9 DEF ConfirmRead, PasswordStep
<1>10. ASSUME NEW r \in Reqs, NEW s \in Sids, DisableAdmit(r, s)
       PROVE  PasswordStep
  BY <1>10 DEF DisableAdmit, Admit, PasswordStep
<1>11. ASSUME NEW r \in Reqs, NEW s \in Sids, RegenAdmit(r, s)
       PROVE  PasswordStep
  BY <1>11 DEF RegenAdmit, Admit, PasswordStep
<1>12. ASSUME NEW r \in Reqs, LoginOtp(r) PROVE PasswordStep
  BY <1>12, OtpKeeps DEF LoginOtp, Save, PasswordStep
<1>13. ASSUME NEW r \in Reqs, LoginCreate(r) PROVE PasswordStep
  BY <1>13 DEF LoginCreate, PasswordStep
<1>14. ASSUME NEW r \in Reqs, ElevateTotp(r) PROVE PasswordStep
  BY <1>14 DEF ElevateTotp, PasswordStep
<1>15. ASSUME NEW r \in Reqs, ElevateOtp(r) PROVE PasswordStep
  BY <1>15, OtpKeeps DEF ElevateOtp, Save, PasswordStep
<1>16. ASSUME NEW r \in Reqs, ElevateGrant(r) PROVE PasswordStep
  BY <1>16 DEF ElevateGrant, PasswordStep
<1>17. ASSUME NEW r \in Reqs, ChangePasswordSave(r) PROVE PasswordStep
  <2>1. cfg'.hash.kdf = "argon2id"
    BY <1>17, OtpTyped DEF ChangePasswordSave, Save, Configs
  <2> QED
    BY <1>17, <2>1 DEF ChangePasswordSave, NewEpoch, PasswordStep
<1>18. ASSUME NEW r \in Reqs, ChangePasswordRevoke(r) PROVE PasswordStep
  BY <1>18 DEF ChangePasswordRevoke, PasswordStep
<1>19. ASSUME NEW r \in Reqs, ChangeAccountSave(r) PROVE PasswordStep
  <2>1. cfg'.hash = cfg.hash
    BY <1>19, OtpKeeps, OtpTyped DEF ChangeAccountSave, Save, Configs
  <2> QED
    BY <2>1 DEF PasswordStep
<1>20. ASSUME NEW r \in Reqs, ChangeAccountRevoke(r) PROVE PasswordStep
  BY <1>20 DEF ChangeAccountRevoke, PasswordStep
<1>21. ASSUME NEW r \in Reqs, UpgradeKdfSave(r) PROVE PasswordStep
  <2>1. cfg'.hash.kdf = "argon2id" /\ cfg'.hash.pw = req[r].pw
    BY <1>21 DEF UpgradeKdfSave, Save, TypeOK, Configs
  <2> QED
    BY <1>21, <2>1 DEF UpgradeKdfSave, At, Copied, PasswordStep
<1>22. ASSUME NEW r \in Reqs, SetupStore(r) PROVE PasswordStep
  BY <1>22 DEF SetupStore, PasswordStep
<1>23. ASSUME NEW r \in Reqs, ConfirmSave(r) PROVE PasswordStep
  <2>1. cfg'.hash = cfg.hash
    BY <1>23 DEF ConfirmSave, Save, TypeOK, Configs
  <2> QED
    BY <2>1 DEF PasswordStep
<1>24. ASSUME NEW r \in Reqs, ConfirmClear(r) PROVE PasswordStep
  BY <1>24 DEF ConfirmClear, PasswordStep
<1>25. ASSUME NEW r \in Reqs, DisableSave(r) PROVE PasswordStep
  <2>1. cfg'.hash = cfg.hash
    BY <1>25 DEF DisableSave, Save, TypeOK, Configs
  <2> QED
    BY <2>1 DEF PasswordStep
<1>26. ASSUME NEW r \in Reqs, RegenSave(r) PROVE PasswordStep
  <2>1. cfg'.hash = cfg.hash
    BY <1>26 DEF RegenSave, Save, TypeOK, Configs
  <2> QED
    BY <2>1 DEF PasswordStep
<1>27. ASSUME NEW r \in Reqs, Logout(r) PROVE PasswordStep
  BY <1>27 DEF Logout, PasswordStep
<1>28. ASSUME NEW r \in Reqs, RevokeOthers(r) PROVE PasswordStep
  BY <1>28 DEF RevokeOthers, PasswordStep
<1>29. ASSUME NEW r \in Reqs, Refuse(r) PROVE PasswordStep
  BY <1>29 DEF Refuse, PasswordStep
<1>30. ASSUME NEW s \in Sids, SessionExpires(s) PROVE PasswordStep
  BY <1>30 DEF SessionExpires, PasswordStep
<1>31. ASSUME NEW s \in Sids, ElevationExpires(s) PROVE PasswordStep
  BY <1>31 DEF ElevationExpires, PasswordStep
<1>32. ASSUME NEW s \in Sids, PendingExpires(s) PROVE PasswordStep
  BY <1>32 DEF PendingExpires, PasswordStep
<1>33. CASE Restart
  BY <1>33 DEF Restart, Synced, PasswordStep
<1>34. CASE UNCHANGED vars
  BY <1>34 DEF vars, PasswordStep
<1> QED
  BY <1>1, <1>2, <1>3, <1>4, <1>5, <1>6, <1>7, <1>8, <1>9, <1>10, <1>11,
     <1>12, <1>13, <1>14, <1>15, <1>16, <1>17, <1>18, <1>19, <1>20, <1>21,
     <1>22, <1>23, <1>24, <1>25, <1>26, <1>27, <1>28, <1>29, <1>30, <1>31,
     <1>32, <1>33, <1>34 DEF Next, Arrive, Proceed

----------------------------------------------------------------------------
LEMMA InitAuthInv == Init => AuthInv
<1> SUFFICES ASSUME Init PROVE AuthInv
  OBVIOUS
<1> USE AuthAssumption
<1>1. cfg \in Configs /\ disk \in Configs
  <2>1. AnyUser \in Users /\ AnyPassword \in Passwords
    BY Zenon DEF AnyUser, AnyPassword
  <2>2. [pw |-> AnyPassword, kdf |-> FirstKdf, salt |-> 0] \in Hashes
    BY <2>1 DEF Hashes
  <2>3. 0 \in 0..MaxSets /\ {} \in SUBSET Codes
    OBVIOUS
  <2> QED
    BY <2>1, <2>2, <2>3 DEF Init, Configs
<1>2. sessions \in [Sids -> Session] /\ req \in [Reqs -> Request]
  BY IdleTyped DEF Init
<1>3. /\ pending \in [Sids -> 0..MaxSets] /\ used \in [Codes -> Nat]
      /\ installs \in [1..MaxSets -> Nat]
  BY DEF Init
<1>4. TypeOK
  BY <1>1, <1>2, <1>3 DEF Init, TypeOK
<1>5. Synced /\ Copied
  BY DEF Init, Synced, Copied, Idle
<1>6. CodeSpentPerInstall
  BY DEF Init, CodeSpentPerInstall, Codes
<1>7. SecondFactorHeld /\ Revoking
  BY DEF Init, SecondFactorHeld, Revoking, Live, NoSession
<1> QED
  BY <1>4, <1>5, <1>6, <1>7 DEF AuthInv

LEMMA NextAuthInv == AuthInv /\ [Next]_vars => AuthInv'
  BY NextTypeOK, NextSynced, NextCopied, NextCodeSpent, NextSecondFactor,
     NextRevoking DEF AuthInv

(* The invariant behind all of the following, of the handlers of           *)
(* internal/server that deal with accounts and sessions.                   *)
THEOREM AuthInvariant == Spec => []AuthInv
  BY InitAuthInv, NextAuthInv, PTL DEF Spec

(* Configuration, sessions, elevations, pending setups and requests keep   *)
(* their types: a salt, a set or an epoch never passes its bound.          *)
THEOREM AuthTypeCorrect == Spec => []TypeOK
<1>1. AuthInv => TypeOK
  BY DEF AuthInv
<1> QED
  BY <1>1, AuthInvariant, PTL

(* However many requests race, a recovery code is accepted at most once    *)
(* per installation of its set and is then gone from the file              *)
(* (totp.go:183-242).                                                      *)
THEOREM AuthCodeSpent == Spec => []CodeSpentPerInstall
<1>1. AuthInv => CodeSpentPerInstall
  BY DEF AuthInv
<1> QED
  BY <1>1, AuthInvariant, PTL

(* Every live session comes from a login that presented a second factor or *)
(* found TOTP switched off between its first step and its last             *)
(* (server.go:245-294).                                                    *)
THEOREM AuthSecondFactor == Spec => []SecondFactorHeld
<1>1. AuthInv => SecondFactorHeld
  BY DEF AuthInv
<1> QED
  BY <1>1, AuthInvariant, PTL

(* A session of old credentials was created late or is about to be removed *)
(* by the change that made it old (server.go:435, 497).                    *)
THEOREM AuthOldSessions == Spec => []OldSessionsExplained
<1>1. AuthInv => OldSessionsExplained
  BY DEF AuthInv, Revoking, OldSessionsExplained
<1> QED
  BY <1>1, AuthInvariant, PTL

(* The stored password changes in password changes only, and a hash never  *)
(* goes back to the legacy KDF (server.go:303-354, 377-438).               *)
THEOREM AuthPassword == Spec => PasswordOnlyByChange
<1>1. AuthInv /\ [Next]_vars => [PasswordStep]_vars
  BY StepKeepsPassword DEF AuthInv
<1> QED
  BY <1>1, AuthInvariant, PTL DEF Spec, PasswordOnlyByChange
=============================================================================
