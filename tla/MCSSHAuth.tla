----------------------------- MODULE MCSSHAuth -----------------------------
(***************************************************************************)
(* Every configuration of the SSH listener over two keys, one comment      *)
(* token and key texts of up to three tokens, checked against every        *)
(* authentication attempt.                                                 *)
(***************************************************************************)
EXTENDS SSHAuth, TLC

CONSTANT MaxKeyText

MCConfigs ==
    [enablePassword : BOOLEAN, user : {"rpki"},
     passwordFlag : {"", "pw1"}, passwordEnv : {"", "pw2"},
     enableKey : BOOLEAN, keysListFlag : BOOLEAN,
     keysFile : BoundedSeq(Tokens, MaxKeyText),
     keysEnv : {<<>>, <<"k2">>, <<"k1", NL>>}, keysBypass : BOOLEAN]

VARIABLE cfg

Init == cfg \in MCConfigs
Next == UNCHANGED cfg
Spec == Init /\ [][Next]_cfg

(***************************************************************************)
(* Reference, from the contract of the SSH listener: with no method        *)
(* enabled anyone is admitted; a password is accepted for the configured   *)
(* user when it equals the configured password (flag, else environment);   *)
(* a key is accepted under bypass or when it opens a line of the key list  *)
(* ("match => accept; no-match => reject").                                *)
(***************************************************************************)
RefAuthorizedKeys(text) ==
    {text[i] : i \in {j \in 1..Len(text) : j = 1 \/ text[j - 1] = NL}} \cap Keys

RefAdmits(c, att) ==
    \/ att.method = "none" /\ ~c.enablePassword /\ ~c.enableKey
    \/ /\ att.method = "password" /\ c.enablePassword /\ att.user = c.user
       /\ att.password = IF c.passwordFlag # "" THEN c.passwordFlag ELSE c.passwordEnv
    \/ /\ att.method = "publickey" /\ c.enableKey
       /\ \/ c.keysBypass
          \/ att.key \in RefAuthorizedKeys(IF c.keysListFlag THEN c.keysFile ELSE c.keysEnv)

\* The SSH callbacks and NoClientAuth set up in run() admit exactly the
\* attempts the contract admits, whatever the key list holds.
AuthMatchesContract == \A att \in Attempt : Admits(cfg, att) = RefAdmits(cfg, att)

\* Password authentication only admits a client that knows a secret: the
\* callback never accepts when no password was configured.
PasswordNeedsSecret ==
    \A att \in Attempt :
        (att.method = "password" /\ Admits(cfg, att)) => ConfiguredPassword(cfg) # ""
=============================================================================
