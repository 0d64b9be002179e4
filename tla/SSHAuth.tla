------------------------------ MODULE SSHAuth ------------------------------
(***************************************************************************)
(* The SSH listener's authentication, as run() configures it (stayrtr.go   *)
(* 645-711): the password taken from the flag or the environment, the      *)
(* authorized key list read from a file or the environment and split into  *)
(* lines, the two callbacks, and NoClientAuth when neither method is on.   *)
(*                                                                         *)
(* Text is a sequence of tokens: a key as "<type> <base64>" is one token,  *)
(* NL is the newline, and other tokens are comments or options.            *)
(* strings.HasPrefix(line, key) is then "the line starts with the key's    *)
(* token".                                                                 *)
(***************************************************************************)
EXTENDS Sequences, SequencesExt

CONSTANTS Users,        \* user names a client may present
          Passwords,    \* passwords, "" among them
          Keys,         \* public keys, each one token
          NL,           \* the newline token
          Words         \* other tokens: comments, authorized_keys options

ASSUME SSHAuthAssumption == "" \in Passwords /\ NL \notin Keys \cup Words

Tokens == Keys \cup Words \cup {NL}

\* The command-line configuration that reaches the SSH block of run().
Config == [enablePassword : BOOLEAN, user : Users,
           passwordFlag : Passwords, passwordEnv : Passwords,
           enableKey : BOOLEAN, keysListFlag : BOOLEAN,
           keysFile : Seq(Tokens), keysEnv : Seq(Tokens), keysBypass : BOOLEAN]

\* An authentication request: the method and what the client presents.
Attempt == [method : {"none", "password", "publickey"}, user : Users,
            password : Passwords, key : Keys]

\* password := *SSHAuthPassword, falling back to STAYRTR_SSH_PASSWORD.
ConfiguredPassword(cfg) ==
    IF cfg.passwordFlag = "" THEN cfg.passwordEnv ELSE cfg.passwordFlag

PasswordCallback(cfg, att) ==
    att.user = cfg.user /\ att.password = ConfiguredPassword(cfg)

\* The key list comes from the file named by -ssh.auth.key.file, or from
\* STAYRTR_SSH_AUTHORIZEDKEYS when that flag is empty.
AuthorizedKeyText(cfg) == IF cfg.keysListFlag THEN cfg.keysFile ELSE cfg.keysEnv

\* strings.Split(text, "\n"): the text between newlines; "" gives one empty line.
SplitLines(text) ==
    FoldLeft(LAMBDA lines, t : IF t = NL THEN Append(lines, <<>>)
                               ELSE [lines EXCEPT ![Len(lines)] = Append(@, t)],
             << <<>> >>, text)

\* Fault of the loop: the break taken after the first non-empty line.
KeyLineMatchesBreakEarly(lines, key) ==
    LET keyLines == SelectSeq(lines, LAMBDA l : l # <<>>)
    IN  keyLines # <<>> /\ IsPrefix(<<key>>, keyLines[1])

\* The loop over sshClientKeys: skip empty lines, stop at the first line
\* that starts with the key; noKeys records a match.
KeyLineMatches(lines, key) ==
    \E i \in 1..Len(lines) : lines[i] # <<>> /\ IsPrefix(<<key>>, lines[i])

PublicKeyCallback(cfg, att) ==
    cfg.keysBypass \/ KeyLineMatches(SplitLines(AuthorizedKeyText(cfg)), att.key)

NoClientAuth(cfg) == ~(cfg.enableKey \/ cfg.enablePassword)

\* The server accepts a method only when its callback is set (or, for
\* "none", when NoClientAuth is), and then as the callback decides.
Admits(cfg, att) ==
    CASE att.method = "none"      -> NoClientAuth(cfg)
      [] att.method = "password"  -> cfg.enablePassword /\ PasswordCallback(cfg, att)
      [] att.method = "publickey" -> cfg.enableKey /\ PublicKeyCallback(cfg, att)

=============================================================================
