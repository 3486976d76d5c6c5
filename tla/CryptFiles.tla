------------------------------- MODULE CryptFiles -------------------------------
(***************************************************************************)
(* crypt-sym (built with CBC or with GCM) and crypt-asym: commands that    *)
(* hand keys and ciphertext to each other in files.  A command is the      *)
(* sequence of its file operations; fopen(.., "w") empties a file before   *)
(* fputs() fills it, and the process may be killed anywhere.               *)
(* A file holds <<>> when it does not exist, <<0>> when it is empty, <<n>> *)
(* for a key or an iv drawn by run n, and the keys it was made with when   *)
(* it is a ciphertext or a tag.                                            *)
(***************************************************************************)
EXTENDS Integers, Sequences

CONSTANTS
  CfPrograms,    \* a subset of {"cbc", "gcm", "asym"}
  CfRuns,        \* how many commands are started
  CfKills        \* how many of them are killed

ASSUME CfAssumption == CfPrograms \subseteq {"cbc", "gcm", "asym"} /\ CfRuns \in Nat /\ CfKills \in Nat

VARIABLES
  cfProg,
  cfFile,        \* file name -> content
  cfCmd,         \* the command that runs, "none" between commands
  cfTodo,        \* its operations that are left
  cfReg,         \* what it read: file name -> content
  cfRun,         \* commands started
  cfKilled,      \* commands killed
  cfShown,       \* what the last decrypt or pipe printed: "none", "message" or "garbage"
  cfStage        \* how far an undisturbed keygen, encrypt got: "none", "keyed" or "sealed"

cfVars == <<cfProg, cfFile, cfCmd, cfTodo, cfReg, cfRun, cfKilled, cfShown, cfStage>>

Names == {"key", "iv", "auth", "tag", "enc", "priv", "pub"}
Absent == <<>>
Empty == <<0>>
Rd(file) == [op |-> "read", file |-> file]
Fopen(file) == [op |-> "open", file |-> file]
Fputs(file) == [op |-> "put", file |-> file]
Step(op) == [op |-> op, file |-> "key"]

(* crypt-sym *)
cbc_keygen == <<Fopen("key"), Fputs("key"), Fopen("iv"), Fputs("iv"), Fopen("auth"), Fputs("auth")>>
gcm_keygen == <<Fopen("key"), Fputs("key"), Fopen("iv"), Fputs("iv")>>
cbc_encrypt == <<Rd("key"), Rd("iv"), Rd("auth"), Fopen("enc"), Fputs("enc"), Fopen("tag"), Fputs("tag")>>
gcm_encrypt_NoIv == <<Rd("key"), Fopen("enc"), Fputs("enc"), Fopen("tag"), Fputs("tag")>>
gcm_encrypt == <<Rd("key"), Rd("iv"), Fopen("enc"), Fputs("enc"), Fopen("tag"), Fputs("tag")>>
cbc_decrypt == <<Rd("key"), Rd("iv"), Rd("enc"), Step("show")>>
gcm_decrypt == <<Rd("key"), Rd("iv"), Rd("tag"), Rd("enc"), Step("show")>>

(* crypt-asym; keygen writes the public key in the form that PEM_read_PUBKEY()
   does not read, certgen.sh in the form it does *)
key_pair_generate == <<Fopen("priv"), Fputs("priv"), Fopen("pub"), Fputs("pub")>>
asym_encrypt == <<Rd("pub"), Fopen("enc"), Fputs("enc")>>
asym_decrypt == <<Rd("priv"), Rd("enc"), Step("show")>>
asym_pipe == <<Rd("pub"), Rd("priv"), Step("pipe")>>

Calls(cmd) ==
  CASE cmd = "keygen"  -> CASE cfProg = "cbc" -> cbc_keygen  [] cfProg = "gcm" -> gcm_keygen  [] OTHER -> key_pair_generate
    [] cmd = "certgen" -> key_pair_generate
    [] cmd = "encrypt" -> CASE cfProg = "cbc" -> cbc_encrypt [] cfProg = "gcm" -> gcm_encrypt [] OTHER -> asym_encrypt
    [] cmd = "decrypt" -> CASE cfProg = "cbc" -> cbc_decrypt [] cfProg = "gcm" -> gcm_decrypt [] OTHER -> asym_decrypt
    [] cmd = "pipe"    -> asym_pipe

Commands == IF cfProg = "asym" THEN {"keygen", "certgen", "encrypt", "decrypt", "pipe"}
            ELSE {"keygen", "encrypt", "decrypt"}

CfInit ==
  /\ cfProg \in CfPrograms /\ cfFile = [f \in Names |-> Absent] /\ cfCmd = "none" /\ cfTodo = <<>>
  /\ cfReg = [f \in Names |-> Absent] /\ cfRun = 0 /\ cfKilled = 0 /\ cfShown = "none" /\ cfStage = "none"

(* main(): a command starts.  What was prepared by the commands before stays so
   until a command writes to it. *)
main ==
  /\ cfCmd = "none" /\ cfRun < CfRuns /\ cfRun' = cfRun + 1
  /\ cfCmd' \in Commands /\ cfTodo' = Calls(cfCmd')
  /\ cfReg' = [f \in Names |-> Absent] /\ cfShown' = "none"
  /\ cfStage' = CASE cfCmd' \in {"keygen", "certgen"} -> "none"
                  [] cfCmd' = "encrypt" /\ cfStage = "sealed" -> "keyed"
                  [] OTHER -> cfStage
  /\ UNCHANGED <<cfProg, cfFile, cfKilled>>

Dies == cfCmd' = "none" /\ cfTodo' = <<>> /\ cfReg' = [f \in Names |-> Absent]

(* what a file is filled with: new keys, or the keys the data was sealed with; a
   public key of keygen is told from one of certgen by its second entry *)
Content(file) ==
  CASE file \in {"enc", "tag"} -> IF cfProg = "asym" THEN <<cfReg["pub"][1]>> ELSE cfReg["key"] \o cfReg["iv"]
    [] file = "pub" -> IF cfCmd = "certgen" THEN <<cfRun>> ELSE <<cfRun, 0>>
    [] OTHER -> <<cfRun>>

(* fopen(.., "r") of a file that does not exist gives NULL, and so does a public key
   in the other form: the process dies on it *)
ReadsFile(file) ==
  IF cfFile[file] = Absent \/ (file = "pub" /\ Len(cfFile[file]) = 2)
  THEN Dies /\ UNCHANGED cfFile
  ELSE /\ cfReg' = [cfReg EXCEPT ![file] = cfFile[file]] /\ cfTodo' = Tail(cfTodo)
       /\ UNCHANGED <<cfCmd, cfFile>>

FileStep ==
  /\ cfTodo # <<>> /\ Head(cfTodo).op \in {"read", "open", "put"}
  /\ LET file == Head(cfTodo).file IN
     CASE Head(cfTodo).op = "read" -> ReadsFile(file)
       [] Head(cfTodo).op = "open" -> cfFile' = [cfFile EXCEPT ![file] = Empty] /\ cfTodo' = Tail(cfTodo)
                                      /\ UNCHANGED <<cfCmd, cfReg>>
       [] Head(cfTodo).op = "put"  -> cfFile' = [cfFile EXCEPT ![file] = Content(file)] /\ cfTodo' = Tail(cfTodo)
                                      /\ UNCHANGED <<cfCmd, cfReg>>
  /\ UNCHANGED <<cfProg, cfRun, cfKilled, cfShown, cfStage>>

(* decrypt: the text is copied out before, and whatever, the check of the tag says *)
Opens ==
  IF cfProg = "asym" THEN cfReg["enc"] = cfReg["priv"] ELSE cfReg["enc"] = cfReg["key"] \o cfReg["iv"]

Shows ==
  /\ cfTodo # <<>> /\ Head(cfTodo).op \in {"show", "pipe"}
  /\ cfShown' = IF (Head(cfTodo).op = "show" /\ Opens) \/ (Head(cfTodo).op = "pipe" /\ cfReg["pub"] = cfReg["priv"])
                THEN "message" ELSE "garbage"
  /\ cfTodo' = Tail(cfTodo) /\ UNCHANGED <<cfProg, cfFile, cfCmd, cfReg, cfRun, cfKilled, cfStage>>

Finishes ==
  /\ cfCmd # "none" /\ cfTodo = <<>> /\ Dies
  /\ cfStage' = CASE cfCmd \in {"keygen", "certgen"} -> "keyed"
                  [] cfCmd = "encrypt" /\ cfStage = "keyed" -> "sealed"
                  [] OTHER -> cfStage
  /\ UNCHANGED <<cfProg, cfFile, cfRun, cfKilled, cfShown>>

Killed ==
  /\ cfTodo # <<>> /\ cfKilled < CfKills /\ cfKilled' = cfKilled + 1 /\ Dies
  /\ UNCHANGED <<cfProg, cfFile, cfRun, cfShown, cfStage>>

CfNext == main \/ FileStep \/ Shows \/ Finishes \/ Killed
CfSpec == CfInit /\ [][CfNext]_cfVars

-----------------------------------------------------------------------------
(* After a keygen and an encrypt that both ran to their end, decrypt prints the
   message, and after a key pair was made to its end pipe does, whatever was killed
   before them and whatever decrypts came between. *)
CfSealedOpens ==
  /\ cfStage = "sealed" /\ cfCmd = "decrypt" => cfShown # "garbage"
  /\ cfStage # "none" /\ cfCmd = "pipe" => cfShown # "garbage"
==============================================================================
