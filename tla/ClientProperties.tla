--------------------------- MODULE ClientProperties --------------------------
(***************************************************************************)
(* The e-mail address among the properties of the client, its file, and    *)
(* the connection to the grid server, to which the library sends the       *)
(* properties only when it connects.  The library keeps the pointer to the *)
(* address and connects on its own thread, again after every loss, so it   *)
(* may read the address while /email copies it.                            *)
(***************************************************************************)
EXTENDS Integers

CONSTANTS
  MaxEmails,    \* bound: addresses typed, all different
  MaxCommands   \* bound: /connect, /disconnect and starts of the process

ASSUME EmailAssumption == MaxEmails \in Nat /\ MaxCommands \in Nat

VARIABLES
  emailStage,     \* the process: "down", "idle", or a step of email_handler
  client_email,   \* an address, NoEmail or MixedEmail
  emailFile,      \* what chat_demo_email.txt holds
  wanted,         \* library: the connect switch
  grid,           \* library: "off", "connecting" or "on"
  serverEmail,    \* the address the server has got
  typing,         \* the address being set
  emails,         \* counts them
  saved,          \* history: the last address that was saved
  emailFault,     \* history: a call or a file operation has failed
  commands        \* counts the bounded commands

propertyVars == <<emailStage, client_email, emailFile, wanted, grid, serverEmail,
                  typing, emails, saved, emailFault, commands>>

NoEmail == 0
MixedEmail == -1

PropertiesInit ==
  /\ emailStage = "down" /\ wanted = FALSE /\ grid = "off"
  /\ client_email = NoEmail /\ emailFile = NoEmail /\ serverEmail = NoEmail
  /\ typing = NoEmail /\ emails = 0 /\ saved = NoEmail
  /\ emailFault = FALSE /\ commands = 0

EmailCommand == commands < MaxCommands /\ commands' = commands + 1

-----------------------------------------------------------------------------
(* connect_handler and disconnect_handler; a failure is printed.  Neither  *)
(* changes anything if it has been so already.                             *)
Connect ==
  \/ /\ wanted' = TRUE
     /\ grid' = IF grid = "off" THEN "connecting" ELSE grid
     /\ UNCHANGED emailFault
  \/ emailFault' = TRUE /\ UNCHANGED <<wanted, grid>>

Disconnect ==
  \/ wanted' = FALSE /\ grid' = "off" /\ UNCHANGED emailFault
  \/ emailFault' = TRUE /\ UNCHANGED <<wanted, grid>>

(* main: load_demo_email, mdg_init, mdg_chat_init.  If the file cannot be  *)
(* opened the address stays empty.                                         *)
StartWithEmail ==
  /\ emailStage = "down" /\ EmailCommand
  /\ emailStage' = "idle"
  /\ \/ client_email' = emailFile /\ Connect
     \/ /\ client_email' = NoEmail /\ emailFault' = TRUE
        /\ \/ wanted' = TRUE /\ grid' = "connecting"
           \/ UNCHANGED <<wanted, grid>>
  /\ UNCHANGED <<emailFile, serverEmail, typing, emails, saved>>

EmailProcessEnds ==
  /\ emailStage # "down"
  /\ emailStage' = "down"
  /\ client_email' = NoEmail /\ wanted' = FALSE /\ grid' = "off"
  /\ emailFault' = (emailFault \/ emailStage = "write")
  /\ UNCHANGED <<emailFile, serverEmail, typing, emails, saved, commands>>

ConnectCommand ==
  /\ emailStage = "idle" /\ EmailCommand
  /\ Connect
  /\ UNCHANGED <<emailStage, client_email, emailFile, serverEmail, typing, emails, saved>>

DisconnectCommand ==
  /\ emailStage = "idle" /\ EmailCommand
  /\ Disconnect
  /\ UNCHANGED <<emailStage, client_email, emailFile, serverEmail, typing, emails, saved>>

-----------------------------------------------------------------------------
(* email_handler: strncpy, disconnect, connect, save_demo_email.           *)
Step(from, to) == emailStage = from /\ emailStage' = to

CopyEmail ==
  /\ Step("idle", "copy")
  /\ emails < MaxEmails
  /\ emails' = emails + 1 /\ typing' = emails + 1
  /\ client_email' = MixedEmail
  /\ UNCHANGED <<emailFile, wanted, grid, serverEmail, saved, emailFault, commands>>

EmailIsCopied ==
  /\ Step("copy", "disconnect")
  /\ client_email' = typing
  /\ UNCHANGED <<emailFile, wanted, grid, serverEmail, typing, emails, saved,
                 emailFault, commands>>

EmailDisconnectsNot ==
  /\ Step("disconnect", "connect")
  /\ UNCHANGED <<wanted, grid, emailFault>>
  /\ UNCHANGED <<client_email, emailFile, serverEmail, typing, emails, saved, commands>>

EmailDisconnects ==
  /\ Step("disconnect", "connect")
  /\ Disconnect
  /\ UNCHANGED <<client_email, emailFile, serverEmail, typing, emails, saved, commands>>

EmailConnects ==
  /\ Step("connect", "save")
  /\ Connect
  /\ UNCHANGED <<client_email, emailFile, serverEmail, typing, emails, saved, commands>>

OpenEmailFile ==
  /\ \/ Step("save", "write") /\ emailFile' = NoEmail /\ UNCHANGED emailFault
     \/ Step("save", "idle") /\ emailFault' = TRUE /\ UNCHANGED emailFile
  /\ UNCHANGED <<client_email, wanted, grid, serverEmail, typing, emails, saved, commands>>

WriteEmailFile ==
  /\ Step("write", "idle")
  /\ saved' = typing
  /\ \/ emailFile' = client_email /\ UNCHANGED emailFault
     \/ emailFile' = MixedEmail /\ emailFault' = TRUE
  /\ UNCHANGED <<client_email, wanted, grid, serverEmail, typing, emails, commands>>

-----------------------------------------------------------------------------
(* The library connects, sending the properties, and connects again.       *)
GridConnects ==
  /\ grid = "connecting"
  /\ grid' = "on"
  /\ serverEmail' = client_email
  /\ UNCHANGED <<emailStage, client_email, emailFile, wanted, typing, emails, saved,
                 emailFault, commands>>

GridIsLost ==
  /\ grid = "on"
  /\ grid' = "connecting"
  /\ UNCHANGED <<emailStage, client_email, emailFile, wanted, serverEmail, typing,
                 emails, saved, emailFault, commands>>

EmailHandler ==
  \/ EmailIsCopied \/ EmailDisconnects \/ EmailConnects
  \/ OpenEmailFile \/ WriteEmailFile

PropertiesNext ==
  \/ StartWithEmail \/ EmailProcessEnds \/ ConnectCommand \/ DisconnectCommand
  \/ CopyEmail \/ EmailHandler
  \/ GridConnects \/ GridIsLost
=============================================================================
