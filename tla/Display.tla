-------------------------------- MODULE Display --------------------------------
(***************************************************************************)
(* What the device shows and what its button does: the thread of the       *)
(* serial display (serial_display.rs) with its pages, its terminals and    *)
(* the system message over them, the thread of the mini display            *)
(* (mini_display.rs), the button (btn_ctrl.rs), the outputs that the       *)
(* button and browsers switch (gpio_ctrl.rs), and the part of main.rs and  *)
(* wifi.rs that shows messages while the device boots.  Both displays are  *)
(* enabled.                                                                *)
(*                                                                         *)
(* CURRENT_PAGE, each message and each terminal are read and written one   *)
(* at a time.  Drawing is one step from the reading of the message to the  *)
(* last pixel: nobody else reads the screen, and the terminal is copied    *)
(* and found clean or dirty under its lock.                                *)
(***************************************************************************)
EXTENDS AnsiTerminal

CONSTANTS
  PAGE_COUNT,    \* pages: the information page, 0, and the terminals
  Chunks,        \* what a read of a serial port gives
  Pins,          \* outputs, with DC_OUT
  DC_OUT,
  DCOUT_PRESS, MINI_MESSAGE, SYS_MESSAGE, FACTORY_RESET_PRESS, \* seconds of a press
  WPS_TENS,      \* updates of the WPS countdown
  None,
  MaxInputs      \* bound: chunks, presses, requests, changes of the Wi-Fi

ASSUME PressAssumption ==
  /\ DCOUT_PRESS \in 1 .. MINI_MESSAGE /\ MINI_MESSAGE \in Nat
  /\ SYS_MESSAGE \in MINI_MESSAGE .. FACTORY_RESET_PRESS - 2 /\ FACTORY_RESET_PRESS \in Nat
  /\ DC_OUT \in Pins

ASSUME InputAssumption ==
  /\ PAGE_COUNT \in Nat /\ PAGE_COUNT > 1 /\ WPS_TENS \in Nat
  /\ Chunks \subseteq Seq(STRING)

VARIABLES
  term,     \* the terminal of each page but the information page
  page,     \* CURRENT_PAGE
  message,  \* SYSTEM_MESSAGE, MINI_MESSAGE
  aux,      \* DISPLAY_AUX is set
  gpio,     \* gpio_states of GpioPwmState: what main drives the outputs to
  main,     \* where main is; left: WPS ended and left its message
  btn,      \* the pin, and the variables of the button thread
  d,        \* the variables of the display thread
  screen,   \* pixels: the header, the cells, the text over them
  inputs    \* counter

vars == <<term, page, message, aux, gpio, main, btn, d, screen, inputs>>

PAGE_INFO == 0
PAGE_COM1 == 1
Terminals == 1 .. PAGE_COUNT - 1

(* Whole seconds that a reset is away k seconds and a bit into a press, as *)
(* a u64 quotient cut to an i32: past the reset the release build wraps.   *)
Wrapped      == 1271310319
Remaining(k) == IF k < FACTORY_RESET_PRESS THEN FACTORY_RESET_PRESS - k - 1 ELSE Wrapped

Header(p)   == <<"PAGE", p>>
ResetIn(n)  == <<"FACTORY RESET", n>>
Erasing     == <<"ERASING NVS", 0>>
WpsMode(n)  == <<"WPS MODE", n>>
WpsSuccess  == <<"WPS SUCCESS", 0>>
Connected   == <<"CONNECTED", 0>>
WpsMessages == {WpsMode(n) : n \in 0 .. WPS_TENS} \cup {WpsSuccess}

(***************************************************************************)
(* Boot                                                                    *)
(***************************************************************************)

TermBoot    == [p \in Terminals |-> AnsiTerminalNew]
MessageBoot == [sys |-> None, mini |-> None]
GpioBoot    == [i \in Pins |-> FALSE]
MainBoot    == [pc |-> "port", tens |-> 0, left |-> FALSE]
ButtonBoot  == [pin |-> "up", last |-> "up", k |-> 0, begun |-> FALSE, dcout |-> FALSE,
                sys |-> FALSE, mini |-> FALSE, pc |-> "poll", read |-> None]
DisplayBoot == [pc |-> "page", last_page |-> PAGE_COM1, force |-> TRUE, prev_cells |-> NoCells,
                prev_lines |-> None, prev_sys |-> None]
ScreenBoot  == [head |-> Header(PAGE_COM1), cells |-> NoCells, text |-> None]

Init ==
  /\ term = TermBoot /\ page = PAGE_COM1 /\ message = MessageBoot /\ aux = FALSE
  /\ gpio = GpioBoot /\ main = MainBoot /\ btn = ButtonBoot
  /\ d = DisplayBoot /\ screen = ScreenBoot
  /\ inputs = 0

Input == inputs < MaxInputs /\ inputs' = inputs + 1

(***************************************************************************)
(* Who writes to what is shown                                             *)
(***************************************************************************)

(* The ports are opened when main is about to enter its loop.              *)
push_data(p, data) ==
  /\ main.pc = "loop" /\ Input
  /\ term' = [term EXCEPT ![p] = feed(@, data)]
  /\ UNCHANGED <<page, message, aux, gpio, main, btn, d, screen>>

Serving == main.pc \in {"aux", "loop"}

(* A save of the configuration, and set_page of a terminal with it.        *)
set_display_port(p) ==
  /\ Serving /\ Input
  /\ page' = p
  /\ UNCHANGED <<term, message, aux, gpio, main, btn, d, screen>>

(* A browser's request, or a command of an SSH session.                    *)
set_gpio(i, on) ==
  /\ Serving /\ Input
  /\ gpio' = [gpio EXCEPT ![i] = on]
  /\ UNCHANGED <<term, page, message, aux, main, btn, d, screen>>

(***************************************************************************)
(* main and wifi_connect_wps                                               *)
(***************************************************************************)

MainAt(from, to) == main.pc = from /\ main' = [main EXCEPT !.pc = to]
Left(from)       == main.pc = from /\ main' = [main EXCEPT !.pc = "wps_over", !.left = TRUE]
ShowSys(m)       == message' = [message EXCEPT !.sys = m]
ByMain           == UNCHANGED <<term, btn, d, screen>>

(* The port that the stored configuration names.                           *)
main_port ==
  /\ MainAt("port", "wifi")
  /\ page' \in Terminals
  /\ ByMain /\ UNCHANGED <<message, aux, gpio, inputs>>

wifi_connect ==
  /\ MainAt("wifi", "serve")
  /\ ByMain /\ UNCHANGED <<page, message, aux, gpio, inputs>>

main_wps ==
  /\ MainAt("wifi", "wps")
  /\ message' = [message EXCEPT !.mini = <<"WPS", 0>>]
  /\ ByMain /\ UNCHANGED <<page, aux, gpio, inputs>>

wps_start ==
  /\ MainAt("wps", "enable") /\ ShowSys(WpsMode(WPS_TENS))
  /\ ByMain /\ UNCHANGED <<page, aux, gpio, inputs>>

wps_enable ==
  /\ MainAt("enable", "polling") \/ Left("enable")
  /\ ByMain /\ UNCHANGED <<page, message, aux, gpio, inputs>>

wps_countdown ==
  /\ main.pc = "polling" /\ main.tens < WPS_TENS
  /\ main' = [main EXCEPT !.tens = @ + 1]
  /\ ShowSys(WpsMode(WPS_TENS - main'.tens))
  /\ ByMain /\ UNCHANGED <<page, aux, gpio, inputs>>

(* WPS_FAILED, or two minutes are over.                                    *)
wps_failed ==
  /\ MainAt("polling", "wps_over") /\ ShowSys(None)
  /\ ByMain /\ UNCHANGED <<page, aux, gpio, inputs>>

wps_success ==
  /\ MainAt("polling", "connecting") /\ ShowSys(WpsSuccess)
  /\ ByMain /\ UNCHANGED <<page, aux, gpio, inputs>>

wps_connected ==
  /\ MainAt("connecting", "settle") /\ ShowSys(Connected)
  /\ ByMain /\ UNCHANGED <<page, aux, gpio, inputs>>

(* connect fails, or there is no connection after 15 seconds.              *)
wps_given_up ==
  /\ Left("connecting")
  /\ ByMain /\ UNCHANGED <<page, message, aux, gpio, inputs>>

wps_settled ==
  /\ MainAt("settle", "wps_over") /\ ShowSys(None)
  /\ ByMain /\ UNCHANGED <<page, aux, gpio, inputs>>

wps_over ==
  /\ main.pc = "wps_over" /\ main' = [main EXCEPT !.pc = "serve", !.tens = 0]
  /\ message' = [message EXCEPT !.mini = None]
  /\ ByMain /\ UNCHANGED <<page, aux, gpio, inputs>>

(* The HTTP server.                                                        *)
main_serve ==
  /\ MainAt("serve", "aux")
  /\ ByMain /\ UNCHANGED <<page, message, aux, gpio, inputs>>

set_display_aux ==
  /\ MainAt("aux", "loop")
  /\ aux' = TRUE
  /\ ByMain /\ UNCHANGED <<page, message, gpio, inputs>>

(***************************************************************************)
(* The button                                                              *)
(***************************************************************************)

ByButton == UNCHANGED <<term, aux, main, d, screen>>

Press ==
  /\ Input /\ btn.pin = "up" /\ btn' = [btn EXCEPT !.pin = "down"]
  /\ ByButton /\ UNCHANGED <<page, message, gpio>>

Release ==
  /\ btn.pin = "down" /\ btn' = [btn EXCEPT !.pin = "up"]
  /\ ByButton /\ UNCHANGED <<page, message, gpio, inputs>>

(* A second of a press that the thread has seen.                           *)
Second ==
  /\ btn.pin = "down" /\ btn.last = "down" /\ btn.k < FACTORY_RESET_PRESS
  /\ btn' = [btn EXCEPT !.k = @ + 1, !.begun = TRUE]
  /\ ByButton /\ UNCHANGED <<page, message, gpio, inputs>>

button_pressed ==
  /\ btn.pc = "poll" /\ btn.pin = "down" /\ btn.last = "up"
  /\ btn' = [btn EXCEPT !.last = "down", !.k = 0, !.begun = FALSE, !.dcout = FALSE, !.sys = FALSE]
  /\ ByButton /\ UNCHANGED <<page, message, gpio, inputs>>

(* A poll while the button is held shows the time left: when the message is *)
(* due, and in the first 50 ms of a second ("edge").  Then it resets or    *)
(* toggles.                                                                *)
button_held ==
  /\ btn.pc = "poll" /\ btn.pin = "down" /\ btn.last = "down"
  /\ \E edge \in {FALSE, btn.begun} :
       LET left  == Remaining(btn.k)
           sys   == btn.k >= SYS_MESSAGE /\ left > 0 /\ (edge \/ ~btn.sys)
           small == btn.k >= MINI_MESSAGE /\ left > 0
                    /\ (~btn.mini \/ (edge /\ btn.k < FACTORY_RESET_PRESS))
       IN  /\ message' = [sys  |-> IF sys THEN ResetIn(left) ELSE message.sys,
                          mini |-> IF small THEN ResetIn(left) ELSE message.mini]
           /\ btn' = [btn EXCEPT
                !.sys = @ \/ sys, !.mini = @ \/ small, !.begun = @ /\ ~edge,
                !.pc = IF btn.k >= FACTORY_RESET_PRESS THEN "reset"
                       ELSE IF btn.k >= DCOUT_PRESS /\ ~btn.dcout THEN "toggle" ELSE "poll"]
  /\ ByButton /\ UNCHANGED <<page, gpio, inputs>>

toggle_get ==
  /\ btn.pc = "toggle"
  /\ btn' = [btn EXCEPT !.pc = "set", !.dcout = TRUE, !.read = gpio[DC_OUT]]
  /\ ByButton /\ UNCHANGED <<page, message, gpio, inputs>>

toggle_set ==
  /\ btn.pc = "set"
  /\ gpio' = [gpio EXCEPT ![DC_OUT] = ~btn.read]
  /\ btn' = [btn EXCEPT !.pc = "poll", !.read = None]
  /\ ByButton /\ UNCHANGED <<page, message, inputs>>

button_resets ==
  /\ btn.pc = "reset" /\ btn' = [btn EXCEPT !.pc = "restart"]
  /\ ShowSys(Erasing)
  /\ ByButton /\ UNCHANGED <<page, gpio, inputs>>

(* The NVS is erased (module Settings) and the device boots.               *)
factory_reset ==
  /\ btn.pc = "restart"
  /\ term' = TermBoot /\ page' = PAGE_COM1 /\ message' = MessageBoot /\ aux' = FALSE
  /\ gpio' = GpioBoot /\ main' = MainBoot
  /\ btn' = [ButtonBoot EXCEPT !.pin = btn.pin]
  /\ d' = DisplayBoot /\ screen' = ScreenBoot
  /\ UNCHANGED inputs

button_released ==
  /\ btn.pc = "poll" /\ btn.pin = "up" /\ btn.last = "down"
  /\ btn' = IF btn.dcout THEN [btn EXCEPT !.pc = "clear"]
            ELSE [btn EXCEPT !.pc = "turn", !.read = page]
  /\ ByButton /\ UNCHANGED <<page, message, gpio, inputs>>

next_page ==
  /\ btn.pc = "turn"
  /\ page' = (btn.read + 1) % PAGE_COUNT
  /\ btn' = [btn EXCEPT !.pc = "clear", !.read = None]
  /\ ByButton /\ UNCHANGED <<message, gpio, inputs>>

(* Mutant: only a press that turned the page clears.                       *)
button_cleared_after_turn ==
  /\ btn.pc = "clear"
  /\ message' = IF btn.dcout THEN message ELSE MessageBoot
  /\ btn' = [ButtonBoot EXCEPT !.pin = btn.pin]
  /\ ByButton /\ UNCHANGED <<page, gpio, inputs>>

button_cleared ==
  /\ btn.pc = "clear"
  /\ message' = [sys  |-> IF btn.sys THEN None ELSE message.sys,
                 mini |-> IF btn.mini THEN None ELSE message.mini]
  /\ btn' = [ButtonBoot EXCEPT !.pin = btn.pin]
  /\ ByButton /\ UNCHANGED <<page, gpio, inputs>>

(***************************************************************************)
(* The displays                                                            *)
(***************************************************************************)

ByDisplay == UNCHANGED <<page, message, aux, gpio, main, btn, inputs>>

look_page ==
  /\ d.pc = "page"
  /\ d' = IF page = d.last_page THEN [d EXCEPT !.pc = "draw"]
          ELSE [d EXCEPT !.pc = "draw", !.last_page = page, !.force = TRUE,
                         !.prev_cells = NoCells]
  /\ ByDisplay /\ UNCHANGED <<term, screen>>

draw_system_message ==
  /\ d.pc = "draw" /\ message.sys # None
  /\ screen' = IF message.sys = d.prev_sys THEN [screen EXCEPT !.text = message.sys]
               ELSE [head |-> message.sys, cells |-> NoCells, text |-> message.sys]
  /\ d' = [d EXCEPT !.pc = "page", !.prev_sys = message.sys, !.force = FALSE]
  /\ ByDisplay /\ UNCHANGED term

(* Mutant: a display that a message covered is drawn as if it had not.     *)
Forced_by_page == d.force
Forced  == d.force \/ d.prev_sys # None
Cleared == IF Forced THEN [head |-> Header(d.last_page), cells |-> NoCells, text |-> None] ELSE screen
Drawn(changes) == [changes EXCEPT !.pc = "page", !.prev_sys = None, !.force = FALSE]

(* The outputs other than DC OUT are on the information page.              *)
Lines == [i \in Pins \ {DC_OUT} |-> aux /\ gpio[i]]

draw_info_page ==
  /\ d.pc = "draw" /\ message.sys = None /\ d.last_page = PAGE_INFO
  /\ screen' = IF Forced \/ d.prev_lines # Lines THEN [Cleared EXCEPT !.text = Lines] ELSE screen
  /\ d' = Drawn([d EXCEPT !.prev_lines = Lines])
  /\ ByDisplay /\ UNCHANGED term

draw_terminal_page ==
  /\ d.pc = "draw" /\ message.sys = None /\ d.last_page \in Terminals
  /\ LET t       == term[d.last_page]
         redraw  == t.dirty \/ Forced
         stale(r, c) == Forced \/ t.cells[r][c] # d.prev_cells[r][c]
     IN  /\ term' = [term EXCEPT ![d.last_page].dirty = FALSE]
         /\ screen' = IF ~redraw THEN screen
                      ELSE [Cleared EXCEPT !.cells = [r \in Rows |-> [c \in Cols |->
                              IF stale(r, c) THEN t.cells[r][c] ELSE @[r][c]]]]
         /\ d' = Drawn([d EXCEPT !.prev_cells = IF redraw THEN t.cells ELSE @,
                                 !.prev_lines = IF Forced THEN None ELSE @])
  /\ ByDisplay

(***************************************************************************)
(* The specification                                                       *)
(***************************************************************************)

Main ==
  \/ main_port \/ wifi_connect \/ main_wps \/ main_serve \/ set_display_aux
  \/ wps_start \/ wps_enable \/ wps_countdown \/ wps_failed \/ wps_success
  \/ wps_connected \/ wps_given_up \/ wps_settled \/ wps_over

Button ==
  \/ button_pressed \/ button_held \/ button_released \/ button_cleared
  \/ toggle_get \/ toggle_set \/ next_page \/ button_resets \/ factory_reset

DisplayTask == look_page \/ draw_system_message
               \/ draw_info_page \/ draw_terminal_page

Next ==
  \/ Main \/ Button \/ DisplayTask
  \/ \E p \in Terminals, data \in Chunks : push_data(p, data)
  \/ \E p \in Terminals : set_display_port(p)
  \/ \E i \in Pins, on \in BOOLEAN : set_gpio(i, on)
  \/ Press \/ Release \/ Second

Spec == Init /\ [][Next]_vars

(* The threads poll for ever and main goes on; nobody need press a button, *)
(* send a byte or let a button go.                                         *)
FairSpec == Spec /\ WF_vars(Main) /\ WF_vars(Button) /\ WF_vars(DisplayTask)

(***************************************************************************)
(* Properties                                                              *)
(***************************************************************************)

(* Whatever bytes come, in whatever pieces, the cursor and its saved copy  *)
(* stay where the code may index the cells (the column may be one past the *)
(* last): an index outside panics in push_data, with the terminal's lock   *)
(* held, and ends the thread that receives.                                *)
CursorInside ==
  \A p \in Terminals :
    /\ term[p].row \in Rows /\ term[p].col \in 0 .. TERM_COLS
    /\ term[p].saved_row \in Rows /\ term[p].saved_col \in 0 .. TERM_COLS

(* Once the button is up and seen so, and WPS is over, no message covers   *)
(* either display, however a press and WPS met: but for the message that   *)
(* WPS leaves when it gives up without clearing it.                        *)
MessageGone ==
  (btn.last = "up" /\ btn.pc = "poll" /\ main.pc \in {"serve", "aux", "loop"}) =>
     /\ message.sys \in {None} \cup IF main.left THEN WpsMessages ELSE {}
     /\ message.mini = None

(* What is to be seen is on the display.                                   *)
Shown ==
     IF message.sys # None THEN screen.head = message.sys /\ screen.text = message.sys
     ELSE /\ screen.head = Header(page)
          /\ page = PAGE_INFO => screen.text = Lines
          /\ page \in Terminals => screen.text = None /\ screen.cells = term[page].cells

(* When inputs stop, the display comes to show the page, the message and    *)
(* the cells there are, though it draws only what it takes to have         *)
(* changed, and stay so.  (A button that is never let go resets the device *)
(* again after every boot.)                                                *)
ShownAtLast == <>[](btn.pin = "up") => <>[]Shown

(***************************************************************************)
(* The inductive invariant behind CursorInside and MessageGone             *)
(***************************************************************************)

(* A terminal, as far as its cursor depends on it: in any state of the     *)
(* parser and with any parameters.                                         *)
TerminalOk(t) ==
  /\ DOMAIN t = DOMAIN AnsiTerminalNew
  /\ t.state \in {"Normal", "Esc", "Csi", "OscOrOther"}
  /\ t.row \in Rows /\ t.col \in 0 .. TERM_COLS
  /\ t.saved_row \in Rows /\ t.saved_col \in 0 .. TERM_COLS

TerminalsOk == DOMAIN term = Terminals /\ \A p \in Terminals : TerminalOk(term[p])

WpsTask == {"wps", "enable", "polling", "connecting", "settle", "wps_over"}

TypeOK ==
  /\ DOMAIN message = {"sys", "mini"}
  /\ main \in [pc : {"port", "wifi", "serve", "aux", "loop"} \cup WpsTask, tens : 0 .. WPS_TENS,
               left : BOOLEAN]
  /\ DOMAIN btn = DOMAIN ButtonBoot
  /\ btn.pc \in {"poll", "toggle", "set", "reset", "restart", "turn", "clear"}
  /\ {btn.pin, btn.last} \subseteq {"up", "down"} /\ {btn.sys, btn.mini} \subseteq BOOLEAN

(* A button that is up has left nothing behind it, and shows nothing.      *)
ButtonInv ==
  btn.last = "up" => btn.pc = "poll" /\ ~btn.sys /\ ~btn.mini

(* What main has left on the display where it is: the button shows its     *)
(* messages over it, and clears what is there when it has shown one.       *)
OfMain ==
  {None} \cup CASE main.pc \in {"enable", "polling"} -> {WpsMode(n) : n \in 0 .. WPS_TENS}
               [] main.pc = "connecting" -> {WpsSuccess}
               [] main.pc = "settle"     -> {Connected}
               [] OTHER                  -> IF main.left THEN WpsMessages ELSE {}

MessageInv ==
  /\ main.left => main.pc \in {"wps_over", "serve", "aux", "loop"}
  /\ ~btn.sys /\ btn.pc # "restart" => message.sys \in OfMain
  /\ ~btn.mini /\ main.pc \notin WpsTask => message.mini = None

DisplayInv == TypeOK /\ TerminalsOk /\ ButtonInv /\ MessageInv
===============================================================================
