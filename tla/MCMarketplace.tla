---------------------------- MODULE MCMarketplace ----------------------------
(* A small instance of Marketplace. *)
EXTENDS Marketplace

CONSTANTS h1, h2, app1, app2

\* Two requests for one app, with failing writes and a stop of the panel.
BusyPanel ==
  [handlers |-> {h1, h2}, apart |-> FALSE, apps |-> {app1}, ports |-> {1}, writesFail |-> TRUE, crashes |-> 1]

\* One request at a time, over two apps and two ports.
QuietPanel ==
  [handlers |-> {h1}, apart |-> TRUE, apps |-> {app1, app2}, ports |-> {1, 2}, writesFail |-> FALSE, crashes |-> 0]

\* The same with a stop of the panel.
StoppedPanel == [QuietPanel EXCEPT !.ports = {1}, !.crashes = 1]

\* Two requests for different apps, which ask for the same port.
SharedPanel == [QuietPanel EXCEPT !.handlers = {h1, h2}, !.ports = {1}]

FourPanels == {BusyPanel, QuietPanel, StoppedPanel, SharedPanel}

=============================================================================
