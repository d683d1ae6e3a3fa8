---------------------------- MODULE WaylandWindowMC ----------------------------
\* WaylandWindow with three compositors that differ in all respects.
EXTENDS WaylandWindow
Kind(manager, resizable, prompt) ==
    [manager |-> manager, resizable |-> resizable, prompt |-> prompt]
KindsValue ==
    {Kind("none", FALSE, TRUE), Kind("server", TRUE, TRUE), Kind("client", FALSE, FALSE)}
=============================================================================
