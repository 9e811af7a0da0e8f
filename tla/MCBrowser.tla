----------------------------- MODULE MCBrowser -----------------------------
EXTENDS Browser
AllPages == DOMAIN Screens
=============================================================================
