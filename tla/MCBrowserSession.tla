--------------------------- MODULE MCBrowserSession ---------------------------
EXTENDS BrowserSession

CONSTANTS l1, l2
==============================================================================
