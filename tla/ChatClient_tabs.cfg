CONSTANTS
  Tabs = {"t1", "t2"}
  Browsers = {"b1", "b2"}
  BrowserOf <- MCBrowserOf
  Conversations = {"x", "y"}
  MaxPrompts = 2
  MaxRequests = 3
  MaxClicks = 1
  NoOne = "no one"
SPECIFICATION Spec
INVARIANTS NoConflictWithOneself PromptIsStoredOnce ScreenShowsTheConversation
PROPERTIES InputComesBack
CHECK_DEADLOCK FALSE
