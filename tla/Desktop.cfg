SPECIFICATION DesktopSpec
CONSTANTS
    VGA_WIDTH = 3
    VGA_HEIGHT = 4
    TASKBAR = 1
    TITLE = 1
    CLOSE = 1
    MARGIN = 0
    ExitButton <- MCExitButton
    Layout <- MCLayout
    TerminalIdx = 2
    Moves <- MCMoves
    MAX_LOOPS = 2
    TERM_COLS = 3
    TERM_BUF_ROWS = 3
    TERM_INPUT_MAX = 2
    TAB = 2
    HEIGHT = 46
    Glyphs = {"a", "b", ">", " "}
    Keys = {"a"}
    Outputs <- MCOutputs
    Welcome <- MCWelcome
    MaxPrinted = 20
    SCREEN_COLS = 3
    SCREEN_ROWS = 2
    TABSTOP = 2
    Chars = {"a", ">", "*"}
    Typed = {"a", ">"}
    MaxLen <- MCMaxLen
    Messages <- MCMessages
    Usernames = {"admin", "root"}
    Passwords <- MCPasswords
    AdminUser = "admin"
    AdminPass <- MCAdminPass
INVARIANTS
    DragIsHeld
    ShowsTail
    InputLineShown
    EchoMatchesLine
    QuietPacketRealigns
    ShiftIsHeld
    LoginExact
PROPERTIES
    SpongeSpec
    StackSpec
