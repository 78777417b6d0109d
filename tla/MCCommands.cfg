SPECIFICATION Spec
CONSTANTS
    all = all
    one = one
    seven = seven
    pc = pc
    pc2 = pc2
    office = office
    m1 = m1
    m2 = m2
    m3 = m3
    bot = bot
    onbot = onbot
    on = on
    list = list
    help = help
    whoami = whoami
    last = last
    Empty = Empty
    Space = Space
    Line = Line
    On = on
    List = list
    Help = help
    Whoami = whoami
    ShowLast = last
    AllWord = all
    Words <- MCWords
    Before <- MCBefore
    Numeral <- MCNumeral
    Number <- MCNumber
    Within <- MCWithin
    DeviceLists <- MCDeviceLists
    Texts <- MCTexts
INVARIANTS
    CommandIsMeant
    SelectsDesignated
    ListedNumberSelects
    OkTellsWake
