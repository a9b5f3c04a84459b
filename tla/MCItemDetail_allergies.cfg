SPECIFICATION DetailSpec
CONSTANTS
    NoItem = NoItem
    coffee = coffee
    cake = cake
    shot = shot
    oat = oat
    soy = soy
    small = small
    large = large
    extras = extras
    size = size
    Menu = {coffee, cake}
    Lists = {extras, size}
    Extras = {extras}
    Options = {shot, oat, soy, small, large}
    Multiple = {shot}
    Offers <- MCOffers
    ListOf <- MCListOf
    BasePrice <- MCBasePrice
    ExtraPrice <- MCExtraPrice
    Allergens = {nuts}
    KeepsCells = FALSE
    MaxExtra = 2
    MaxQuantity = 3
    MaxAdded = 2
INVARIANT
    AllergiesGoWithOrder
